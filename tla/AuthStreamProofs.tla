--------------------------- MODULE AuthStreamProofs ---------------------------
(***************************************************************************)
(* What holds of authentication for every binary, every way to cut it into *)
(* blocks, every header, threshold and memory, and any number of binaries. *)
(***************************************************************************)
EXTENDS AuthStream, SequenceTheorems, TLAPS

(* The parts of the inductive invariant.                                   *)

Header == headers[1]
Handles ==
    [dest : Nat, safe : Nat, processed : Nat, remaining : Int, size : Nat, num : Nat,
     oem : BOOLEAN, short : BOOLEAN, nvidia : BOOLEAN]

\* How much of the stored binary has been processed, and of its cells.
Seen == pos - block.size
Taken == Less(Seen - HEADER_SIZE, binary.length)

Bound == phase \notin {"idle", "table"}
Blank(at) == \A a \in Room(at, binary) : mem[a] = <<"old", 0>>

\* The mode that the fuses ask of a binary.
ModeWanted ==
    IF binary.nvidia THEN "NVIDIA_RSA"
    ELSE IF fuse = "RSA_ENCRYPTION" THEN IF "L4T" \in build THEN "OEM_RSA" ELSE "OEM_RSA_SBK"
    ELSE SignType(fuse)

Typed ==
    /\ fuse \in SecureModes /\ build \in Builds /\ sbk \in SbkSlots
    /\ secureMode \in {"unread", fuse, SecureModeAfter(fuse)}
    /\ table \in Tables \cup {NoTable} /\ caller \in {"stream", "payload"}
    /\ mem \in [Memory -> Cell]
    /\ pos \in 0 .. StoredSize(binary)
    /\ block \in [at : Nat, size : Nat, first : BOOLEAN] /\ block.size <= pos
    /\ auth \in Handles
    /\ auth.safe = auth.dest + auth.processed /\ auth.processed <= pos
    /\ contexts \subseteq {"aes", "rsa", "ecc"}
    /\ phase \in {"idle", "open", "block", "failed", "hung", "decrypt", "final", "table"}

\* Without a binary there is nothing; a payload is of a type that is supported.
Binding ==
    /\ Bound => /\ binary \in Binaries
                /\ caller = "payload" => binary.type \in PayloadTypes
                /\ auth.nvidia = (binary.type \in NvidiaTypes)
    /\ ~Bound => /\ binary = NoBinary /\ pos = 0 /\ auth = NoHandle /\ headers = << >>
                 /\ splits = << >> /\ ~bounced /\ mem = [a \in Memory |-> <<"old", 0>>]

\* The block to process holds what was read last.
Pending ==
    /\ phase = "block" =>
          /\ block.size \in 1 .. pos /\ block.first = (Seen = 0)
          /\ Seen < HEADER_SIZE + binary.length
          /\ Seen = 0 => block.size > HEADER_SIZE
          /\ caller = "payload" => pos >= Needed
          /\ block.at \in {auth.safe, Elsewhere}
          /\ Seen > 0 /\ block.at # auth.safe => bounced
          /\ \A k \in 1 .. block.size : mem[block.at + k - 1] = Stored(binary)[Seen + k]
    /\ phase \notin {"block", "hung"} => block = NoBlock

\* Before a header is accepted the handle is as initiated.
Unopened ==
    Bound /\ headers = << >> =>
        /\ auth.dest = DestAddr /\ auth.processed = 0 /\ ~auth.short /\ auth.num = 0
        /\ splits = << >> /\ Blank(NewAddr)
        /\ phase \in {"open", "block", "failed", "hung"}
        /\ phase \in {"open", "block"} => Seen = 0

\* A header that was accepted is the binary's, in the mode of the fuses.
Opened ==
    headers # << >> =>
        /\ headers = << Header >> /\ auth.num = 1
        /\ Header \in [mode : {ModeWanted}, validation : {binary.length + SIGNED_SECTION_LEN},
                       processed : Nat, size : {binary.length}, fed : Seq(Cell)]
        /\ Header.processed = Len(Header.fed)
        /\ Header.processed <= binary.length + SIGNED_SECTION_LEN
        /\ binary.nvidia => binary.type \in NvidiaTypes
        /\ binary.length > 0 /\ Seen > HEADER_SIZE
        /\ (auth.dest = DestAddr /\ splits = << >> /\ Blank(NewAddr)) \/ auth.dest = NewAddr
        /\ splits # << >> => splits = << [at |-> DestAddr, n |-> Moved] >> /\ Moved \in Nat
        /\ caller = "payload" => auth.dest = DestAddr /\ ~auth.short

\* Where cell i of the binary lies, and what becomes of it.
At(i) == IF i <= Moved THEN DestAddr + i - 1 ELSE auth.dest + (i - Moved) - 1
Out(mode, c) ==
    IF Deciphers(mode) THEN << IF c[1] = "cipher" THEN "plain" ELSE "noise", c[2] >> ELSE c

\* Of a long binary what is digested is what was stored, and what was digested
\* lies at the destination.
Long ==
    headers # << >> /\ ~auth.short /\ phase # "failed" =>
        /\ Header.processed = SIGNED_SECTION_LEN + Taken
        /\ \A k \in 1 .. SIGNED_SECTION_LEN + Taken :
              Header.fed[k] = Stored(binary)[HEADER_SIZE - SIGNED_SECTION_LEN + k]
        /\ Moved <= Taken
        /\ \/ auth.processed + Moved = Seen - HEADER_SIZE
           \/ auth.processed + Moved = binary.length /\ Seen >= Needed
        /\ phase # "final" =>
              \A i \in 1 .. Taken :
                  mem[At(i)] = Out(Header.mode, Header.fed[SIGNED_SECTION_LEN + i])

\* A short binary is collected at the destination until it is whole; where it
\* was not, what is digested is not what was signed, or lies there all the same.
Collectable == splits = << >> /\ ~(binary.nvidia /\ bounced)
Short ==
    headers # << >> /\ auth.short /\ phase # "failed" =>
        /\ auth.remaining = Needed - Seen
        /\ auth.processed + Moved = Seen
        /\ Header.fed = << >> =>
              /\ Seen < Needed
              /\ Collectable =>
                    \A k \in 1 .. Seen : mem[auth.dest + k - 1] = Stored(binary)[k]
              /\ splits # << >> => \A a \in Room(NewAddr, binary) : mem[a][1] # "signed"
        /\ Header.fed # << >> =>
              /\ Seen >= Needed
              /\ splits # << >> => Header.fed # SignedCells(binary)
              /\ Collectable =>
                    /\ Header.processed = binary.length + SIGNED_SECTION_LEN
                    /\ \A k \in 1 .. binary.length + SIGNED_SECTION_LEN :
                          Header.fed[k] = Stored(binary)[HEADER_SIZE - SIGNED_SECTION_LEN + k]
              /\ phase # "final" /\ splits = << >> =>
                    /\ Header.processed = binary.length + SIGNED_SECTION_LEN
                    /\ \A i \in 1 .. binary.length :
                          mem[auth.dest + i - 1]
                              = Out(Header.mode, Header.fed[SIGNED_SECTION_LEN + i])

\* What a payload has still to be deciphered for was verified.
Deciphering ==
    phase = "decrypt" =>
        /\ result = "ok" /\ headers # << >> /\ Header.fed = SignedCells(binary)
        /\ caller = "payload" /\ "L4T" \in build /\ Seen >= Needed

IInv ==
    /\ Typed
    /\ Binding
    /\ Pending
    /\ Unopened
    /\ Opened
    /\ Long
    /\ Short
    /\ Deciphering
    /\ VerifiedMeansIntact
    /\ IntactIsVerified

---------------------------------------------------------------------------
(* The operators.                                                          *)

\* A header has a signed section and more.
LEMMA Sizes ==
    /\ HEADER_SIZE \in Nat /\ SIGNED_SECTION_LEN \in Nat
    /\ 0 < SIGNED_SECTION_LEN /\ SIGNED_SECTION_LEN < HEADER_SIZE
  BY AuthAssumption DEF AuthAssumption

\* Addresses are numbers.
LEMMA Places ==
    DestAddr \in Nat /\ NewAddr \in Nat /\ Elsewhere \in Nat /\ Memory \subseteq Nat
  BY AuthAssumption DEF AuthAssumption

\* A binary, or none, has a size, and so has what is stored of it.
LEMMA BinaryType ==
    ASSUME NEW b \in Binaries \cup {NoBinary}
    PROVE  /\ b.length \in Nat /\ b.damage \in Nat /\ b.nvidia \in BOOLEAN
           /\ StoredSize(b) = HEADER_SIZE + b.length + 1
           /\ StoredSize(b) \in Nat
<1>1. b.length \in Nat /\ b.damage \in Nat /\ b.nvidia \in BOOLEAN
  <2>1. CASE b \in Binaries
    BY <2>1, AuthAssumption DEF AuthAssumption
  <2>2. CASE b = NoBinary
    BY <2>2 DEF NoBinary
  <2> QED
    BY <2>1, <2>2
<1> QED
  BY <1>1, Sizes DEF StoredSize, Padding

\* The three places have room for a binary, and lie apart.
LEMMA Rooms ==
    ASSUME NEW b \in Binaries
    PROVE  /\ \A k \in 0 .. StoredSize(b) :
                /\ DestAddr + k \in Memory /\ NewAddr + k \in Memory /\ Elsewhere + k \in Memory
                /\ \A j \in 0 .. StoredSize(b) :
                      /\ DestAddr + k # NewAddr + j
                      /\ DestAddr + k # Elsewhere + j
                      /\ NewAddr + k # Elsewhere + j
           /\ DestAddr # NewAddr /\ DestAddr # Elsewhere /\ NewAddr # Elsewhere
<1>1. StoredSize(b) \in Nat
  BY BinaryType
<1>2. ASSUME NEW k \in 0 .. StoredSize(b)
      PROVE  /\ DestAddr + k \in Room(DestAddr, b)
             /\ NewAddr + k \in Room(NewAddr, b)
             /\ Elsewhere + k \in Room(Elsewhere, b)
  BY <1>1, Places DEF Room
<1>3. /\ Room(DestAddr, b) \subseteq Memory /\ Room(NewAddr, b) \subseteq Memory
      /\ Room(Elsewhere, b) \subseteq Memory
      /\ Room(DestAddr, b) \cap Room(NewAddr, b) = {}
      /\ Room(Elsewhere, b) \cap (Room(DestAddr, b) \cup Room(NewAddr, b)) = {}
  BY RoomAssumption
<1>4. \A k, j \in 0 .. StoredSize(b) :
         /\ DestAddr + k # NewAddr + j
         /\ DestAddr + k # Elsewhere + j
         /\ NewAddr + k # Elsewhere + j
  BY <1>2, <1>3
<1>5. 0 \in 0 .. StoredSize(b)
  BY <1>1
<1>6. DestAddr # NewAddr /\ DestAddr # Elsewhere /\ NewAddr # Elsewhere
  BY <1>4, <1>5, Places
<1> QED
  BY <1>2, <1>3, <1>4, <1>6

\* Cells, and sequences of what is given cell by cell.
LEMMA CellType ==
    /\ \A s \in Kinds, i \in Nat : << s, i >> \in Cell
    /\ \A c \in Cell : c[1] \in Kinds /\ c[2] \in Nat
  BY DEF Cell

\* A function on 1 .. n is a sequence.
LEMMA SeqOf ==
    ASSUME NEW S, NEW n \in Nat, NEW s \in [1 .. n -> S]
    PROVE  s \in Seq(S) /\ Len(s) = n
  OBVIOUS

\* The cells of two sequences joined.
LEMMA Joined ==
    \A s, t \in Seq(Cell) :
        /\ s \o t \in Seq(Cell) /\ Len(s \o t) = Len(s) + Len(t)
        /\ Len(s) \in Nat /\ Len(t) \in Nat
        /\ \A i \in 1 .. Len(s) : (s \o t)[i] = s[i]
        /\ \A i \in 1 .. Len(t) : (s \o t)[Len(s) + i] = t[i]
<1> SUFFICES ASSUME NEW s \in Seq(Cell), NEW t \in Seq(Cell)
             PROVE  /\ s \o t \in Seq(Cell) /\ Len(s \o t) = Len(s) + Len(t)
                    /\ Len(s) \in Nat /\ Len(t) \in Nat
                    /\ \A i \in 1 .. Len(s) : (s \o t)[i] = s[i]
                    /\ \A i \in 1 .. Len(t) : (s \o t)[Len(s) + i] = t[i]
  OBVIOUS
<1> QED
  OBVIOUS

\* The body of a binary, cell by cell.
LEMMA BodyType ==
    ASSUME NEW b \in Binaries \cup {NoBinary}
    PROVE  /\ Body(b) \in Seq(Cell) /\ Len(Body(b)) = b.length
           /\ \A i \in 1 .. b.length :
                 Body(b)[i] = <<IF Encrypts(b) THEN "cipher" ELSE "plain", i>>
<1>1. b.length \in Nat
  BY BinaryType
<1>2. Body(b) \in [1 .. b.length -> Cell]
  BY <1>1 DEF Cell, Kinds, Body
<1>3. \A i \in 1 .. b.length : Body(b)[i] = <<IF Encrypts(b) THEN "cipher" ELSE "plain", i>>
  BY DEF Body
<1> QED
  BY <1>1, <1>2, <1>3, SeqOf

\* The two parts of a header, cell by cell.
LEMMA HeaderType ==
    /\ UnsignedPart \in Seq(Cell) /\ Len(UnsignedPart) = HEADER_SIZE - SIGNED_SECTION_LEN
    /\ SignedPart \in Seq(Cell) /\ Len(SignedPart) = SIGNED_SECTION_LEN
    /\ \A k \in 1 .. SIGNED_SECTION_LEN : SignedPart[k] = <<"signed", k>>
<1>1. HEADER_SIZE - SIGNED_SECTION_LEN \in Nat /\ SIGNED_SECTION_LEN \in Nat
  BY Sizes
<1>2. UnsignedPart \in [1 .. (HEADER_SIZE - SIGNED_SECTION_LEN) -> Cell]
  BY <1>1 DEF Cell, Kinds, UnsignedPart
<1>3. SignedPart \in [1 .. SIGNED_SECTION_LEN -> Cell]
  BY <1>1 DEF Cell, Kinds, SignedPart
<1>4. \A k \in 1 .. SIGNED_SECTION_LEN : SignedPart[k] = <<"signed", k>>
  BY DEF SignedPart
<1> QED
  BY <1>1, <1>2, <1>3, <1>4, SeqOf

\* What is stored, cell by cell.
LEMMA StoredCells ==
    ASSUME NEW b \in Binaries \cup {NoBinary}
    PROVE  /\ Stored(b) \in Seq(Cell) /\ Len(Stored(b)) = StoredSize(b)
           /\ \A k \in 1 .. SIGNED_SECTION_LEN :
                 Stored(b)[HEADER_SIZE - SIGNED_SECTION_LEN + k] = <<"signed", k>>
           /\ \A i \in 1 .. b.length :
                 Stored(b)[HEADER_SIZE + i] = IF i = b.damage THEN <<"lost", i>> ELSE Body(b)[i]
           /\ \A k \in HEADER_SIZE + 1 .. StoredSize(b) : Stored(b)[k][1] # "signed"
<1> DEFINE lost == [i \in 1 .. b.length |-> IF i = b.damage THEN <<"lost", i>> ELSE Body(b)[i]]
           signed == UnsignedPart \o SignedPart
           whole == signed \o lost
<1>1. /\ b.length \in Nat /\ StoredSize(b) = HEADER_SIZE + b.length + 1
  BY BinaryType
<1>2. lost \in [1 .. b.length -> Cell]
  <2>1. ASSUME NEW i \in 1 .. b.length
        PROVE  <<"lost", i>> \in Cell /\ Body(b)[i] \in Cell
    BY <1>1, BodyType DEF Cell, Kinds
  <2> QED
    BY <2>1
<1>3. /\ lost \in Seq(Cell) /\ Len(lost) = b.length
      /\ \A i \in 1 .. b.length : lost[i] = IF i = b.damage THEN <<"lost", i>> ELSE Body(b)[i]
  BY <1>1, <1>2, SeqOf
<1>4. Stored(b) = whole \o Padding
  BY DEF Stored
<1> HIDE DEF lost
<1>5a. signed \in Seq(Cell)
  BY HeaderType, Sizes
<1>5b. Len(signed) = HEADER_SIZE
  BY HeaderType, Sizes
<1>5c. \A k \in 1 .. SIGNED_SECTION_LEN :
          signed[HEADER_SIZE - SIGNED_SECTION_LEN + k] = <<"signed", k>>
  BY HeaderType, Sizes
<1> HIDE DEF signed
<1>6a. whole \in Seq(Cell)
  BY <1>3, <1>5a
<1>6b. Len(whole) = HEADER_SIZE + b.length
  BY <1>3, <1>5a, <1>5b
<1>6c. \A k \in 1 .. HEADER_SIZE : whole[k] = signed[k]
  BY <1>3, <1>5a, <1>5b
<1>6d. \A i \in 1 .. b.length : whole[HEADER_SIZE + i] = lost[i]
  BY <1>3, <1>5a, <1>5b, Sizes
<1> HIDE DEF whole
<1>7. /\ Padding \in Seq(Cell) /\ Len(Padding) = 1 /\ Padding[1] = <<"padding", 1>>
  <2>1. <<"padding", 1>> \in Cell
    BY DEF Cell, Kinds
  <2> QED
    BY <2>1 DEF Padding
<1>8a. Stored(b) \in Seq(Cell)
  BY <1>4, <1>6a, <1>7
<1>8b. Len(Stored(b)) = HEADER_SIZE + b.length + 1
  <2>1. Len(Stored(b)) = Len(whole) + Len(Padding)
    <3>1. Len(whole \o Padding) = Len(whole) + Len(Padding)
      BY <1>6a, <1>7, Joined, Zenon
    <3> QED
      BY <3>1, <1>4
  <2> QED
    BY <2>1, <1>6b, <1>7
<1>8c. \A k \in 1 .. HEADER_SIZE + b.length : Stored(b)[k] = whole[k]
  BY <1>4, <1>6a, <1>6b, <1>7
<1>8d. Stored(b)[HEADER_SIZE + b.length + 1] = <<"padding", 1>>
  <2>1. 1 \in 1 .. Len(Padding)
    BY <1>7
  <2>2. Stored(b)[Len(whole) + 1] = Padding[1]
    <3>1. (whole \o Padding)[Len(whole) + 1] = Padding[1]
      BY <2>1, <1>6a, <1>7, Joined, Zenon
    <3> QED
      BY <3>1, <1>4
  <2> QED
    BY <2>2, <1>6b, <1>7
<1>9. \A k \in 1 .. SIGNED_SECTION_LEN :
         Stored(b)[HEADER_SIZE - SIGNED_SECTION_LEN + k] = <<"signed", k>>
  BY <1>1, <1>5c, <1>6c, <1>8c, Sizes
<1>10. \A i \in 1 .. b.length :
          Stored(b)[HEADER_SIZE + i] = IF i = b.damage THEN <<"lost", i>> ELSE Body(b)[i]
  <2> SUFFICES ASSUME NEW i \in 1 .. b.length
               PROVE  Stored(b)[HEADER_SIZE + i]
                          = IF i = b.damage THEN <<"lost", i>> ELSE Body(b)[i]
    OBVIOUS
  <2>1. HEADER_SIZE + i \in 1 .. HEADER_SIZE + b.length
    BY <1>1, Sizes
  <2>2. Stored(b)[HEADER_SIZE + i] = lost[i]
    BY <2>1, <1>6d, <1>8c
  <2> QED
    BY <2>2, <1>3
<1>11. ASSUME NEW k \in HEADER_SIZE + 1 .. StoredSize(b)
       PROVE  Stored(b)[k][1] # "signed"
  <2>1. CASE k = HEADER_SIZE + b.length + 1
    BY <2>1, <1>8d
  <2>2. CASE k # HEADER_SIZE + b.length + 1
    <3>1. k - HEADER_SIZE \in 1 .. b.length /\ HEADER_SIZE + (k - HEADER_SIZE) = k
      BY <2>2, <1>1, Sizes
    <3>2. PICK i \in 1 .. b.length : k = HEADER_SIZE + i
      BY <3>1
    <3>3. Body(b)[i][1] # "signed"
      BY <3>2, BodyType
    <3>4. Stored(b)[k] = IF i = b.damage THEN <<"lost", i>> ELSE Body(b)[i]
      BY <1>10, <3>2
    <3> QED
      BY <3>3, <3>4
  <2> QED
    BY <2>1, <2>2
<1> QED
  BY <1>1, <1>8a, <1>8b, <1>9, <1>10, <1>11

\* What is signed, cell by cell.
LEMMA SignedCellsAt ==
    ASSUME NEW b \in Binaries
    PROVE  /\ SignedCells(b) \in Seq(Cell) /\ Len(SignedCells(b)) = SIGNED_SECTION_LEN + b.length
           /\ \A k \in 1 .. SIGNED_SECTION_LEN : SignedCells(b)[k] = <<"signed", k>>
           /\ \A i \in 1 .. b.length : SignedCells(b)[SIGNED_SECTION_LEN + i] = Body(b)[i]
<1>1. /\ Body(b) \in Seq(Cell) /\ Len(Body(b)) = b.length /\ b.length \in Nat
  BY BodyType, BinaryType
<1>2. SignedCells(b) \in Seq(Cell)
  BY <1>1, HeaderType, Sizes DEF SignedCells
<1>3. Len(SignedCells(b)) = SIGNED_SECTION_LEN + b.length
  <2>1. Len(SignedCells(b)) = Len(SignedPart) + Len(Body(b))
    BY <1>1, HeaderType, Joined, Zenon DEF SignedCells
  <2> QED
    BY <2>1, <1>1, HeaderType
<1>4. \A k \in 1 .. SIGNED_SECTION_LEN : SignedCells(b)[k] = <<"signed", k>>
  BY <1>1, HeaderType, Sizes DEF SignedCells
<1>5. \A i \in 1 .. b.length : SignedCells(b)[SIGNED_SECTION_LEN + i] = Body(b)[i]
  BY <1>1, HeaderType, Sizes DEF SignedCells
<1> QED
  BY <1>2, <1>3, <1>4, <1>5

\* An intact binary is stored as it was signed.
LEMMA IntactFits ==
    ASSUME NEW b \in Binaries, NEW fed \in Seq(Cell), b.damage = 0,
           Len(fed) = b.length + SIGNED_SECTION_LEN,
           \A k \in 1 .. b.length + SIGNED_SECTION_LEN :
              fed[k] = Stored(b)[HEADER_SIZE - SIGNED_SECTION_LEN + k]
    PROVE  fed = SignedCells(b)
<1>1. b.length \in Nat
  BY BinaryType
<1>2. ASSUME NEW k \in 1 .. b.length + SIGNED_SECTION_LEN
      PROVE  fed[k] = SignedCells(b)[k]
  <2>1. CASE k <= SIGNED_SECTION_LEN
    <3>1. k \in 1 .. SIGNED_SECTION_LEN
      BY <2>1, <1>1, Sizes
    <3>2. fed[k] = Stored(b)[HEADER_SIZE - SIGNED_SECTION_LEN + k]
      OBVIOUS
    <3>3. Stored(b)[HEADER_SIZE - SIGNED_SECTION_LEN + k] = <<"signed", k>>
      BY <3>1, StoredCells
    <3>4. SignedCells(b)[k] = <<"signed", k>>
      BY <3>1, SignedCellsAt
    <3> QED
      BY <3>2, <3>3, <3>4
  <2>2. CASE k > SIGNED_SECTION_LEN
    <3>1. PICK i \in 1 .. b.length : k = SIGNED_SECTION_LEN + i
      <4>1. k - SIGNED_SECTION_LEN \in 1 .. b.length
            /\ k = SIGNED_SECTION_LEN + (k - SIGNED_SECTION_LEN)
        BY <2>2, <1>1, Sizes
      <4> QED
        BY <4>1
    <3>2. HEADER_SIZE - SIGNED_SECTION_LEN + k = HEADER_SIZE + i
      BY <3>1, Sizes
    <3>3. Stored(b)[HEADER_SIZE + i] = Body(b)[i]
      <4>1. i # b.damage
        BY <3>1, <1>1
      <4> QED
        BY <3>1, <4>1, StoredCells
    <3>4. SignedCells(b)[k] = Body(b)[i]
      BY <3>1, SignedCellsAt
    <3>5. fed[k] = Stored(b)[HEADER_SIZE - SIGNED_SECTION_LEN + k]
      OBVIOUS
    <3> QED
      BY <3>2, <3>3, <3>4, <3>5
  <2> QED
    BY <2>1, <2>2, <1>1, Sizes
<1>3. Len(fed) = Len(SignedCells(b)) /\ SignedCells(b) \in Seq(Cell)
  BY SignedCellsAt, <1>1, Sizes
<1> QED
  BY <1>1, <1>2, <1>3, Sizes


\* A binary that fits was intact; and the first cell of the signed section tells
\* what was signed from anything else.
LEMMA FitsAt ==
    ASSUME NEW b \in Binaries, NEW fed \in Seq(Cell), fed = SignedCells(b)
    PROVE  /\ Len(fed) = SIGNED_SECTION_LEN + b.length
           /\ \A i \in 1 .. b.length : fed[SIGNED_SECTION_LEN + i] = Body(b)[i]
           /\ fed # << >> /\ fed[1][1] = "signed"
<1>1. 1 \in 1 .. SIGNED_SECTION_LEN
  BY Sizes
<1>2. fed[1] = <<"signed", 1>>
  BY <1>1, SignedCellsAt
<1>3. Len(fed) = SIGNED_SECTION_LEN + b.length
      /\ \A i \in 1 .. b.length : fed[SIGNED_SECTION_LEN + i] = Body(b)[i]
  BY SignedCellsAt
<1>4. fed # << >>
  BY <1>3, BinaryType, Sizes
<1> QED
  BY <1>2, <1>3, <1>4

\* The lesser of two numbers is one of them and above neither.
LEMMA LessType ==
    ASSUME NEW a \in Int, NEW b \in Int
    PROVE  Less(a, b) \in Int /\ Less(a, b) <= a /\ Less(a, b) <= b
           /\ (Less(a, b) = a \/ Less(a, b) = b)
  BY DEF Less

\* Reading and writing.
LEMMA CellsRead ==
    ASSUME NEW m \in [Memory -> Cell], NEW at \in Nat, NEW n \in Nat,
           \A k \in 1 .. n : at + k - 1 \in Memory
    PROVE  /\ Cells(m, at, n) \in Seq(Cell) /\ Len(Cells(m, at, n)) = n
           /\ \A k \in 1 .. n : Cells(m, at, n)[k] = m[at + k - 1]
<1>1. Cells(m, at, n) \in [1 .. n -> Cell]
  BY DEF Cells
<1>2. \A k \in 1 .. n : Cells(m, at, n)[k] = m[at + k - 1]
  BY DEF Cells
<1> QED
  BY <1>1, <1>2, SeqOf

IsRead(m, at, n, cells) ==
    /\ cells \in Seq(Cell) /\ Len(cells) = n
    /\ \A k \in 1 .. n : cells[k] = m[at + k - 1]

\* The same as one predicate, for use where addresses are long terms.
LEMMA CellsAreRead ==
    ASSUME NEW m \in [Memory -> Cell], NEW at \in Nat, NEW n \in Nat,
           \A k \in 1 .. n : at + k - 1 \in Memory
    PROVE  IsRead(m, at, n, Cells(m, at, n))
  BY CellsRead DEF IsRead

\* Cells written lie where they were put, and all others stay.
LEMMA PutWrites ==
    ASSUME NEW m \in [Memory -> Cell], NEW at \in Nat, NEW cells \in Seq(Cell)
    PROVE  /\ Put(m, at, cells) \in [Memory -> Cell]
           /\ \A k \in 1 .. Len(cells) :
                 at + k - 1 \in Memory => Put(m, at, cells)[at + k - 1] = cells[k]
           /\ \A a \in Memory :
                 (\A k \in 1 .. Len(cells) : a # at + k - 1) => Put(m, at, cells)[a] = m[a]
<1>1. Len(cells) \in Nat /\ Memory \subseteq Nat
  BY Places
<1>2. ASSUME NEW a \in Memory, a \in at .. (at + Len(cells) - 1)
      PROVE  a - at + 1 \in 1 .. Len(cells) /\ a = at + (a - at + 1) - 1
  BY <1>1, <1>2
<1>3. Put(m, at, cells) \in [Memory -> Cell]
  <2>1. ASSUME NEW a \in Memory
        PROVE  (IF a \in at .. (at + Len(cells) - 1) THEN cells[a - at + 1] ELSE m[a]) \in Cell
    BY <1>1, <1>2
  <2> QED
    BY <2>1 DEF Put
<1>4. ASSUME NEW k \in 1 .. Len(cells), at + k - 1 \in Memory
      PROVE  Put(m, at, cells)[at + k - 1] = cells[k]
  <2>1. at + k - 1 \in at .. (at + Len(cells) - 1) /\ (at + k - 1) - at + 1 = k
    BY <1>1
  <2> QED
    BY <2>1, <1>4 DEF Put
<1>5. ASSUME NEW a \in Memory, \A k \in 1 .. Len(cells) : a # at + k - 1
      PROVE  Put(m, at, cells)[a] = m[a]
  <2>1. a \notin at .. (at + Len(cells) - 1)
    BY <1>2, <1>5
  <2> QED
    BY <2>1 DEF Put
<1> QED
  BY <1>3, <1>4, <1>5

IsPut(m, at, cells, put) ==
    /\ put \in [Memory -> Cell]
    /\ \A k \in 1 .. Len(cells) : at + k - 1 \in Memory => put[at + k - 1] = cells[k]
    /\ \A a \in Memory : (\A k \in 1 .. Len(cells) : a # at + k - 1) => put[a] = m[a]

\* The same as one predicate.
LEMMA CellsArePut ==
    ASSUME NEW m \in [Memory -> Cell], NEW at \in Nat, NEW cells \in Seq(Cell)
    PROVE  IsPut(m, at, cells, Put(m, at, cells))
  BY PutWrites, Zenon DEF IsPut

IsCopy(m, from, to, n, copied) ==
    /\ copied \in [Memory -> Cell]
    /\ \A k \in 1 .. n : to + k - 1 \in Memory => copied[to + k - 1] = m[from + k - 1]
    /\ \A a \in Memory : (\A k \in 1 .. n : a # to + k - 1) => copied[a] = m[a]

\* A copy (memcpy, memmove) moves each cell, and leaves the others alone.
LEMMA CopyWrites ==
    ASSUME NEW m \in [Memory -> Cell], NEW from \in Nat, NEW to \in Nat, NEW n \in Nat,
           \A k \in 1 .. n : from + k - 1 \in Memory
    PROVE  IsCopy(m, from, to, n, Copy(m, from, to, n))
<1>1. /\ Cells(m, from, n) \in Seq(Cell) /\ Len(Cells(m, from, n)) = n
      /\ \A k \in 1 .. n : Cells(m, from, n)[k] = m[from + k - 1]
  BY CellsRead
<1>2. Copy(m, from, to, n) = Put(m, to, Cells(m, from, n))
  BY DEF Copy
<1> DEFINE cells == Cells(m, from, n)
<1>3. cells \in Seq(Cell)
  BY <1>1
<1> HIDE DEF cells
<1>4. /\ Put(m, to, cells) \in [Memory -> Cell]
      /\ \A k \in 1 .. Len(cells) :
            to + k - 1 \in Memory => Put(m, to, cells)[to + k - 1] = cells[k]
      /\ \A a \in Memory :
            (\A k \in 1 .. Len(cells) : a # to + k - 1) => Put(m, to, cells)[a] = m[a]
  BY <1>3, PutWrites
<1>5. /\ Copy(m, from, to, n) = Put(m, to, cells) /\ Len(cells) = n
      /\ \A k \in 1 .. n : cells[k] = m[from + k - 1]
  BY <1>1, <1>2 DEF cells
<1> QED
  BY <1>4, <1>5 DEF IsCopy

\* Deciphering goes cell by cell.
LEMMA Decrypted ==
    ASSUME NEW cells \in Seq(Cell)
    PROVE  /\ Decrypt(cells) \in Seq(Cell) /\ Len(Decrypt(cells)) = Len(cells)
           /\ \A k \in 1 .. Len(cells) :
                 Decrypt(cells)[k] = << IF cells[k][1] = "cipher" THEN "plain" ELSE "noise",
                                        cells[k][2] >>
<1>1. Len(cells) \in Nat /\ DOMAIN cells = 1 .. Len(cells)
  OBVIOUS
<1>2. Decrypt(cells) \in [1 .. Len(cells) -> Cell]
  <2>1. ASSUME NEW i \in 1 .. Len(cells)
        PROVE  /\ << "plain", cells[i][2] >> \in Cell
               /\ << "noise", cells[i][2] >> \in Cell
    <3>1. cells[i][2] \in Nat
      BY CellType
    <3> QED
      BY <3>1 DEF Cell, Kinds
  <2> QED
    BY <1>1, <2>1 DEF Decrypt
<1>3. \A k \in 1 .. Len(cells) :
         Decrypt(cells)[k] = << IF cells[k][1] = "cipher" THEN "plain" ELSE "noise",
                                cells[k][2] >>
  BY <1>1 DEF Decrypt
<1> QED
  BY <1>1, <1>2, <1>3, SeqOf


---------------------------------------------------------------------------
(* The modes.                                                              *)

\* A header is taken to be in the mode that the fuses ask for.
LEMMA HeaderModeWanted ==
    ASSUME Typed
    PROVE  /\ HeaderMode = ModeWanted
           /\ NextSecureMode \in {fuse, SecureModeAfter(fuse)}
           /\ Deciphers(ModeWanted) <=>
                 binary.nvidia \/ (fuse = "RSA_ENCRYPTION" /\ "L4T" \notin build)
           /\ ModeWanted = "NVIDIA_RSA" <=> binary.nvidia
<1>1. SecureModeNow \in {fuse, SecureModeAfter(fuse)}
  BY DEF Typed, SecureModeNow, SecureModes, SecureModeAfter
<1>2. SecureModeAfter(SecureModeNow) = SecureModeAfter(fuse)
  BY <1>1 DEF SecureModeAfter
<1>3. NextSecureMode \in {fuse, SecureModeAfter(fuse)}
  BY <1>1, <1>2 DEF NextSecureMode
<1>4. fuse \in SecureModes
  BY DEF Typed
<1>5. ~binary.nvidia => HeaderMode = SignType(SecureModeAfter(fuse))
  BY <1>2 DEF HeaderMode, NextSecureMode
<1>6. HeaderMode = ModeWanted
  BY <1>4, <1>5 DEF HeaderMode, ModeWanted, SignType, SecureModeAfter, SecureModes
<1>7. Deciphers(ModeWanted) <=>
         binary.nvidia \/ (fuse = "RSA_ENCRYPTION" /\ "L4T" \notin build)
  BY <1>4 DEF ModeWanted, Deciphers, SignType, SecureModes
<1>8. ModeWanted = "NVIDIA_RSA" <=> binary.nvidia
  BY <1>4 DEF ModeWanted, SignType, SecureModes
<1> QED
  BY <1>3, <1>6, <1>7, <1>8

\* The modes there are, and the contexts of each.
LEMMA ModeKinds ==
    ASSUME Typed
    PROVE  ModeWanted \in {"NVIDIA_RSA", "SBK", "OEM_RSA", "OEM_RSA_SBK", "OEM_ECC"}
  BY DEF Typed, ModeWanted, SignType, SecureModes

\* What a mode initialises is what tegrabl_auth_end closes for it.
LEMMA ContextKinds ==
    ASSUME NEW mode \in {"NVIDIA_RSA", "SBK", "OEM_RSA", "OEM_RSA_SBK", "OEM_ECC"}
    PROVE  /\ ContextsOf(mode) \in {<<"aes", "rsa">>, <<"aes">>, <<"rsa">>, <<"ecc">>, << >>}
           /\ ContextsOf(mode) \in Seq({"aes", "rsa", "ecc"})
           /\ Range(ContextsOf(mode)) \subseteq
                 (IF HasRsa(mode) THEN {"rsa"} ELSE {}) \cup (IF HasAes(mode) THEN {"aes"} ELSE {})
                     \cup (IF mode = "OEM_ECC" THEN {"ecc"} ELSE {})
<1>1. /\ Range(<<"aes", "rsa">>) = {"aes", "rsa"} /\ Range(<<"aes">>) = {"aes"}
      /\ Range(<<"rsa">>) = {"rsa"} /\ Range(<<"ecc">>) = {"ecc"}
      /\ Range(<< >>) = {}
  BY DEF Range
<1>2. /\ mode \in {"NVIDIA_RSA", "OEM_RSA_SBK"} => ContextsOf(mode) = <<"aes", "rsa">>
      /\ mode = "SBK" => ContextsOf(mode) = <<"aes">>
      /\ mode = "OEM_RSA" => ContextsOf(mode) = <<"rsa">>
      /\ mode = "OEM_ECC" => ContextsOf(mode) = <<"ecc">> \/ ContextsOf(mode) = << >>
  BY DEF ContextsOf, Deciphers
<1>3. /\ mode \in {"NVIDIA_RSA", "OEM_RSA_SBK"} => HasRsa(mode) /\ HasAes(mode)
      /\ mode = "SBK" => HasAes(mode)
      /\ mode = "OEM_RSA" => HasRsa(mode)
  BY DEF HasRsa, HasAes
<1> DEFINE closed == (IF HasRsa(mode) THEN {"rsa"} ELSE {})
                         \cup (IF HasAes(mode) THEN {"aes"} ELSE {})
                         \cup (IF mode = "OEM_ECC" THEN {"ecc"} ELSE {})
<1>4. mode \in {"NVIDIA_RSA", "OEM_RSA_SBK"} => {"aes", "rsa"} \subseteq closed
  BY <1>3
<1>5. mode = "SBK" => {"aes"} \subseteq closed
  BY <1>3
<1>6. mode = "OEM_RSA" => {"rsa"} \subseteq closed
  BY <1>3
<1>7. mode = "OEM_ECC" => {"ecc"} \subseteq closed
  OBVIOUS
<1> HIDE DEF closed
<1>8. Range(ContextsOf(mode)) \subseteq closed
  BY <1>1, <1>2, <1>4, <1>5, <1>6, <1>7
<1>9. ContextsOf(mode) \in {<<"aes", "rsa">>, <<"aes">>, <<"rsa">>, <<"ecc">>, << >>}
  BY <1>2
<1>10. ContextsOf(mode) \in Seq({"aes", "rsa", "ecc"})
  <2>1. CASE ContextsOf(mode) = <<"aes", "rsa">>
    BY <2>1
  <2>2. CASE ContextsOf(mode) = <<"aes">>
    BY <2>2
  <2>3. CASE ContextsOf(mode) = <<"rsa">>
    BY <2>3
  <2>4. CASE ContextsOf(mode) = <<"ecc">>
    BY <2>4
  <2>5. CASE ContextsOf(mode) = << >>
    BY <2>5
  <2> QED
    BY <1>9, <2>1, <2>2, <2>3, <2>4, <2>5
<1> QED
  BY <1>8, <1>9, <1>10 DEF closed

\* The elements of a sequence, and of its beginnings.
LEMMA RangeIn ==
    ASSUME NEW S, NEW s \in Seq(S)
    PROVE  Range(s) \subseteq S /\ \A k \in DOMAIN s : {s[i] : i \in 1 .. (k - 1)} \subseteq S
<1>1. DOMAIN s = 1 .. Len(s) /\ Len(s) \in Nat /\ \A i \in 1 .. Len(s) : s[i] \in S
  OBVIOUS
<1> QED
  BY <1>1 DEF Range

\* The tables use contexts of the three kinds only.
LEMMA TableContextKinds ==
    ASSUME NEW type
    PROVE  Range(TableContexts(type)) \subseteq {"aes", "rsa", "ecc"}
<1>1. TableContexts(type) \in {<<"aes">>, <<"rsa", "aes">>, <<"rsa">>, <<"ecc">>, << >>}
  BY DEF TableContexts
<1> QED
  BY <1>1 DEF Range


---------------------------------------------------------------------------
(* The steps that leave the memory alone.                                  *)

\* At the start there is neither a binary nor a header.
LEMMA InitInvariance == Init => IInv
<1> SUFFICES ASSUME Init
             PROVE  IInv
  OBVIOUS
<1>1. StoredSize(NoBinary) \in Nat
  BY BinaryType
<1>2. <<"old", 0>> \in Cell
  BY DEF Cell, Kinds
<1>3. Typed
  BY <1>1, <1>2 DEF Init, Typed, NoBlock, NoHandle, Handles
<1> QED
  BY <1>3 DEF Init, IInv, Binding, Pending, Unopened, Opened, Long, Short, Deciphering,
              VerifiedMeansIntact, IntactIsVerified, Bound

\* tegrabl_auth_initiate: the handle is fresh.
LEMMA InitiateInvariance ==
    ASSUME IInv, NEW b \in Binaries, NEW who \in {"stream", "payload"}, Initiate(b, who)
    PROVE  IInv'
<1>1. /\ ~Bound /\ phase' = "open" /\ binary' = b /\ headers' = << >> /\ splits' = << >>
      /\ pos' = 0 /\ block' = NoBlock
      /\ mem' = [a \in Memory |-> <<"old", 0>>]
      /\ auth' = [NoHandle EXCEPT !.dest = DestAddr, !.safe = DestAddr, !.oem = TRUE,
                                  !.nvidia = b.type \in NvidiaTypes]
  BY DEF IInv, Binding, Bound, Pending, Initiate
<1>2. StoredSize(b) \in Nat
  BY BinaryType
<1>3. auth' \in Handles
      /\ auth'.dest = DestAddr /\ auth'.safe = DestAddr /\ auth'.processed = 0
      /\ ~auth'.short /\ auth'.num = 0 /\ auth'.nvidia = (b.type \in NvidiaTypes)
  <2>1. auth' = [dest |-> DestAddr, safe |-> DestAddr, processed |-> 0, remaining |-> 0,
                 size |-> 0, num |-> 0, oem |-> TRUE, short |-> FALSE,
                 nvidia |-> b.type \in NvidiaTypes]
    BY <1>1 DEF NoHandle
  <2>2. (b.type \in NvidiaTypes) \in BOOLEAN
    OBVIOUS
  <2> QED
    BY <2>1, <2>2, Places DEF Handles
<1>4. Typed'
  BY <1>1, <1>2, <1>3, Places DEF IInv, Typed, Initiate, NoBlock, SecureModeAfter
<1>5. Binding'
  BY <1>1, <1>3 DEF Binding, Bound, Initiate
<1>6. Unopened'
  <2>1. Blank(NewAddr)'
    <3>1. Room(NewAddr, b) \subseteq Memory
      BY RoomAssumption
    <3> QED
      BY <1>1, <3>1 DEF Blank
  <2> QED
    BY <1>1, <1>3, <2>1 DEF Unopened, Seen, NoBlock
<1> QED
  BY <1>1, <1>4, <1>5, <1>6 DEF IInv, Pending, Opened, Long, Short, Deciphering,
                                VerifiedMeansIntact, IntactIsVerified

\* Between two binaries.
LEMMA IdleInvariance ==
    ASSUME IInv, ~Bound, ~Bound',
           UNCHANGED << fuse, build, sbk, secureMode, binary, caller, mem, pos, block, auth,
                        headers, splits, bounced >>,
           table' \in Tables \cup {NoTable}, contexts' \subseteq {"aes", "rsa", "ecc"},
           phase' \in {"idle", "table"}
    PROVE  IInv'
<1>1. Typed'
  BY DEF IInv, Typed, SecureModeAfter
<1>2. Binding' /\ Pending'
  BY DEF IInv, Binding, Pending, Bound
<1>3. headers' = << >>
  BY DEF IInv, Binding
<1> QED
  BY <1>1, <1>2, <1>3 DEF IInv, Unopened, Opened, Long, Short, Deciphering,
                          VerifiedMeansIntact, IntactIsVerified

\* Tables without a header touch contexts only.
LEMMA TableInvariance ==
    ASSUME IInv,
           \/ \E b \in Binaries : UnsupportedPayload(b)
           \/ \E t \in Tables : VerifyTable(t)
           \/ CloseTable
    PROVE  IInv'
<1>1. contexts \subseteq {"aes", "rsa", "ecc"} /\ table \in Tables \cup {NoTable}
  BY DEF IInv, Typed
<1>2. CASE \E b \in Binaries : UnsupportedPayload(b)
  BY <1>1, <1>2, IdleInvariance DEF UnsupportedPayload, Bound, handle
<1>3. ASSUME NEW t \in Tables, VerifyTable(t)
      PROVE  IInv'
  <2>1. contexts' \subseteq {"aes", "rsa", "ecc"}
    BY <1>1, <1>3, TableContextKinds DEF VerifyTable
  <2> QED
    BY <1>1, <1>3, <2>1, IdleInvariance DEF VerifyTable, Bound
<1>4. CASE CloseTable
  BY <1>1, <1>4, IdleInvariance DEF CloseTable, Bound
<1> QED
  BY <1>2, <1>3, <1>4

\* A header that is not accepted leaves the handle without one.
LEMMA HeaderFirst ==
    ASSUME IInv, phase = "block", block.first
    PROVE  /\ headers = << >> /\ Seen = 0 /\ Bound /\ binary \in Binaries
           /\ auth.dest = DestAddr /\ auth.processed = 0 /\ auth.safe = DestAddr
           /\ splits = << >> /\ Blank(NewAddr) /\ ~auth.short
           /\ block.size = pos /\ pos > HEADER_SIZE /\ block.at \in {DestAddr, Elsewhere}
<1>1. Seen = 0 /\ Bound /\ binary \in Binaries /\ pos \in Int /\ block.size \in Nat
  <2>1. Seen = 0 /\ Bound /\ binary \in Binaries
    BY DEF IInv, Pending, Bound, Binding
  <2>2. pos \in Int /\ block.size \in Nat
    BY DEF IInv, Typed
  <2> QED
    BY <2>1, <2>2
<1>2. headers = << >>
  BY <1>1, Sizes DEF IInv, Opened
<1>3. block.size = pos /\ pos > HEADER_SIZE
  BY <1>1 DEF IInv, Pending, Seen
<1>4. auth.dest = DestAddr /\ auth.processed = 0 /\ splits = << >> /\ Blank(NewAddr) /\ ~auth.short
  BY <1>1, <1>2 DEF IInv, Unopened
<1>5. auth.safe = DestAddr
  BY <1>4, Places DEF IInv, Typed
<1> QED
  BY <1>1, <1>2, <1>3, <1>4, <1>5 DEF IInv, Pending

\* A first block without an accepted header leaves the handle as it was.
LEMMA NoHeaderInvariance ==
    ASSUME IInv, HeaderRefused \/ HeaderBreaks \/ Rollback
    PROVE  IInv'
<1>1. phase = "block" /\ block.first
  BY DEF HeaderRefused, HeaderBreaks, Rollback
<1>2. /\ headers = << >> /\ Bound
      /\ auth.dest = DestAddr /\ auth.processed = 0 /\ ~auth.short
      /\ splits = << >> /\ Blank(NewAddr)
  BY <1>1, HeaderFirst
<1>3. CASE Rollback
  <2>1. Typed' /\ Binding' /\ Pending'
    BY <1>2, <1>3 DEF Rollback, IInv, Typed, Binding, Pending, Bound, Unconcerned, handle,
                      SecureModeAfter
  <2>2. Unopened'
    BY <1>2, <1>3 DEF Rollback, IInv, Unopened, Unconcerned, handle, Blank
  <2> QED
    BY <1>2, <1>3, <2>1, <2>2 DEF Rollback, handle, IInv, Opened, Long, Short, Deciphering,
                                  VerifiedMeansIntact, IntactIsVerified
<1>4. CASE HeaderRefused \/ HeaderBreaks
  <2>1. PICK opened, error : opened \subseteq {"aes", "rsa", "ecc"} /\ HeaderFails(opened, error)
    <3>1. ContextsOf(HeaderMode) \in Seq({"aes", "rsa", "ecc"})
      BY HeaderModeWanted, ModeKinds, ContextKinds DEF IInv
    <3>2. CASE HeaderRefused
      BY <3>1, <3>2, RangeIn DEF HeaderRefused
    <3>3. CASE HeaderBreaks
      <4>1. PICK k \in DOMAIN ContextsOf(HeaderMode) :
                HeaderFails({ContextsOf(HeaderMode)[i] : i \in 1 .. (k - 1)}, "FAILED")
        BY <3>3 DEF HeaderBreaks
      <4>2. {ContextsOf(HeaderMode)[i] : i \in 1 .. (k - 1)} \subseteq {"aes", "rsa", "ecc"}
        BY <3>1, RangeIn
      <4> QED
        BY <4>1, <4>2
    <3> QED
      BY <1>4, <3>2, <3>3
  <2>2. Typed'
    <3>1. NextSecureMode \in {fuse, SecureModeAfter(fuse)}
      BY HeaderModeWanted DEF IInv
    <3>2. block' \in [at : Nat, size : Nat, first : BOOLEAN]
      BY <2>1 DEF HeaderFails, NoBlock
    <3>3. block'.size <= pos'
      <4>1. pos \in Int /\ block.size \in Nat /\ block.size <= pos
        BY DEF IInv, Typed
      <4>2. 0 <= pos
        BY <4>1
      <4> QED
        BY <2>1, <4>2 DEF HeaderFails, NoBlock
    <3> QED
      BY <2>1, <3>1, <3>2, <3>3 DEF HeaderFails, IInv, Typed, Unconcerned, SecureModeAfter
  <2>3. Binding' /\ Pending'
    BY <1>2, <2>1 DEF HeaderFails, IInv, Binding, Pending, Bound, Unconcerned
  <2>4. Unopened'
    BY <1>2, <2>1 DEF HeaderFails, IInv, Unopened, Unconcerned, Blank
  <2> QED
    BY <1>2, <2>1, <2>2, <2>3, <2>4 DEF HeaderFails, IInv, Opened, Long, Short, Deciphering,
                                        VerifiedMeansIntact, IntactIsVerified
<1> QED
  BY <1>3, <1>4


\* A later block that fails ends the claims about it.
LEMMA BlockBreaksInvariance ==
    ASSUME IInv, BlockBreaks
    PROVE  IInv'
<1>1. /\ phase = "block" /\ ~block.first /\ phase' = "failed" /\ block' = NoBlock
      /\ UNCHANGED << fuse, build, sbk, secureMode, binary, table, caller, mem, pos, auth,
                      headers, contexts, splits, bounced >>
  BY DEF BlockBreaks, Unconcerned, handle
<1>2. headers # << >> /\ pos \in Int /\ block.size \in Nat /\ Bound
  BY <1>1 DEF IInv, Unopened, Pending, Typed, Bound
<1>3. Typed'
  BY <1>1 DEF IInv, Typed, NoBlock, SecureModeAfter
<1>4. Binding' /\ Pending'
  BY <1>1 DEF IInv, Binding, Pending, Bound
<1>5. Seen' >= Seen
  BY <1>1, <1>2 DEF Seen, NoBlock
<1>6. Opened'
  <2>1. Seen > HEADER_SIZE /\ Seen \in Int /\ Seen' \in Int
    BY <1>1, <1>2 DEF IInv, Opened, Seen, NoBlock
  <2>2. Seen' > HEADER_SIZE
    BY <1>5, <2>1, Sizes
  <2>3. ModeWanted' = ModeWanted
    BY <1>1 DEF ModeWanted, SignType
  <2> HIDE DEF ModeWanted
  <2> QED
    BY <1>1, <1>2, <2>2, <2>3 DEF IInv, Opened, Header, Moved, Blank
<1> QED
  BY <1>1, <1>2, <1>3, <1>4, <1>6 DEF IInv, Unopened, Long, Short, Deciphering,
                                      VerifiedMeansIntact, IntactIsVerified

\* tegrabl_auth_end, and the caller takes the binary away.
LEMMA EndInvariance ==
    ASSUME IInv, End
    PROVE  IInv'
<1>1. /\ ~Bound' /\ phase' = "idle" /\ binary' = NoBinary /\ pos' = 0 /\ block' = NoBlock
      /\ ~bounced' /\ mem' = [a \in Memory |-> <<"old", 0>>]
      /\ auth' = NoHandle /\ headers' = << >> /\ splits' = << >>
      /\ contexts' \subseteq contexts
      /\ UNCHANGED << fuse, build, sbk, secureMode, table, caller >>
  BY DEF End, Forgotten, Bound
<1>2. <<"old", 0>> \in Cell /\ StoredSize(NoBinary) \in Nat
  BY BinaryType DEF Cell, Kinds
<1>3. Typed'
  BY <1>1, <1>2 DEF IInv, Typed, NoBlock, NoHandle, Handles, SecureModeAfter
<1> QED
  BY <1>1, <1>3 DEF IInv, Binding, Pending, Unopened, Opened, Long, Short, Deciphering,
                    VerifiedMeansIntact, IntactIsVerified

---------------------------------------------------------------------------
(* What is delivered.                                                      *)

\* A sequence is the two parts of it, joined.
LEMMA TwoParts ==
    ASSUME NEW first \in Seq(Cell), NEW second \in Seq(Cell), NEW want \in Seq(Cell),
           Len(want) = Len(first) + Len(second),
           \A i \in 1 .. Len(first) : first[i] = want[i],
           \A k \in 1 .. Len(second) : second[k] = want[Len(first) + k]
    PROVE  first \o second = want
<1>1. Len(first) \in Nat /\ Len(second) \in Nat
  OBVIOUS
<1>2. Len(first \o second) = Len(want)
  BY Joined, Zenon
<1>3. first \o second \in Seq(Cell)
  OBVIOUS
<1>4. ASSUME NEW i \in 1 .. Len(first) + Len(second)
      PROVE  (first \o second)[i] = want[i]
  <2>1. ASSUME i \in 1 .. Len(first)
        PROVE  (first \o second)[i] = want[i]
    BY <2>1, Joined, Zenon
  <2>2. ASSUME NEW k \in 1 .. Len(second), i = Len(first) + k
        PROVE  (first \o second)[i] = want[i]
    BY <2>2, Joined, Zenon
  <2>3. i \in 1 .. Len(first) \/ \E k \in 1 .. Len(second) : i = Len(first) + k
    <3>1. i > Len(first) => i - Len(first) \in 1 .. Len(second)
                            /\ i = Len(first) + (i - Len(first))
      BY <1>1
    <3>2. i <= Len(first) => i \in 1 .. Len(first)
      BY <1>1
    <3>3. i > Len(first) => \E k \in 1 .. Len(second) : i = Len(first) + k
      BY <3>1
    <3>4. i <= Len(first) \/ i > Len(first)
      BY <1>1
    <3> QED
      BY <3>2, <3>3, <3>4, Zenon
  <2> QED
    BY <2>1, <2>2, <2>3, Zenon
<1> QED
  BY <1>1, <1>2, <1>3, <1>4, SeqEqual

\* Out of the mode of the fuses comes what is expected, but of a payload that is
\* deciphered at the end.
LEMMA ExpectedCells ==
    ASSUME Typed, binary \in Binaries
    PROVE  /\ Expected \in Seq(Cell) /\ Len(Expected) = binary.length
           /\ \A i \in 1 .. binary.length :
                /\ "L4T" \in build /\ ~binary.nvidia /\ ~(caller = "payload" /\ sbk = "key")
                      => Expected[i] = Body(binary)[i]
                /\ ~("L4T" \in build /\ ~binary.nvidia /\ ~(caller = "payload" /\ sbk = "key"))
                      => Expected[i] = <<"plain", i>>
                /\ ~(caller = "payload" /\ "L4T" \in build)
                      => Expected[i] = Out(ModeWanted, Body(binary)[i])
<1>1. binary.length \in Nat
  BY BinaryType
<1>2. /\ Body(binary) \in Seq(Cell) /\ Len(Body(binary)) = binary.length
      /\ \A i \in 1 .. binary.length :
            Body(binary)[i] = <<IF Encrypts(binary) THEN "cipher" ELSE "plain", i>>
  BY BodyType
<1>3. /\ Plain(binary) \in Seq(Cell) /\ Len(Plain(binary)) = binary.length
      /\ \A i \in 1 .. binary.length : Plain(binary)[i] = <<"plain", i>>
  <2>1. Plain(binary) \in [1 .. binary.length -> Cell]
    BY <1>1 DEF Plain, Cell, Kinds
  <2>2. \A i \in 1 .. binary.length : Plain(binary)[i] = <<"plain", i>>
    BY DEF Plain
  <2> QED
    BY <1>1, <2>1, <2>2, SeqOf
<1> DEFINE kept == "L4T" \in build /\ ~binary.nvidia /\ ~(caller = "payload" /\ sbk = "key")
<1>4. (kept => Expected = Body(binary)) /\ (~kept => Expected = Plain(binary))
  BY DEF Expected
<1>5. ASSUME NEW i \in 1 .. binary.length, ~(caller = "payload" /\ "L4T" \in build)
      PROVE  Expected[i] = Out(ModeWanted, Body(binary)[i])
  <2>1. Deciphers(ModeWanted) <=>
           binary.nvidia \/ (fuse = "RSA_ENCRYPTION" /\ "L4T" \notin build)
    BY HeaderModeWanted
  <2>2. CASE Deciphers(ModeWanted)
    <3>1. ~kept /\ Encrypts(binary)
      BY <2>1, <2>2 DEF Encrypts
    <3>2. Body(binary)[i] = <<"cipher", i>>
      BY <1>2, <3>1
    <3>3. Out(ModeWanted, Body(binary)[i]) = <<"plain", i>>
      BY <2>2, <3>2 DEF Out
    <3> QED
      BY <1>3, <1>4, <3>1, <3>3
  <2>3. CASE ~Deciphers(ModeWanted) /\ kept
    BY <2>3, <1>4 DEF Out
  <2>4. CASE ~Deciphers(ModeWanted) /\ ~kept
    <3>1. ~Encrypts(binary)
      BY <1>5, <2>1, <2>4 DEF Encrypts
    <3> QED
      BY <2>4, <3>1, <1>2, <1>3, <1>4 DEF Out
  <2> QED
    BY <2>2, <2>3, <2>4
<1> QED
  BY <1>2, <1>3, <1>4, <1>5


\* What lies at the destination when the digest fits: the binary, as its mode
\* leaves it.
LEMMA VerifiedCells ==
    ASSUME IInv, headers # << >>, phase \notin {"failed", "final"}, Bound,
           Header.fed = SignedCells(binary), Seen >= Needed
    PROVE  /\ Moved \in 0 .. binary.length
           /\ \A i \in 1 .. binary.length :
                 mem[At(i)] = Out(ModeWanted, Body(binary)[i])
<1>1. /\ binary \in Binaries /\ binary.length \in Nat /\ Seen \in Int /\ auth.dest \in Nat
      /\ Needed = HEADER_SIZE + binary.length
  <2>1. binary \in Binaries
    BY DEF IInv, Binding
  <2>2. pos \in Int /\ block.size \in Int /\ auth.dest \in Nat
    BY DEF IInv, Typed, Handles
  <2> QED
    BY <2>1, <2>2, BinaryType DEF Seen, Needed
<1>2. Header.mode = ModeWanted /\ Header.fed \in Seq(Cell)
  BY DEF IInv, Opened
<1>3. /\ Header.fed # << >>
      /\ \A i \in 1 .. binary.length :
            Header.fed[SIGNED_SECTION_LEN + i] = Body(binary)[i]
  BY <1>1, <1>2, FitsAt
<1>4. CASE auth.short
  <2>1. splits = << >>
    BY <1>3, <1>4 DEF IInv, Short
  <2>2. \A i \in 1 .. binary.length :
           mem[auth.dest + i - 1] = Out(Header.mode, Header.fed[SIGNED_SECTION_LEN + i])
    BY <1>3, <1>4, <2>1 DEF IInv, Short
  <2>3. Moved = 0 /\ \A i \in 1 .. binary.length : At(i) = auth.dest + i - 1
    BY <1>1, <2>1 DEF Moved, At
  <2>4. ASSUME NEW i \in 1 .. binary.length
        PROVE  mem[At(i)] = Out(ModeWanted, Body(binary)[i])
    <3>1. At(i) = auth.dest + i - 1
      BY <2>3
    <3>2. mem[auth.dest + i - 1] = Out(Header.mode, Header.fed[SIGNED_SECTION_LEN + i])
      BY <2>2
    <3> QED
      BY <3>1, <3>2, <1>2, <1>3
  <2> QED
    BY <1>1, <2>3, <2>4
<1>5. CASE ~auth.short
  <2>1. Taken = binary.length
    BY <1>1, Sizes DEF Taken, Less
  <2>2. Moved <= Taken /\ Moved \in Nat
    BY <1>5 DEF IInv, Long, Opened, Moved
  <2>3. \A i \in 1 .. Taken :
           mem[At(i)] = Out(Header.mode, Header.fed[SIGNED_SECTION_LEN + i])
    BY <1>5 DEF IInv, Long
  <2>4. \A i \in 1 .. binary.length :
           mem[At(i)] = Out(ModeWanted, Body(binary)[i])
    BY <1>2, <1>3, <2>1, <2>3
  <2> QED
    BY <1>1, <2>1, <2>2, <2>4
<1> QED
  BY <1>4, <1>5

\* Where the binary lies there is memory.
LEMMA AtInMemory ==
    ASSUME IInv, headers # << >>, Bound, Moved \in 0 .. binary.length
    PROVE  /\ binary \in Binaries /\ binary.length \in Nat /\ auth.dest \in Nat
           /\ \A i \in 1 .. binary.length :
                 /\ i <= Moved => DestAddr + i - 1 \in Memory
                 /\ i > Moved => auth.dest + (i - Moved) - 1 \in Memory
<1>1. binary \in Binaries /\ binary.length \in Nat /\ StoredSize(binary) = HEADER_SIZE + binary.length + 1
  BY BinaryType DEF IInv, Binding
<1>2. auth.dest \in {DestAddr, NewAddr} /\ auth.dest \in Nat
  BY DEF IInv, Opened, Typed, Handles
<1>3. ASSUME NEW i \in 1 .. binary.length
      PROVE  /\ i <= Moved => DestAddr + i - 1 \in Memory
             /\ i > Moved => auth.dest + (i - Moved) - 1 \in Memory
  <2>1. i - 1 \in 0 .. StoredSize(binary) /\ DestAddr + (i - 1) = DestAddr + i - 1
    BY <1>1, Sizes, Places
  <2>2. i > Moved => /\ i - Moved - 1 \in 0 .. StoredSize(binary)
                     /\ auth.dest + (i - Moved - 1) = auth.dest + (i - Moved) - 1
    BY <1>1, <1>2, Sizes
  <2>3. DestAddr + (i - 1) \in Memory
    BY <1>1, <2>1, Rooms
  <2>4. i > Moved => auth.dest + (i - Moved - 1) \in Memory
    BY <1>1, <1>2, <2>2, Rooms
  <2> QED
    BY <2>1, <2>2, <2>3, <2>4
<1> QED
  BY <1>1, <1>2, <1>3

\* What is delivered is what lies at the places of its cells.
LEMMA DeliveredCells ==
    ASSUME IInv, headers # << >>, Bound, Moved \in 0 .. binary.length,
           NEW want \in Seq(Cell), Len(want) = binary.length,
           \A i \in 1 .. binary.length : mem[At(i)] = want[i]
    PROVE  Delivered = want
<1>1. /\ binary \in Binaries /\ binary.length \in Nat /\ auth.dest \in Nat
      /\ \A i \in 1 .. binary.length :
            /\ i <= Moved => DestAddr + i - 1 \in Memory
            /\ i > Moved => auth.dest + (i - Moved) - 1 \in Memory
  BY AtInMemory
<1> DEFINE rest == binary.length - Moved
           first == Cells(mem, DestAddr, Moved)
           second == Cells(mem, auth.dest, rest)
<1>2. rest \in Nat /\ Moved \in Nat /\ Len(want) = Moved + rest
  BY <1>1
<1>3. \A i \in 1 .. Moved : DestAddr + i - 1 \in Memory /\ mem[DestAddr + i - 1] = want[i]
  <2> SUFFICES ASSUME NEW i \in 1 .. Moved
               PROVE  DestAddr + i - 1 \in Memory /\ mem[DestAddr + i - 1] = want[i]
    OBVIOUS
  <2>1. i \in 1 .. binary.length /\ i <= Moved
    BY <1>2
  <2>2. At(i) = DestAddr + i - 1
    BY <2>1 DEF At
  <2> QED
    BY <2>1, <2>2, <1>1
<1>4. ASSUME NEW i \in 1 .. rest
      PROVE  auth.dest + i - 1 \in Memory /\ mem[auth.dest + i - 1] = want[Moved + i]
  <2>1. /\ Moved + i \in 1 .. binary.length /\ Moved + i > Moved
        /\ auth.dest + ((Moved + i) - Moved) - 1 = auth.dest + i - 1
    BY <1>1
  <2>2. At(Moved + i) = auth.dest + i - 1
    BY <2>1 DEF At
  <2> QED
    BY <2>1, <2>2, <1>1
<1>5. /\ first \o second = want
      /\ Moved = 0 => << >> \o second = want
  <2>1. mem \in [Memory -> Cell]
    BY DEF IInv, Typed, Handles
  <2> HIDE DEF rest
  <2>a. IsRead(mem, DestAddr, Moved, first)
    BY <1>2, <1>3, <2>1, Places, CellsAreRead
  <2>b. IsRead(mem, auth.dest, rest, second)
    BY <1>1, <1>2, <1>4, <2>1, CellsAreRead
  <2> HIDE DEF first, second
  <2>2. /\ first \in Seq(Cell) /\ Len(first) = Moved
        /\ \A i \in 1 .. Moved : first[i] = want[i]
    BY <1>3, <2>a DEF IsRead
  <2>3. /\ second \in Seq(Cell) /\ Len(second) = rest
        /\ \A i \in 1 .. rest : second[i] = want[Moved + i]
    BY <1>4, <2>b DEF IsRead
  <2>4. first \o second = want
    BY <1>2, <2>2, <2>3, TwoParts
  <2>5. << >> \o second = second
    BY <2>3
  <2>6. Moved = 0 => first = << >>
    BY <2>2
  <2> QED
    BY <2>4, <2>5, <2>6
<1>6. CASE splits = << >>
  BY <1>5, <1>6 DEF Delivered, Moved, first, second, rest
<1>7. CASE splits # << >>
  <2>1. splits[1].at = DestAddr
    BY <1>7 DEF IInv, Opened
  <2> QED
    BY <1>5, <1>7, <2>1 DEF Delivered
<1> QED
  BY <1>6, <1>7


---------------------------------------------------------------------------
(* The end.                                                                *)

\* tegrabl_auth_finalize: a signature that fits puts what was signed in place.
LEMMA FinalizeInvariance ==
    ASSUME IInv, Finalize
    PROVE  IInv'
<1>1. /\ phase = "open" /\ pos >= Needed /\ result' = FinalizeResult
      /\ phase' = IF caller = "payload" /\ "L4T" \in build /\ FinalizeResult = "ok"
                  THEN "decrypt" ELSE "final"
      /\ UNCHANGED << fuse, build, sbk, secureMode, binary, table, caller, mem, pos, block,
                      auth, headers, contexts, splits, fault, bounced >>
  BY DEF Finalize, Unconcerned, handle
<1>2. /\ Bound /\ binary \in Binaries /\ binary.length \in Nat /\ pos \in Int
      /\ block = NoBlock /\ Seen = pos /\ Seen >= Needed
      /\ Needed = HEADER_SIZE + binary.length
  <2>1. Bound /\ binary \in Binaries /\ block = NoBlock
    BY <1>1 DEF IInv, Binding, Bound, Pending
  <2>2. pos \in Int
    BY DEF IInv, Typed, Handles
  <2> QED
    BY <1>1, <2>1, <2>2, BinaryType DEF Seen, NoBlock, Needed
<1>3. headers # << >>
  <2>1. Seen # 0
    BY <1>2, Sizes
  <2> QED
    BY <1>1, <1>2, <2>1 DEF IInv, Unopened
<1>4. /\ Header.mode = ModeWanted /\ Header.fed \in Seq(Cell) /\ headers = << Header >>
      /\ Len(Header.fed) = Header.processed
  BY <1>3 DEF IInv, Opened
<1>5. /\ FinalizeResult = "ok" => Header.fed = SignedCells(binary)
      /\ Header.fed = SignedCells(binary) /\ (binary.type \in NvidiaTypes => binary.nvidia)
            => FinalizeResult = "ok"
  <2>1. DOMAIN headers = {1} /\ headers[1] = Header
    BY <1>4 DEF Header
  <2>2. binary.nvidia <=> Header.mode = "NVIDIA_RSA"
    BY <1>4, HeaderModeWanted DEF IInv
  <2>3. auth.nvidia = (binary.type \in NvidiaTypes)
    BY <1>2 DEF IInv, Binding
  <2>4. SignatureFits(headers[1]) <=> Header.fed = SignedCells(binary)
    BY DEF SignatureFits, Header
  <2> QED
    BY <2>1, <2>2, <2>3, <2>4 DEF FinalizeResult
<1>6. Typed' /\ Binding' /\ Pending' /\ Unopened'
  BY <1>1, <1>2, <1>3 DEF IInv, Typed, Binding, Pending, Unopened, Bound, SecureModeAfter
<1>7. ModeWanted' = ModeWanted
  BY <1>1 DEF ModeWanted, SignType
<1>8. /\ Header' = Header /\ Moved' = Moved /\ Seen' = Seen /\ Taken' = Taken /\ Needed' = Needed
      /\ SignedCells(binary)' = SignedCells(binary) /\ Collectable' = Collectable
      /\ \A b : Stored(b)' = Stored(b)
      /\ Expected' = Expected /\ Delivered' = Delivered
      /\ \A i : At(i)' = At(i)
  BY <1>1 DEF Header, Moved, Seen, Taken, Needed, SignedCells, Body, Encrypts, Collectable,
              Stored, Expected, Delivered, At
<1>9. Opened'
  BY <1>1, <1>3, <1>7, <1>8 DEF IInv, Opened, Blank
<1>10. Long'
  BY <1>1, <1>8 DEF IInv, Long
<1>11. Short'
  BY <1>1, <1>8 DEF IInv, Short
<1>12. Deciphering'
  BY <1>1, <1>2, <1>3, <1>5, <1>8 DEF Deciphering
<1>13. VerifiedMeansIntact'
  <2> SUFFICES ASSUME phase' = "final", result' = "ok"
               PROVE  Delivered = Expected
    BY <1>8 DEF VerifiedMeansIntact
  <2>1. Header.fed = SignedCells(binary) /\ ~(caller = "payload" /\ "L4T" \in build)
    BY <1>1, <1>5
  <2>2. /\ Moved \in 0 .. binary.length
        /\ \A i \in 1 .. binary.length : mem[At(i)] = Out(ModeWanted, Body(binary)[i])
    BY <1>1, <1>2, <1>3, <2>1, VerifiedCells
  <2>3. /\ Expected \in Seq(Cell) /\ Len(Expected) = binary.length
        /\ \A i \in 1 .. binary.length : Expected[i] = Out(ModeWanted, Body(binary)[i])
    BY <1>2, <2>1, ExpectedCells DEF IInv
  <2>4. \A i \in 1 .. binary.length : mem[At(i)] = Expected[i]
    BY <2>2, <2>3
  <2> QED
    BY <1>2, <1>3, <2>2, <2>3, <2>4, DeliveredCells
<1>14. IntactIsVerified'
  <2> SUFFICES ASSUME phase' = "final", binary.damage = 0,
                      ~(auth.short /\ binary.nvidia /\ bounced), ~(auth.short /\ splits # << >>),
                      binary.type \in NvidiaTypes => binary.nvidia
               PROVE  FinalizeResult = "ok"
    BY <1>1 DEF IntactIsVerified
  <2>1. Taken = binary.length
    BY <1>2, Sizes DEF Taken, Less
  <2>2. /\ Header.processed = binary.length + SIGNED_SECTION_LEN
        /\ \A k \in 1 .. binary.length + SIGNED_SECTION_LEN :
              Header.fed[k] = Stored(binary)[HEADER_SIZE - SIGNED_SECTION_LEN + k]
    <3>1. CASE auth.short
      <4>1. Header.fed # << >>
        BY <1>1, <1>2, <1>3, <3>1 DEF IInv, Short
      <4>2. Collectable
        BY <3>1 DEF Collectable
      <4> QED
        BY <1>1, <1>3, <3>1, <4>1, <4>2 DEF IInv, Short
    <3>2. CASE ~auth.short
      <4>1. SIGNED_SECTION_LEN + Taken = binary.length + SIGNED_SECTION_LEN
        BY <1>2, <2>1, Sizes
      <4> QED
        BY <1>1, <1>3, <3>2, <4>1 DEF IInv, Long
    <3> QED
      BY <3>1, <3>2
  <2>3. Header.fed = SignedCells(binary)
    BY <1>2, <1>4, <2>2, IntactFits
  <2> QED
    BY <1>5, <2>3
<1> QED
  BY <1>6, <1>9, <1>10, <1>11, <1>12, <1>13, <1>14 DEF IInv


\* tegrabl_decrypt_block deciphers a payload that was verified, once.
LEMMA DecryptInvariance ==
    ASSUME IInv, DecryptBlock
    PROVE  IInv'
<1>1. /\ phase = "decrypt" /\ phase' = "final"
      /\ UNCHANGED << fuse, build, sbk, secureMode, binary, table, caller, pos, block,
                      auth, headers, contexts, splits, bounced >>
  BY DEF DecryptBlock, Unconcerned, handle
<1>2. /\ Bound /\ headers # << >> /\ Header.fed = SignedCells(binary) /\ Seen >= Needed
      /\ caller = "payload" /\ "L4T" \in build /\ result = "ok"
      /\ block = NoBlock
  BY <1>1 DEF IInv, Deciphering, Bound, Pending
<1>3. /\ binary \in Binaries /\ binary.length \in Nat /\ ~binary.nvidia
      /\ splits = << >> /\ auth.dest = DestAddr /\ mem \in [Memory -> Cell]
  <2>1. binary \in Binaries /\ binary.type \in PayloadTypes /\ mem \in [Memory -> Cell]
    BY <1>2 DEF IInv, Binding, Typed
  <2>2. DestAddr # NewAddr
    BY <2>1, Rooms
  <2>3. splits = << >> /\ auth.dest = DestAddr
    BY <1>2, <2>2 DEF IInv, Opened
  <2>4. ~binary.nvidia
    BY <1>2, <2>1 DEF IInv, Opened, PayloadTypes, NvidiaTypes
  <2> QED
    BY <2>1, <2>3, <2>4, BinaryType
<1>4. \A i \in 1 .. binary.length : DestAddr + i - 1 \in Memory
  <2> SUFFICES ASSUME NEW i \in 1 .. binary.length
               PROVE  DestAddr + i - 1 \in Memory
    OBVIOUS
  <2>1. i - 1 \in 0 .. StoredSize(binary) /\ DestAddr + (i - 1) = DestAddr + i - 1
    BY <1>3, BinaryType, Sizes, Places
  <2> QED
    BY <1>3, <2>1, Rooms
<1>5. \A i \in 1 .. binary.length : mem[DestAddr + i - 1] = Body(binary)[i]
  <2>1. ~Deciphers(ModeWanted)
    BY <1>2, <1>3, HeaderModeWanted DEF IInv
  <2>2. \A i \in 1 .. binary.length : mem[At(i)] = Out(ModeWanted, Body(binary)[i])
    BY <1>1, <1>2, VerifiedCells
  <2> SUFFICES ASSUME NEW i \in 1 .. binary.length
               PROVE  mem[DestAddr + i - 1] = Body(binary)[i]
    OBVIOUS
  <2>3. At(i) = DestAddr + i - 1
    BY <1>3 DEF At, Moved
  <2> QED
    BY <2>1, <2>2, <2>3 DEF Out
<1>6. mem' \in [Memory -> Cell]
      /\ (result' = "ok" => \A i \in 1 .. binary.length : mem'[DestAddr + i - 1] = Expected[i])
  <2> DEFINE cells == Cells(mem, DestAddr, binary.length)
  <2>1. /\ cells \in Seq(Cell) /\ Len(cells) = binary.length
        /\ \A i \in 1 .. binary.length : cells[i] = Body(binary)[i]
    <3>1. IsRead(mem, DestAddr, binary.length, cells)
      BY <1>3, <1>4, Places, CellsAreRead
    <3> HIDE DEF cells
    <3> QED
      BY <3>1, <1>5 DEF IsRead
  <2>2. \A i \in 1 .. binary.length :
           Body(binary)[i] = <<IF Encrypts(binary) THEN "cipher" ELSE "plain", i>>
    BY <1>3, BodyType
  <2>3. \A i \in 1 .. binary.length :
           /\ sbk = "key" => Expected[i] = <<"plain", i>>
           /\ sbk # "key" => Expected[i] = Body(binary)[i]
    BY <1>2, <1>3, ExpectedCells DEF IInv
  <2>4. CASE fuse = "RSA_ENCRYPTION" /\ sbk = "key" /\ mem' = CipherBinary(auth.dest, binary.length)
    <3> HIDE DEF cells
    <3>1. mem' = Put(mem, DestAddr, Decrypt(cells))
      BY <1>3, <2>4 DEF CipherBinary, cells
    <3>2. /\ Decrypt(cells) \in Seq(Cell) /\ Len(Decrypt(cells)) = binary.length
          /\ \A i \in 1 .. binary.length :
                Decrypt(cells)[i]
                    = << IF cells[i][1] = "cipher" THEN "plain" ELSE "noise", cells[i][2] >>
      BY <2>1, Decrypted
    <3>3. \A i \in 1 .. binary.length : Decrypt(cells)[i] = <<"plain", i>>
      BY <2>1, <2>2, <2>4, <3>2 DEF Encrypts
    <3> DEFINE plain == Decrypt(cells)
    <3>4. plain \in Seq(Cell) /\ Len(plain) = binary.length
      BY <3>2
    <3> HIDE DEF plain
    <3>5. /\ Put(mem, DestAddr, plain) \in [Memory -> Cell]
          /\ \A i \in 1 .. Len(plain) :
                DestAddr + i - 1 \in Memory => Put(mem, DestAddr, plain)[DestAddr + i - 1] = plain[i]
      BY <1>3, <3>4, Places, PutWrites
    <3>6. \A i \in 1 .. binary.length : Put(mem, DestAddr, plain)[DestAddr + i - 1] = plain[i]
      BY <1>4, <3>4, <3>5
    <3>7. \A i \in 1 .. binary.length : mem'[DestAddr + i - 1] = <<"plain", i>>
      BY <3>1, <3>3, <3>6 DEF plain
    <3> QED
      BY <2>3, <2>4, <3>1, <3>5, <3>7 DEF plain
  <2>5. CASE fuse = "RSA_ENCRYPTION" /\ sbk = "key" /\ result' = "FAILED" /\ mem' = mem
    BY <1>3, <2>5
  <2>6. CASE ~(fuse = "RSA_ENCRYPTION" /\ sbk = "key") /\ mem' = mem
    <3>1. sbk = "key" => ~Encrypts(binary)
      BY <1>3, <2>6 DEF Encrypts
    <3>2. \A i \in 1 .. binary.length : mem[DestAddr + i - 1] = Expected[i]
      <4>1. CASE sbk = "key"
        BY <1>5, <2>2, <2>3, <3>1, <4>1
      <4>2. CASE sbk # "key"
        BY <1>5, <2>3, <4>2
      <4> QED
        BY <4>1, <4>2
    <3> QED
      BY <1>3, <2>6, <3>2
  <2> QED
    BY <2>4, <2>5, <2>6 DEF DecryptBlock
<1>7. Typed' /\ Binding' /\ Pending' /\ Unopened'
  BY <1>1, <1>2, <1>6 DEF IInv, Typed, Binding, Pending, Unopened, Bound, SecureModeAfter
<1>8. ModeWanted' = ModeWanted
  BY <1>1 DEF ModeWanted, SignType
<1>9. /\ Header' = Header /\ Moved' = Moved /\ Seen' = Seen /\ Taken' = Taken /\ Needed' = Needed
      /\ SignedCells(binary)' = SignedCells(binary) /\ Collectable' = Collectable
      /\ \A b : Stored(b)' = Stored(b)
      /\ Expected' = Expected
  BY <1>1 DEF Header, Moved, Seen, Taken, Needed, SignedCells, Body, Encrypts, Collectable,
              Stored, Expected
<1>10. Opened'
  <2>1. \A a \in Room(NewAddr, binary) : mem'[a] = mem[a]
    <3> SUFFICES ASSUME NEW a \in Room(NewAddr, binary)
                 PROVE  mem'[a] = mem[a]
      OBVIOUS
    <3> DEFINE cells == Decrypt(Cells(mem, DestAddr, binary.length))
    <3>1. cells \in Seq(Cell) /\ Len(cells) = binary.length
      <4>1. Cells(mem, DestAddr, binary.length) \in Seq(Cell)
            /\ Len(Cells(mem, DestAddr, binary.length)) = binary.length
        BY <1>3, <1>4, Places, CellsRead
      <4> QED
        BY <4>1, Decrypted
    <3>2. CASE mem' = Put(mem, DestAddr, cells)
      <4>1. a \in Memory
        BY <1>3, RoomAssumption
      <4>2. \A k \in 1 .. Len(cells) : a # DestAddr + k - 1
        <5> SUFFICES ASSUME NEW k \in 1 .. Len(cells)
                     PROVE  a # DestAddr + k - 1
          OBVIOUS
        <5>1. k - 1 \in 0 .. StoredSize(binary) /\ DestAddr + (k - 1) = DestAddr + k - 1
          BY <1>3, <3>1, BinaryType, Sizes, Places
        <5>2. a - NewAddr \in 0 .. StoredSize(binary) /\ a = NewAddr + (a - NewAddr)
          BY <1>3, BinaryType, Places DEF Room
        <5> QED
          BY <1>3, <5>1, <5>2, Rooms
      <4> HIDE DEF cells
      <4> QED
        BY <1>3, <3>1, <3>2, <4>1, <4>2, Places, PutWrites
    <3>3. CASE mem' = mem
      BY <3>3
    <3> QED
      BY <1>3, <3>2, <3>3 DEF DecryptBlock, CipherBinary
  <2>2. binary' = binary /\ NewAddr' = NewAddr
    BY <1>1
  <2> QED
    BY <1>1, <1>2, <1>8, <1>9, <2>1, <2>2 DEF IInv, Opened, Blank
<1>11. Long'
  BY <1>1, <1>9 DEF IInv, Long
<1>12. Short'
  BY <1>1, <1>2, <1>9, FitsAt, <1>3 DEF IInv, Short, Opened
<1>13. Deciphering'
  BY <1>1 DEF Deciphering
<1>14. VerifiedMeansIntact'
  <2> SUFFICES ASSUME result' = "ok"
               PROVE  Delivered' = Expected
    BY <1>9 DEF VerifiedMeansIntact
  <2> DEFINE second == Cells(mem', DestAddr, binary.length)
  <2>1. /\ second \in Seq(Cell) /\ Len(second) = binary.length
        /\ \A i \in 1 .. binary.length : second[i] = Expected[i]
    <3>1. /\ second \in Seq(Cell) /\ Len(second) = binary.length
          /\ \A i \in 1 .. binary.length : second[i] = mem'[DestAddr + i - 1]
      BY <1>3, <1>4, <1>6, Places, CellsRead
    <3> HIDE DEF second
    <3> QED
      BY <3>1, <1>6
  <2>2. /\ Expected \in Seq(Cell) /\ Len(Expected) = binary.length
    BY <1>3, ExpectedCells DEF IInv
  <2>3. binary.length - 0 = binary.length
    BY <1>3
  <2>4. Delivered' = << >> \o second
    BY <1>1, <1>3, <2>3 DEF Delivered, Moved
  <2> HIDE DEF second
  <2>5. << >> \o second = second
    BY <2>1
  <2>6. second = Expected
    BY <2>1, <2>2, SeqEqual
  <2> QED
    BY <2>4, <2>5, <2>6
<1>15. IntactIsVerified'
  BY <1>1, <1>2 DEF DecryptBlock, IntactIsVerified
<1> QED
  BY <1>7, <1>10, <1>11, <1>12, <1>13, <1>14, <1>15 DEF IInv


---------------------------------------------------------------------------
(* A block is loaded.                                                      *)

\* What is loaded is written to where the handle is, or elsewhere.
LEMMA LoadWrites ==
    ASSUME IInv, NEW n \in 1 .. Len(Stored(binary)), NEW at \in {auth.safe, Elsewhere},
           Load(n, at)
    PROVE  /\ binary \in Binaries /\ binary.length \in Nat /\ auth.dest \in {DestAddr, NewAddr}
           /\ pos \in Nat /\ Seen = pos /\ pos + n <= StoredSize(binary) /\ pos < Needed
           /\ block = NoBlock /\ Bound
           /\ mem' \in [Memory -> Cell]
           /\ \A k \in 1 .. n : mem'[at + k - 1] = Stored(binary)[pos + k]
           /\ \A a \in Memory : (\A k \in 1 .. n : a # at + k - 1) => mem'[a] = mem[a]
           /\ \A k \in 1 .. n :
                 at + k - 1 \in Memory
                 /\ (\E j \in 0 .. StoredSize(binary) :
                        at + k - 1 = auth.dest + j \/ at + k - 1 = Elsewhere + j)
<1>1. /\ phase = "open" /\ pos < Needed /\ pos + n <= Len(Stored(binary))
      /\ mem' = Put(mem, at, SubSeq(Stored(binary), pos + 1, pos + n))
  BY DEF Load
<1>2. Bound /\ binary \in Binaries /\ block = NoBlock
  BY <1>1 DEF IInv, Binding, Pending, Bound
<1>3. /\ binary.length \in Nat /\ StoredSize(binary) \in Nat
      /\ Stored(binary) \in Seq(Cell) /\ Len(Stored(binary)) = StoredSize(binary)
  BY <1>2, BinaryType, StoredCells
<1>4. /\ mem \in [Memory -> Cell] /\ pos \in Nat /\ auth.dest \in Nat /\ auth.safe \in Nat
      /\ auth.safe = auth.dest + auth.processed /\ auth.processed <= pos /\ auth.processed \in Nat
  BY <1>3 DEF IInv, Typed, Handles
<1>5. auth.dest \in {DestAddr, NewAddr}
  BY <1>2 DEF IInv, Opened, Unopened
<1>6. n \in Nat /\ at \in Nat /\ Seen = pos
  BY <1>2, <1>3, <1>4, Places DEF Seen, NoBlock
<1> DEFINE cells == SubSeq(Stored(binary), pos + 1, pos + n)
<1>7. Len(cells) = n /\ cells \in Seq(Cell) /\ \A k \in 1 .. n : cells[k] = Stored(binary)[pos + k]
  <2>1. Len(cells) = n
    BY <1>1, <1>3, <1>4, <1>6
  <2>2. cells \in Seq(Cell)
    BY <1>1, <1>3, <1>4, <1>6
  <2>3. \A k \in 1 .. n : cells[k] = Stored(binary)[pos + k]
    BY <1>1, <1>3, <1>4, <1>6
  <2> QED
    BY <2>1, <2>2, <2>3
<1>8. ASSUME NEW k \in 1 .. n
      PROVE  /\ at + k - 1 \in Memory
             /\ \E j \in 0 .. StoredSize(binary) :
                   at + k - 1 = auth.dest + j \/ at + k - 1 = Elsewhere + j
  <2>1. CASE at = Elsewhere
    <3>1. k - 1 \in 0 .. StoredSize(binary) /\ Elsewhere + (k - 1) = at + k - 1
      BY <2>1, <1>1, <1>3, <1>4, <1>6
    <3> QED
      BY <3>1, <1>2, Rooms
  <2>2. CASE at = auth.safe
    <3> DEFINE j == auth.processed + k - 1
    <3>1. j \in 0 .. StoredSize(binary) /\ auth.dest + j = at + k - 1
      BY <2>2, <1>1, <1>3, <1>4, <1>6
    <3>2. auth.dest + j \in Memory
      BY <3>1, <1>2, <1>5, Rooms
    <3> QED
      BY <3>1, <3>2
  <2> QED
    BY <2>1, <2>2
<1> HIDE DEF cells
<1>9. /\ Put(mem, at, cells) \in [Memory -> Cell]
      /\ \A k \in 1 .. Len(cells) :
            at + k - 1 \in Memory => Put(mem, at, cells)[at + k - 1] = cells[k]
      /\ \A a \in Memory :
            (\A k \in 1 .. Len(cells) : a # at + k - 1) => Put(mem, at, cells)[a] = mem[a]
  BY <1>4, <1>6, <1>7, PutWrites
<1>10. mem' = Put(mem, at, cells)
  BY <1>1 DEF cells
<1>11. \A k \in 1 .. n : mem'[at + k - 1] = Stored(binary)[pos + k]
  BY <1>7, <1>8, <1>9, <1>10
<1> QED
  BY <1>1, <1>2, <1>3, <1>4, <1>5, <1>6, <1>7, <1>8, <1>9, <1>10, <1>11


\* What a step leaves alone that goes on where the handle is.
Untouched ==
    \A base \in {DestAddr, NewAddr}, j \in 0 .. StoredSize(binary) :
        base # auth.dest \/ j < auth.processed => mem'[base + j] = mem[base + j]

\* Each address of the new room is so far from its start.
LEMMA RoomOf ==
    ASSUME NEW b \in Binaries, NEW a \in Room(NewAddr, b)
    PROVE  \E j \in 0 .. StoredSize(b) : a = NewAddr + j
<1>1. a - NewAddr \in 0 .. StoredSize(b) /\ a = NewAddr + (a - NewAddr)
  BY BinaryType, Places DEF Room
<1> QED
  BY <1>1

\* Where a block is loaded, the new place is not touched before it is the
\* destination.
LEMMA BlankStays ==
    ASSUME Untouched, binary \in Binaries, auth.dest = DestAddr
    PROVE  \A a \in Room(NewAddr, binary) : mem'[a] = mem[a]
<1> SUFFICES ASSUME NEW a \in Room(NewAddr, binary)
             PROVE  mem'[a] = mem[a]
  OBVIOUS
<1>1. PICK j \in 0 .. StoredSize(binary) : a = NewAddr + j
  BY RoomOf
<1>2. NewAddr # auth.dest
  BY Rooms
<1> QED
  BY <1>1, <1>2 DEF Untouched

\* Cells in place stay when a block is loaded behind them, or elsewhere.
LEMMA BlockStays ==
    ASSUME IInv, Untouched, headers # << >>, Bound, ~auth.short, phase # "failed",
           Seen < Needed
    PROVE  /\ Taken = Seen - HEADER_SIZE /\ Taken \in Nat /\ Taken <= binary.length
           /\ Moved \in 0 .. Taken /\ auth.processed + Moved = Taken
           /\ \A i \in 1 .. Taken : mem'[At(i)] = mem[At(i)]
<1>1. /\ binary \in Binaries /\ binary.length \in Nat
      /\ StoredSize(binary) = HEADER_SIZE + binary.length + 1
      /\ pos \in Int /\ block.size \in Int /\ auth.dest \in Nat /\ auth.processed \in Nat
      /\ Seen \in Int /\ Needed = HEADER_SIZE + binary.length
  <2>1. binary \in Binaries
    BY DEF IInv, Binding
  <2>2. pos \in Int /\ block.size \in Int /\ auth.dest \in Nat /\ auth.processed \in Nat
    BY DEF IInv, Typed, Handles
  <2> QED
    BY <2>1, <2>2, BinaryType DEF Seen, Needed
<1>2. Seen > HEADER_SIZE
  BY DEF IInv, Opened
<1>3. Taken = Seen - HEADER_SIZE /\ Taken \in Nat /\ Taken <= binary.length
  BY <1>1, <1>2, Sizes DEF Taken, Less
<1>4. /\ Moved <= Taken /\ auth.processed + Moved = Seen - HEADER_SIZE
  BY <1>1 DEF IInv, Long
<1>5. Moved \in Nat /\ (Moved # 0 => auth.dest = NewAddr)
  BY DEF IInv, Opened, Moved
<1>6. auth.dest \in {DestAddr, NewAddr}
  BY DEF IInv, Opened
<1>7. ASSUME NEW i \in 1 .. Taken
      PROVE  mem'[At(i)] = mem[At(i)]
  <2>1. CASE i <= Moved
    <3>1. i - 1 \in 0 .. StoredSize(binary) /\ At(i) = DestAddr + (i - 1)
      BY <2>1, <1>1, <1>3, Sizes, Places DEF At
    <3>2. DestAddr # auth.dest
      BY <2>1, <1>1, <1>5, Rooms
    <3> QED
      BY <3>1, <3>2 DEF Untouched
  <2>2. CASE i > Moved
    <3>1. /\ i - Moved - 1 \in 0 .. StoredSize(binary) /\ i - Moved - 1 < auth.processed
          /\ At(i) = auth.dest + (i - Moved - 1)
      BY <2>2, <1>1, <1>3, <1>4, <1>5, Sizes DEF At
    <3> QED
      BY <3>1, <1>6 DEF Untouched
  <2> QED
    BY <2>1, <2>2, <1>3, <1>5
<1> QED
  BY <1>3, <1>4, <1>5, <1>7

\* A block is loaded at the safe place or elsewhere.
LEMMA LoadInvariance ==
    ASSUME IInv, NEW n \in 1 .. Len(Stored(binary)), NEW at \in {auth.safe, Elsewhere},
           Load(n, at)
    PROVE  IInv'
<1>1. /\ phase = "open" /\ phase' = "block" /\ pos' = pos + n
      /\ block' = [at |-> at, size |-> n, first |-> pos = 0]
      /\ bounced' = (bounced \/ (pos > 0 /\ at # auth.safe))
      /\ UNCHANGED << fuse, build, sbk, secureMode, binary, table, caller, auth, headers,
                      contexts, splits, fault >>
  BY DEF Load, Unconcerned, handle
<1>2. /\ binary \in Binaries /\ binary.length \in Nat /\ auth.dest \in {DestAddr, NewAddr}
      /\ pos \in Nat /\ Seen = pos /\ pos + n <= StoredSize(binary) /\ pos < Needed
      /\ Bound /\ block = NoBlock
      /\ mem' \in [Memory -> Cell]
      /\ \A k \in 1 .. n : mem'[at + k - 1] = Stored(binary)[pos + k]
      /\ \A a \in Memory : (\A k \in 1 .. n : a # at + k - 1) => mem'[a] = mem[a]
  BY LoadWrites
<1>3. /\ n \in Nat /\ n > 0 /\ at \in Nat /\ auth.dest \in Nat /\ auth.processed \in Nat
      /\ auth.safe = auth.dest + auth.processed
      /\ StoredSize(binary) = HEADER_SIZE + binary.length + 1 /\ StoredSize(binary) \in Nat
      /\ Needed = HEADER_SIZE + binary.length /\ Len(Stored(binary)) = StoredSize(binary)
  <2>1. auth.dest \in Nat /\ auth.processed \in Nat /\ auth.safe = auth.dest + auth.processed
    BY DEF IInv, Typed, Handles
  <2>2. StoredSize(binary) = HEADER_SIZE + binary.length + 1 /\ StoredSize(binary) \in Nat
        /\ Len(Stored(binary)) = StoredSize(binary)
    BY <1>2, BinaryType, StoredCells
  <2> QED
    BY <2>1, <2>2, Places DEF Needed
<1>3a. pos \in Nat /\ pos + n <= StoredSize(binary) /\ pos < Needed
  BY <1>2
<1>4. Untouched
  <2> SUFFICES ASSUME NEW base \in {DestAddr, NewAddr}, NEW j \in 0 .. StoredSize(binary),
                      base # auth.dest \/ j < auth.processed
               PROVE  mem'[base + j] = mem[base + j]
    BY DEF Untouched
  <2>1. base + j \in Memory
    BY <1>2, Rooms
  <2>2. ASSUME NEW k \in 1 .. n
        PROVE  base + j # at + k - 1
    <3>1. CASE at = Elsewhere
      <4>1. k - 1 \in 0 .. StoredSize(binary)
        BY <1>3, <1>3a
      <4>2. Elsewhere + (k - 1) = at + k - 1
        BY <3>1, <1>3
      <4> QED
        BY <4>1, <4>2, <1>2, Rooms
    <3>2. CASE at = auth.safe /\ base # auth.dest
      <4>1. PICK i \in 0 .. StoredSize(binary) :
               at + k - 1 = auth.dest + i \/ at + k - 1 = Elsewhere + i
        BY LoadWrites
      <4> QED
        BY <3>2, <4>1, <1>2, Rooms
    <3>3. CASE at = auth.safe /\ base = auth.dest /\ j < auth.processed
      BY <3>3, <1>3
    <3> QED
      BY <3>1, <3>2, <3>3
  <2> QED
    BY <1>2, <2>1, <2>2
<1>5. Seen' = pos /\ Seen' = Seen
  BY <1>1, <1>2, <1>3 DEF Seen
<1>6. Typed'
  <2>1. block' \in [at : Nat, size : Nat, first : BOOLEAN]
    BY <1>1, <1>3
  <2>2. pos' \in 0 .. StoredSize(binary) /\ auth.processed <= pos'
    BY <1>1, <1>2, <1>3 DEF IInv, Typed
  <2> QED
    BY <1>1, <1>2, <2>1, <2>2 DEF IInv, Typed, SecureModeAfter
<1>7. Binding'
  BY <1>1, <1>2 DEF IInv, Binding, Bound
<1>8. Pending'
  <2>1. block'.size = n /\ block'.at = at /\ block'.first = (pos = 0)
    BY <1>1
  <2>2. /\ pos = 0 => n > HEADER_SIZE
        /\ caller = "payload" => pos + n >= Needed
    <3>1. CASE caller = "payload"
      <4>1. n = HEADER_SIZE + binary.length + 1 /\ binary.length \in Nat
        BY <3>1, <1>2, <1>3 DEF Load
      <4>2. pos = 0
        BY <4>1, <1>3, <1>3a
      <4> QED
        BY <4>1, <4>2, <1>3, Sizes
    <3>2. CASE caller # "payload"
      BY <3>2 DEF Load
    <3> QED
      BY <3>1, <3>2
  <2>3. \A k \in 1 .. n : mem'[at + k - 1] = Stored(binary)'[Seen' + k]
    BY <1>1, <1>2, <1>5 DEF Stored, Body, Encrypts
  <2>4. n \in 1 .. pos' /\ Seen' < HEADER_SIZE + binary.length /\ Needed' = Needed
    BY <1>1, <1>2, <1>3, <1>5 DEF Needed
  <2> QED
    BY <1>1, <1>2, <1>3, <1>5, <2>1, <2>2, <2>3, <2>4 DEF Pending
<1>9. auth.dest = DestAddr => \A a \in Room(NewAddr, binary) : mem'[a] = mem[a]
  BY <1>2, <1>4, BlankStays
<1>10. Unopened'
  BY <1>1, <1>2, <1>5, <1>9 DEF IInv, Unopened, Blank
<1>11. /\ Header' = Header /\ Moved' = Moved /\ ModeWanted' = ModeWanted /\ Taken' = Taken
       /\ Needed' = Needed /\ SignedCells(binary)' = SignedCells(binary)
       /\ Stored(binary)' = Stored(binary) /\ \A i : At(i)' = At(i)
  BY <1>1, <1>5 DEF Header, Moved, ModeWanted, SignType, Taken, Needed, SignedCells, Body,
                    Encrypts, Stored, At
<1>12. Opened'
  BY <1>1, <1>2, <1>5, <1>9, <1>11 DEF IInv, Opened, Blank, Bound
<1>13. Long'
  <2> SUFFICES ASSUME headers # << >>, ~auth.short
               PROVE  Long'
    BY <1>1 DEF Long
  <2>1. \A i \in 1 .. Taken : mem'[At(i)] = mem[At(i)]
    BY <1>1, <1>2, <1>4, BlockStays
  <2> QED
    BY <1>1, <1>5, <1>11, <2>1 DEF IInv, Long
<1>14. Short'
  <2> SUFFICES ASSUME headers # << >>, auth.short
               PROVE  Short'
    BY <1>1 DEF Short
  <2>1. Header.fed = << >> /\ auth.remaining = Needed - Seen /\ auth.processed + Moved = Seen
    <3>1. ~(Seen >= Needed)
      BY <1>2, <1>3, Sizes
    <3> QED
      BY <3>1, <1>1 DEF IInv, Short
  <2>2. Collectable' => Collectable
    BY <1>1 DEF Collectable
  <2>3. ASSUME Collectable, NEW k \in 1 .. Seen
        PROVE  mem'[auth.dest + k - 1] = Stored(binary)[k]
    <3>1. auth.processed = Seen
      BY <2>1, <2>3, <1>3 DEF Collectable, Moved
    <3>2. /\ k - 1 \in 0 .. StoredSize(binary) /\ k - 1 < auth.processed
          /\ auth.dest + (k - 1) = auth.dest + k - 1
      BY <3>1, <1>2, <1>3
    <3>3. mem'[auth.dest + (k - 1)] = mem[auth.dest + (k - 1)]
      BY <3>2, <1>2, <1>4 DEF Untouched
    <3>4. mem[auth.dest + k - 1] = Stored(binary)[k]
      BY <1>1, <2>1, <2>3 DEF IInv, Short
    <3> QED
      BY <3>2, <3>3, <3>4
  <2>4. ASSUME splits # << >>, NEW a \in Room(NewAddr, binary)
        PROVE  mem'[a][1] # "signed"
    <3>1. mem[a][1] # "signed"
      BY <1>1, <2>1, <2>4 DEF IInv, Short
    <3>2. a \in Memory
      BY <1>2, RoomAssumption
    <3>3. pos > HEADER_SIZE
      BY <1>2 DEF IInv, Opened
    <3>4. ASSUME NEW k \in 1 .. n, a = at + k - 1
          PROVE  mem'[a][1] # "signed"
      <4>1. pos + k \in HEADER_SIZE + 1 .. StoredSize(binary)
        <5>1. /\ HEADER_SIZE \in Nat /\ pos \in Nat /\ n \in Nat
              /\ StoredSize(binary) \in Nat /\ pos + n <= StoredSize(binary)
          BY <1>2, <1>3, Sizes
        <5> QED
          BY <5>1, <3>3
      <4>2. Stored(binary)[pos + k][1] # "signed"
        BY <4>1, <1>2, StoredCells
      <4> QED
        BY <3>4, <4>2, <1>2
    <3> QED
      BY <3>1, <3>2, <3>4, <1>2
  <2> QED
    BY <1>1, <1>2, <1>5, <1>11, <2>1, <2>2, <2>3, <2>4 DEF Short
<1> QED
  BY <1>1, <1>6, <1>7, <1>8, <1>10, <1>12, <1>13, <1>14
     DEF IInv, Deciphering, VerifiedMeansIntact, IntactIsVerified


---------------------------------------------------------------------------
(* A block is digested.                                                    *)

HeaderOf(b, mode) ==
    [mode : {mode}, validation : {b.length + SIGNED_SECTION_LEN}, processed : Nat,
     size : {b.length}, fed : Seq(Cell)]

Rest(n, skip) == IF n > skip THEN n - skip ELSE 0

\* What a call of tegrabl_auth_subprocess does that has something to digest:
\* n cells at `buf' are, and the `rest' after `skip' of them go, deciphered, to `dst'.
Digests(m, b, mode, hd, buf, dst, n, skip, rest, sub) ==
    /\ sub.header \in HeaderOf(b, mode)
    /\ sub.header.processed = hd.processed + n
    /\ sub.header.processed = Len(sub.header.fed)
    /\ \A k \in 1 .. hd.processed : sub.header.fed[k] = hd.fed[k]
    /\ \A k \in 1 .. n : sub.header.fed[hd.processed + k] = m[buf + k - 1]
    /\ sub.mem \in [Memory -> Cell]
    /\ ~Deciphers(mode) => sub.mem = m
    /\ Deciphers(mode) =>
          \A j \in 1 .. rest :
             dst + j - 1 \in Memory => sub.mem[dst + j - 1] = Out(mode, m[buf + skip + j - 1])
    /\ \A a \in Memory : (\A j \in 1 .. rest : a # dst + j - 1) => sub.mem[a] = m[a]

\* tegrabl_auth_subprocess digests cells in order and deciphers those not signed.
LEMMA SubprocessDoes ==
    ASSUME NEW m \in [Memory -> Cell], NEW b \in Binaries, NEW mode, NEW hd \in HeaderOf(b, mode),
           hd.processed = Len(hd.fed),
           NEW buf \in Nat, NEW size \in Nat, NEW dst \in Nat,
           NEW n \in Nat \ {0}, n = Less(size, hd.validation - hd.processed),
           NEW skip \in Nat, NEW rest \in Nat, rest = Rest(n, skip),
           skip = IF hd.processed = 0 THEN SIGNED_SECTION_LEN ELSE 0,
           \A k \in 1 .. n : buf + k - 1 \in Memory,
           NEW sub, sub = Subprocess(m, hd, buf, size, dst)
    PROVE  Digests(m, b, mode, hd, buf, dst, n, skip, rest, sub)
<1> DEFINE read == Cells(m, buf, n)
           start == buf + skip
           body == Cells(m, start, rest)
           clear == Decrypt(body)
<1>1. /\ read \in Seq(Cell) /\ Len(read) = n
      /\ \A k \in 1 .. n : read[k] = m[buf + k - 1]
  <2>1. IsRead(m, buf, n, read)
    BY CellsAreRead
  <2> HIDE DEF read
  <2> QED
    BY <2>1 DEF IsRead
<1>2. /\ hd.fed \in Seq(Cell) /\ hd.processed \in Nat /\ hd.mode = mode
      /\ hd.validation = b.length + SIGNED_SECTION_LEN /\ hd.size = b.length
  BY DEF HeaderOf
<1>3. /\ sub.header = [hd EXCEPT !.processed = @ + n, !.fed = @ \o read]
      /\ sub.mem = IF Deciphers(mode) THEN Put(m, dst, clear) ELSE m
  <2>1. n # 0
    OBVIOUS
  <2>2. Cells(m, start, n - skip) = body
    <3>1. 1 .. (n - skip) = 1 .. rest
      BY DEF Rest
    <3> QED
      BY <3>1 DEF Cells
  <2> HIDE DEF start, body
  <2> QED
    BY <1>2, <2>1, <2>2 DEF Subprocess, clear, start
<1>4. /\ body \in Seq(Cell) /\ Len(body) = rest
      /\ \A j \in 1 .. rest : body[j] = m[buf + skip + j - 1]
  <2>1. rest \in Nat /\ start \in Nat
    OBVIOUS
  <2>2. ASSUME NEW j \in 1 .. rest
        PROVE  start + j - 1 \in Memory
    <3>1. skip + j \in 1 .. n /\ buf + (skip + j) - 1 = start + j - 1
      BY DEF Rest
    <3> QED
      BY <3>1
  <2> HIDE DEF start
  <2>3. /\ body \in Seq(Cell) /\ Len(body) = rest
        /\ \A j \in 1 .. rest : body[j] = m[start + j - 1]
    <3>1. IsRead(m, start, rest, body)
      BY <2>1, <2>2, CellsAreRead
    <3> HIDE DEF body
    <3> QED
      BY <3>1 DEF IsRead
  <2> QED
    BY <2>3 DEF start
<1> HIDE DEF read, body
<1>5. /\ clear \in Seq(Cell) /\ Len(clear) = rest
      /\ \A j \in 1 .. rest :
            clear[j] = << IF body[j][1] = "cipher" THEN "plain" ELSE "noise", body[j][2] >>
  BY <1>4, Decrypted
<1> HIDE DEF clear
<1>6. /\ Put(m, dst, clear) \in [Memory -> Cell]
      /\ \A j \in 1 .. Len(clear) :
            dst + j - 1 \in Memory => Put(m, dst, clear)[dst + j - 1] = clear[j]
      /\ \A a \in Memory :
            (\A j \in 1 .. Len(clear) : a # dst + j - 1) => Put(m, dst, clear)[a] = m[a]
  <2>1. IsPut(m, dst, clear, Put(m, dst, clear))
    BY <1>5, CellsArePut
  <2> QED
    BY <2>1 DEF IsPut
<1>7. Deciphers(mode) =>
         \A j \in 1 .. rest :
            dst + j - 1 \in Memory => sub.mem[dst + j - 1] = Out(mode, m[buf + skip + j - 1])
  <2> SUFFICES ASSUME Deciphers(mode), NEW j \in 1 .. rest, dst + j - 1 \in Memory
               PROVE  sub.mem[dst + j - 1] = Out(mode, m[buf + skip + j - 1])
    OBVIOUS
  <2>1. sub.mem[dst + j - 1] = clear[j]
    BY <1>3, <1>5, <1>6
  <2>2. Out(mode, body[j]) = clear[j]
    BY <1>5 DEF Out
  <2> QED
    BY <2>1, <2>2, <1>4
<1>8. /\ hd.fed \o read \in Seq(Cell) /\ Len(hd.fed \o read) = hd.processed + n
      /\ \A k \in 1 .. hd.processed : (hd.fed \o read)[k] = hd.fed[k]
      /\ \A k \in 1 .. n : (hd.fed \o read)[hd.processed + k] = read[k]
  <2>1. /\ hd.fed \o read \in Seq(Cell) /\ Len(hd.fed \o read) = Len(hd.fed) + Len(read)
        /\ \A k \in 1 .. Len(hd.fed) : (hd.fed \o read)[k] = hd.fed[k]
        /\ \A k \in 1 .. Len(read) : (hd.fed \o read)[Len(hd.fed) + k] = read[k]
    BY <1>1, <1>2, Joined, Zenon
  <2>2. Len(hd.fed) = hd.processed /\ Len(read) = n
    BY <1>1
  <2> QED
    BY <2>1, <2>2, Zenon
<1>9. /\ sub.header \in HeaderOf(b, mode)
      /\ sub.header.processed = hd.processed + n /\ sub.header.fed = hd.fed \o read
  <2>1. hd.fed \o read \in Seq(Cell) /\ hd.processed + n \in Nat
    BY <1>2, <1>8
  <2> DEFINE fed == hd.fed \o read
             processed == hd.processed + n
  <2>2. sub.header = [hd EXCEPT !.processed = processed, !.fed = fed]
    BY <1>2, <1>3 DEF HeaderOf
  <2> HIDE DEF fed, processed
  <2>3. /\ sub.header \in [mode : {mode}, validation : {b.length + SIGNED_SECTION_LEN},
                            processed : {processed}, size : {b.length}, fed : {fed}]
    BY <2>2 DEF HeaderOf
  <2>4. sub.header.processed = processed /\ sub.header.fed = fed
    BY <2>3
  <2>5. processed \in Nat /\ fed \in Seq(Cell)
    BY <2>1 DEF processed, fed
  <2> QED
    BY <2>3, <2>4, <2>5 DEF HeaderOf, processed, fed
<1>10. \A k \in 1 .. n : sub.header.fed[hd.processed + k] = m[buf + k - 1]
  BY <1>1, <1>8, <1>9
<1>11. /\ sub.header.processed = Len(sub.header.fed)
       /\ \A k \in 1 .. hd.processed : sub.header.fed[k] = hd.fed[k]
  BY <1>8, <1>9
<1>12. /\ sub.mem \in [Memory -> Cell]
       /\ ~Deciphers(mode) => sub.mem = m
  BY <1>3, <1>6
<1>13. \A a \in Memory : (\A j \in 1 .. rest : a # dst + j - 1) => sub.mem[a] = m[a]
  BY <1>3, <1>5, <1>6
<1> QED
  BY <1>7, <1>9, <1>10, <1>11, <1>12, <1>13 DEF Digests

\* The header of a binary, before anything is digested.
LEMMA NewHeaderType ==
    ASSUME Typed, binary \in Binaries
    PROVE  /\ NewHeader \in HeaderOf(binary, ModeWanted)
           /\ NewHeader.processed = 0 /\ NewHeader.fed = << >> /\ Len(NewHeader.fed) = 0
           /\ NewHeader.validation = binary.length + SIGNED_SECTION_LEN
           /\ NewHeader.size = binary.length
<1>1. HeaderMode = ModeWanted
  BY HeaderModeWanted
<1>2. << >> \in Seq(Cell) /\ Len(<< >>) = 0
  OBVIOUS
<1> QED
  BY <1>1, <1>2 DEF NewHeader, HeaderOf

\* What Opened says of the header, in short.
LEMMA OpenedHeader ==
    ASSUME IInv, headers # << >>
    PROVE  /\ Header \in HeaderOf(binary, ModeWanted) /\ headers = << Header >>
           /\ Header.processed = Len(Header.fed)
           /\ Header.mode = ModeWanted /\ Header.size = binary.length
           /\ Header.validation = binary.length + SIGNED_SECTION_LEN
  BY DEF IInv, Opened, HeaderOf


---------------------------------------------------------------------------
(* The first block.                                                        *)

\* What both kinds of a first block have in common.
LEMMA FirstBlock ==
    ASSUME IInv, Accepted
    PROVE  /\ phase = "block" /\ block.first /\ phase' = "open" /\ block' = NoBlock
           /\ headers = << >> /\ Bound /\ binary \in Binaries
           /\ binary.length \in Nat \ {0}
           /\ StoredSize(binary) = HEADER_SIZE + binary.length + 1 /\ StoredSize(binary) \in Nat
           /\ Needed = HEADER_SIZE + binary.length
           /\ binary.nvidia => binary.type \in NvidiaTypes
           /\ auth.dest = DestAddr /\ auth.processed = 0 /\ auth.safe = DestAddr
           /\ splits = << >> /\ Blank(NewAddr) /\ ~auth.short
           /\ block.size = pos /\ pos \in HEADER_SIZE + 1 .. StoredSize(binary)
           /\ block.at \in {DestAddr, Elsewhere} /\ block.at \in Nat
           /\ \A k \in 1 .. pos :
                 block.at + k - 1 \in Memory /\ mem[block.at + k - 1] = Stored(binary)[k]
           /\ caller = "payload" => pos >= Needed
           /\ block.at # auth.safe => Elsewhere = block.at
           /\ UNCHANGED << fuse, build, sbk, binary, table, caller, loaded, pos, result, splits,
                           fault, bounced >>
<1>1. /\ phase = "block" /\ block.first /\ phase' = "open" /\ block' = NoBlock
      /\ HeaderError = "none"
      /\ UNCHANGED << fuse, build, sbk, binary, table, caller, loaded, pos, result, splits,
                      fault, bounced >>
  BY DEF Accepted, Unconcerned
<1>2. /\ headers = << >> /\ Seen = 0 /\ Bound /\ binary \in Binaries
      /\ auth.dest = DestAddr /\ auth.processed = 0 /\ auth.safe = DestAddr
      /\ splits = << >> /\ Blank(NewAddr) /\ ~auth.short
      /\ block.size = pos /\ pos > HEADER_SIZE /\ block.at \in {DestAddr, Elsewhere}
  BY <1>1, HeaderFirst
<1>3. /\ binary.length \in Nat /\ StoredSize(binary) = HEADER_SIZE + binary.length + 1
      /\ StoredSize(binary) \in Nat
  BY <1>2, BinaryType
<1>4. binary.length # 0
  <2>1. ~(binary.length < ONE_KB)
    BY <1>1 DEF HeaderError
  <2>2. ONE_KB \in Nat \ {0}
    BY AuthAssumption DEF AuthAssumption
  <2> QED
    BY <1>3, <2>1, <2>2
<1>5. binary.nvidia => binary.type \in NvidiaTypes
  <2>1. HeaderMode \in AllowedModes
    BY <1>1 DEF HeaderError
  <2>2. binary.nvidia => HeaderMode = "NVIDIA_RSA"
    BY DEF HeaderMode
  <2> QED
    BY <2>1, <2>2 DEF AllowedModes
<1>6. pos \in HEADER_SIZE + 1 .. StoredSize(binary)
  <2>1. pos \in 0 .. StoredSize(binary)
    BY DEF IInv, Typed
  <2> QED
    BY <1>2, <1>3, <2>1, Sizes
<1>7. \A k \in 1 .. pos : mem[block.at + k - 1] = Stored(binary)[k]
  <2> SUFFICES ASSUME NEW k \in 1 .. pos
               PROVE  mem[block.at + k - 1] = Stored(binary)[k]
    OBVIOUS
  <2>1. mem[block.at + k - 1] = Stored(binary)[Seen + k]
    BY <1>1, <1>2 DEF IInv, Pending
  <2>2. Seen + k = k
    BY <1>2, <1>6
  <2> QED
    BY <2>1, <2>2
<1>8. block.at \in Nat
  BY <1>2, Places
<1>9. \A k \in 1 .. pos : block.at + k - 1 \in Memory
  <2> SUFFICES ASSUME NEW k \in 1 .. pos
               PROVE  block.at + k - 1 \in Memory
    OBVIOUS
  <2>1. k - 1 \in 0 .. StoredSize(binary) /\ block.at + (k - 1) = block.at + k - 1
    BY <1>3, <1>6, <1>8
  <2>2. block.at + (k - 1) \in Memory
    BY <1>2, <2>1, Rooms
  <2> QED
    BY <2>1, <2>2
<1>10. caller = "payload" => pos >= Needed
  BY <1>1 DEF IInv, Pending
<1> QED
  BY <1>1, <1>2, <1>3, <1>4, <1>5, <1>6, <1>7, <1>8, <1>9, <1>10 DEF Needed

\* And what is left to show of either.
LEMMA FirstBlockInvariance ==
    ASSUME IInv, Accepted,
           mem' \in [Memory -> Cell],
           \A j \in 0 .. StoredSize(binary) : mem'[NewAddr + j] = mem[NewAddr + j],
           NEW hd \in HeaderOf(binary, ModeWanted), headers' = << hd >>,
           hd.processed = Len(hd.fed), hd.processed <= binary.length + SIGNED_SECTION_LEN,
           NEW n \in 0 .. pos, NEW remaining \in Int, NEW short \in BOOLEAN,
           caller = "payload" => ~short,
           auth' = [auth EXCEPT !.oem = FALSE, !.size = binary.length, !.num = 1,
                                !.short = short, !.remaining = remaining,
                                !.processed = n, !.safe = auth.dest + n],
           Long', Short'
    PROVE  IInv'
<1>1. /\ phase = "block" /\ phase' = "open" /\ block' = NoBlock /\ Bound
      /\ binary \in Binaries /\ binary.length \in Nat \ {0}
      /\ StoredSize(binary) \in Nat
      /\ binary.nvidia => binary.type \in NvidiaTypes
      /\ auth.dest = DestAddr /\ auth.processed = 0 /\ splits = << >> /\ Blank(NewAddr)
      /\ pos \in HEADER_SIZE + 1 .. StoredSize(binary)
      /\ UNCHANGED << fuse, build, sbk, binary, table, caller, loaded, pos, result, splits,
                      fault, bounced >>
  BY FirstBlock
<1>2. auth \in Handles
  BY DEF IInv, Typed
<1>3. n \in Nat /\ DestAddr + n \in Nat /\ binary.length \in Nat
  BY <1>1, Sizes, Places
<1>4. /\ auth' \in Handles
      /\ auth'.dest = DestAddr /\ auth'.safe = DestAddr + n /\ auth'.processed = n
      /\ auth'.num = 1 /\ auth'.short = short /\ auth'.nvidia = auth.nvidia
  <2> DEFINE safe == auth.dest + n
  <2>1. safe \in Nat /\ safe = DestAddr + n /\ auth.dest = DestAddr
    BY <1>1, <1>3
  <2> HIDE DEF safe
  <2> DEFINE len == binary.length
             opened == [auth EXCEPT !.oem = FALSE, !.size = len, !.num = 1, !.short = short,
                                    !.remaining = remaining, !.processed = n, !.safe = safe]
  <2>2. auth' = opened
    BY DEF safe
  <2>3. len \in Nat
    BY <1>3
  <2> HIDE DEF len
  <2>4. /\ opened \in Handles
        /\ opened.dest = auth.dest /\ opened.safe = safe /\ opened.processed = n
        /\ opened.num = 1 /\ opened.short = short /\ opened.nvidia = auth.nvidia
    <3>1. n \in Nat
      BY <1>3
    <3> QED
      BY <1>2, <2>1, <2>3, <3>1 DEF Handles
  <2> HIDE DEF opened
  <2> QED
    BY <2>1, <2>2, <2>4
<1>5. Typed'
  <2>1. secureMode' \in {fuse, SecureModeAfter(fuse)}
    BY HeaderModeWanted DEF IInv, Accepted
  <2>2. contexts' \subseteq {"aes", "rsa", "ecc"}
    <3>1. ContextsOf(HeaderMode) \in Seq({"aes", "rsa", "ecc"})
      BY HeaderModeWanted, ModeKinds, ContextKinds DEF IInv
    <3>2. Range(ContextsOf(HeaderMode)) \subseteq {"aes", "rsa", "ecc"}
      BY <3>1, RangeIn
    <3> QED
      BY <3>2 DEF IInv, Typed, Accepted
  <2>3. NoBlock \in [at : Nat, size : Nat, first : BOOLEAN] /\ NoBlock.size <= pos
    BY <1>1, Sizes DEF NoBlock
  <2>4. SecureModeAfter(fuse)' = SecureModeAfter(fuse) /\ StoredSize(binary)' = StoredSize(binary)
    BY <1>1 DEF SecureModeAfter, StoredSize
  <2>5. auth'.processed <= pos' /\ auth'.safe = auth'.dest + auth'.processed
    BY <1>1, <1>4
  <2> HIDE DEF SecureModeAfter, StoredSize
  <2> QED
    BY <1>1, <1>4, <2>1, <2>2, <2>3, <2>4, <2>5 DEF IInv, Typed
<1>6. Binding' /\ Pending'
  BY <1>1, <1>4 DEF IInv, Binding, Pending, Bound
<1>7. headers' # << >> /\ Header' = hd /\ headers' = << Header' >>
  BY DEF Header
<1>8. Opened'
  <2>1. ModeWanted' = ModeWanted
    BY <1>1 DEF ModeWanted, SignType
  <2>2. Seen' = pos
    BY <1>1, Sizes DEF Seen, NoBlock
  <2>3. pos > HEADER_SIZE /\ binary.length > 0
    BY <1>1, Sizes
  <2>4. Blank(NewAddr)'
    <3> SUFFICES ASSUME NEW a \in Room(NewAddr, binary)
                 PROVE  mem'[a] = <<"old", 0>>
      BY <1>1 DEF Blank, Room, StoredSize
    <3>1. PICK j \in 0 .. StoredSize(binary) : a = NewAddr + j
      BY <1>1, RoomOf
    <3> QED
      BY <1>1, <3>1 DEF Blank
  <2>5. hd \in [mode : {ModeWanted}, validation : {binary.length + SIGNED_SECTION_LEN},
                         processed : Nat, size : {binary.length}, fed : Seq(Cell)]
    BY DEF HeaderOf
  <2> QED
    BY <1>1, <1>4, <1>7, <2>1, <2>2, <2>3, <2>4, <2>5 DEF Opened
<1> QED
  BY <1>1, <1>5, <1>6, <1>7, <1>8 DEF IInv, Unopened, Deciphering, VerifiedMeansIntact,
                                      IntactIsVerified


\* The first block of a short binary is collected, header and all.
LEMMA FirstOfShortInvariance ==
    ASSUME IInv, FirstOfShort
    PROVE  IInv'
<1>1. /\ Accepted /\ IsShort
      /\ mem' = Copy(mem, block.at, auth.safe, block.size)
      /\ headers' = <<NewHeader>>
      /\ auth' = [auth EXCEPT !.oem = FALSE, !.size = binary.length, !.num = 1, !.short = TRUE,
                      !.remaining = binary.length - (block.size - HEADER_SIZE),
                      !.processed = block.size, !.safe = auth.dest + block.size]
  BY DEF FirstOfShort
<1>2. /\ phase = "block" /\ phase' = "open" /\ block' = NoBlock /\ Bound /\ headers = << >>
      /\ binary \in Binaries /\ binary.length \in Nat \ {0}
      /\ StoredSize(binary) = HEADER_SIZE + binary.length + 1 /\ StoredSize(binary) \in Nat
      /\ Needed = HEADER_SIZE + binary.length
      /\ auth.dest = DestAddr /\ auth.safe = DestAddr /\ splits = << >> /\ Blank(NewAddr)
      /\ block.size = pos /\ pos \in HEADER_SIZE + 1 .. StoredSize(binary)
      /\ block.at \in Nat
      /\ \A k \in 1 .. pos :
            block.at + k - 1 \in Memory /\ mem[block.at + k - 1] = Stored(binary)[k]
      /\ caller = "payload" => pos >= Needed
      /\ UNCHANGED << fuse, build, sbk, binary, table, caller, loaded, pos, result, splits,
                      fault, bounced >>
  BY <1>1, FirstBlock
<1>3. /\ mem \in [Memory -> Cell] /\ auth \in Handles /\ pos \in Nat /\ Typed
      /\ DestAddr \in Nat
  BY <1>2, Sizes, Places DEF IInv, Typed
<1>4. /\ mem' \in [Memory -> Cell]
      /\ \A k \in 1 .. pos :
            DestAddr + k - 1 \in Memory => mem'[DestAddr + k - 1] = mem[block.at + k - 1]
      /\ \A a \in Memory : (\A k \in 1 .. pos : a # DestAddr + k - 1) => mem'[a] = mem[a]
  <2>1. mem' = Copy(mem, block.at, DestAddr, pos)
    BY <1>1, <1>2
  <2>2. \A k \in 1 .. pos : block.at + k - 1 \in Memory
    BY <1>2
  <2>3. block.at \in Nat
    BY <1>2
  <2>4. pos \in Nat /\ DestAddr \in Nat /\ mem \in [Memory -> Cell]
    BY <1>3
  <2>5. IsCopy(mem, block.at, DestAddr, pos, mem')
    BY <2>1, <2>2, <2>3, <2>4, CopyWrites
  <2> QED
    BY <2>5 DEF IsCopy
<1>5. ASSUME NEW k \in 1 .. pos
      PROVE  k - 1 \in 0 .. StoredSize(binary) /\ DestAddr + (k - 1) = DestAddr + k - 1
  BY <1>2, <1>3, Sizes
<1>6. \A k \in 1 .. pos : mem'[DestAddr + k - 1] = Stored(binary)[k]
  <2> SUFFICES ASSUME NEW k \in 1 .. pos
               PROVE  mem'[DestAddr + k - 1] = Stored(binary)[k]
    OBVIOUS
  <2>1. DestAddr + k - 1 \in Memory
    BY <1>2, <1>5, Rooms
  <2> QED
    BY <1>2, <1>4, <2>1
<1>7. \A j \in 0 .. StoredSize(binary) : mem'[NewAddr + j] = mem[NewAddr + j]
  <2> SUFFICES ASSUME NEW j \in 0 .. StoredSize(binary)
               PROVE  mem'[NewAddr + j] = mem[NewAddr + j]
    OBVIOUS
  <2>1. NewAddr + j \in Memory
    BY <1>2, Rooms
  <2>2. \A k \in 1 .. pos : NewAddr + j # DestAddr + k - 1
    BY <1>2, <1>5, Rooms
  <2> QED
    BY <1>4, <2>1, <2>2
<1>8. /\ NewHeader \in HeaderOf(binary, ModeWanted)
      /\ NewHeader.processed = 0 /\ NewHeader.fed = << >> /\ Len(NewHeader.fed) = 0
  BY <1>2, <1>3, NewHeaderType
<1> DEFINE remaining == binary.length - (pos - HEADER_SIZE)
<1>9. remaining \in Int /\ remaining = Needed - pos /\ pos < Needed /\ pos \in 0 .. pos
  <2>1. binary.length > pos - HEADER_SIZE
    BY <1>1, <1>2 DEF IsShort
  <2>2. /\ binary.length \in Nat /\ pos \in Nat /\ HEADER_SIZE \in Nat
        /\ Needed = HEADER_SIZE + binary.length
    BY <1>2, <1>3, Sizes
  <2> QED
    BY <2>1, <2>2
<1>10. ~(caller = "payload")
  BY <1>2, <1>3, <1>9, Sizes
<1>11. auth' = [auth EXCEPT !.oem = FALSE, !.size = binary.length, !.num = 1, !.short = TRUE,
                    !.remaining = remaining, !.processed = pos, !.safe = auth.dest + pos]
  BY <1>1, <1>2
<1> HIDE DEF remaining
<1>12. auth'.processed = pos /\ auth'.remaining = remaining /\ auth'.short /\ auth'.dest = DestAddr
  <2>1. auth.dest = DestAddr
    BY <1>2
  <2> QED
    BY <1>3, <1>11, <2>1 DEF Handles
<1>13. /\ Header' = NewHeader /\ headers' = << NewHeader >> /\ Seen' = pos /\ Moved' = 0
       /\ Needed' = Needed /\ Stored(binary)' = Stored(binary)
  <2>1. Header' = NewHeader /\ headers' = << NewHeader >>
    BY <1>1 DEF Header
  <2>2. Seen' = pos
    BY <1>2, <1>3 DEF Seen, NoBlock
  <2> QED
    BY <1>2, <2>1, <2>2 DEF Moved, Needed, Stored, Body, Encrypts
<1>14. Long'
  BY <1>12 DEF Long
<1>15. Short'
  <2>1. \A k \in 1 .. Seen' : mem'[auth'.dest + k - 1] = Stored(binary)'[k]
    BY <1>6, <1>12, <1>13
  <2>2. auth'.processed + Moved' = Seen' /\ auth'.remaining = Needed' - Seen' /\ Seen' < Needed'
    BY <1>3, <1>9, <1>12, <1>13
  <2>3. Header'.fed = << >> /\ splits' = << >>
    BY <1>2, <1>8, <1>13
  <2> QED
    BY <2>1, <2>2, <2>3 DEF Short
<1>16. NewHeader.processed = Len(NewHeader.fed)
       /\ NewHeader.processed <= binary.length + SIGNED_SECTION_LEN
  BY <1>2, <1>8, Sizes
<1> QED
  BY <1>1, <1>4, <1>7, <1>8, <1>9, <1>10, <1>11, <1>14, <1>15, <1>16, FirstBlockInvariance, Zenon


\* The first block of a long binary is digested from the signed section on, and
\* what follows of the binary goes to the destination.
LEMMA FirstOfLongWrites ==
    ASSUME IInv, FirstOfLong,
           NEW taken, taken = Less(block.size - HEADER_SIZE + SIGNED_SECTION_LEN,
                                   binary.length + SIGNED_SECTION_LEN),
           NEW n, n = taken - SIGNED_SECTION_LEN
    PROVE  /\ n \in Nat \ {0} /\ n = Less(pos - HEADER_SIZE, binary.length)
           /\ n <= binary.length /\ n <= pos - HEADER_SIZE
           /\ taken \in Nat /\ taken = SIGNED_SECTION_LEN + n
           /\ headers' = << Header' >> /\ Header' \in HeaderOf(binary, ModeWanted)
           /\ Header'.processed = taken /\ Header'.processed = Len(Header'.fed)
           /\ \A k \in 1 .. taken :
                 Header'.fed[k] = Stored(binary)[HEADER_SIZE - SIGNED_SECTION_LEN + k]
           /\ mem' \in [Memory -> Cell]
           /\ \A j \in 1 .. n :
                 mem'[DestAddr + j - 1] = Out(ModeWanted, Header'.fed[SIGNED_SECTION_LEN + j])
           /\ \A a \in Memory : (\A j \in 1 .. n : a # DestAddr + j - 1) => mem'[a] = mem[a]
<1> DEFINE start == block.at + HEADER_SIZE - SIGNED_SECTION_LEN
           size == block.size - HEADER_SIZE + SIGNED_SECTION_LEN
           sub == Subprocess(mem, NewHeader, start, size, auth.dest)
           after == start + SIGNED_SECTION_LEN
<1>1. /\ binary \in Binaries /\ binary.length \in Nat \ {0}
      /\ StoredSize(binary) = HEADER_SIZE + binary.length + 1
      /\ auth.dest = DestAddr /\ auth.safe = DestAddr
      /\ block.size = pos /\ pos \in HEADER_SIZE + 1 .. StoredSize(binary)
      /\ block.at \in Nat
      /\ \A k \in 1 .. pos :
            block.at + k - 1 \in Memory /\ mem[block.at + k - 1] = Stored(binary)[k]
  BY FirstBlock DEF FirstOfLong
<1>2. mem \in [Memory -> Cell] /\ DestAddr \in Nat /\ Typed
  BY Places DEF IInv, Typed
<1>3. /\ NewHeader \in HeaderOf(binary, ModeWanted)
      /\ NewHeader.processed = 0 /\ Len(NewHeader.fed) = 0
      /\ NewHeader.validation = binary.length + SIGNED_SECTION_LEN
  BY <1>1, <1>2, NewHeaderType
<1>4. /\ size = pos - HEADER_SIZE + SIGNED_SECTION_LEN /\ size \in Nat /\ start \in Nat
      /\ after = block.at + HEADER_SIZE /\ after \in Nat
  BY <1>1, Sizes
<1>5. taken = Less(size, binary.length + SIGNED_SECTION_LEN)
  OBVIOUS
<1>6. /\ taken \in Nat /\ taken <= size /\ taken > SIGNED_SECTION_LEN
      /\ taken <= binary.length + SIGNED_SECTION_LEN
      /\ n = Less(pos - HEADER_SIZE, binary.length)
  BY <1>1, <1>4, <1>5, Sizes DEF Less
<1>7. /\ n \in Nat /\ n > 0 /\ n <= binary.length /\ n <= pos - HEADER_SIZE
      /\ taken = SIGNED_SECTION_LEN + n
  BY <1>1, <1>4, <1>6, Sizes
<1>8. ASSUME NEW k \in 1 .. taken
      PROVE  /\ start + k - 1 \in Memory
             /\ mem[start + k - 1] = Stored(binary)[HEADER_SIZE - SIGNED_SECTION_LEN + k]
  <2> DEFINE i == HEADER_SIZE - SIGNED_SECTION_LEN + k
  <2>1. i \in 1 .. pos /\ block.at + i - 1 = start + k - 1
    BY <1>1, <1>4, <1>6, Sizes
  <2> HIDE DEF i, start
  <2>2. block.at + i - 1 \in Memory /\ mem[block.at + i - 1] = Stored(binary)[i]
    BY <1>1, <2>1
  <2>3. start + k - 1 \in Memory /\ mem[start + k - 1] = Stored(binary)[i]
    BY <2>1, <2>2
  <2> QED
    BY <2>3 DEF i
<1>9. /\ headers' = << sub.header >>
      /\ mem' = IF Deciphers(ModeWanted) THEN sub.mem ELSE Copy(sub.mem, after, DestAddr, n)
  <2>1. HeaderMode = ModeWanted
    BY <1>2, HeaderModeWanted
  <2>2. taken = Less(size, NewHeader.validation) /\ auth.safe = DestAddr
    BY <1>1, <1>3
  <2> QED
    BY <2>1, <2>2 DEF FirstOfLong
<1>10. sub = Subprocess(mem, NewHeader, start, size, DestAddr)
  BY <1>1
<1> HIDE DEF sub, start, size, after
<1> DEFINE skip == SIGNED_SECTION_LEN
<1>11. /\ taken \in Nat \ {0} /\ skip \in Nat /\ n \in Nat /\ n = Rest(taken, skip)
       /\ taken = Less(size, NewHeader.validation - NewHeader.processed)
       /\ skip = IF NewHeader.processed = 0 THEN SIGNED_SECTION_LEN ELSE 0
       /\ NewHeader.processed = Len(NewHeader.fed)
  <2>1. taken \in Nat \ {0} /\ skip \in Nat /\ n \in Nat /\ n = Rest(taken, skip)
    BY <1>6, <1>7, Sizes DEF Rest
  <2>2. NewHeader.validation - NewHeader.processed = binary.length + SIGNED_SECTION_LEN
    BY <1>1, <1>3, Sizes
  <2> QED
    BY <1>3, <1>5, <2>1, <2>2
<1> HIDE DEF skip
<1>12a. /\ mem \in [Memory -> Cell] /\ start \in Nat /\ size \in Nat /\ DestAddr \in Nat
        /\ \A k \in 1 .. taken : start + k - 1 \in Memory
        /\ binary \in Binaries /\ NewHeader \in HeaderOf(binary, ModeWanted)
  BY <1>1, <1>2, <1>3, <1>4, <1>8
<1>12. Digests(mem, binary, ModeWanted, NewHeader, start, DestAddr, taken, skip, n, sub)
  BY <1>10, <1>11, <1>12a, SubprocessDoes
<1>12c. /\ sub.header \in HeaderOf(binary, ModeWanted)
        /\ sub.header.processed = NewHeader.processed + taken
        /\ sub.header.processed = Len(sub.header.fed)
        /\ \A k \in 1 .. taken : sub.header.fed[NewHeader.processed + k] = mem[start + k - 1]
        /\ sub.mem \in [Memory -> Cell]
        /\ ~Deciphers(ModeWanted) => sub.mem = mem
        /\ Deciphers(ModeWanted) =>
              (\A j \in 1 .. n :
                 (DestAddr + j - 1 \in Memory) =>
                    sub.mem[DestAddr + j - 1]
                       = Out(ModeWanted, mem[start + skip + j - 1]))
        /\ \A a \in Memory :
              (\A j \in 1 .. n : a # DestAddr + j - 1)
                 => sub.mem[a] = mem[a]
  BY <1>12 DEF Digests
<1>12b. skip = SIGNED_SECTION_LEN
  BY DEF skip
<1>13. Header' = sub.header /\ headers' = << Header' >>
  BY <1>9 DEF Header
<1>14. \A k \in 1 .. taken :
          Header'.fed[k] = Stored(binary)[HEADER_SIZE - SIGNED_SECTION_LEN + k]
  <2> SUFFICES ASSUME NEW k \in 1 .. taken
               PROVE  sub.header.fed[k] = mem[start + k - 1]
    BY <1>8, <1>13
  <2>1. NewHeader.processed + k = k
    BY <1>3, <1>6
  <2>2. sub.header.fed[NewHeader.processed + k] = mem[start + k - 1]
    BY <1>12 DEF Digests
  <2> QED
    BY <2>1, <2>2
<1>15. ASSUME NEW j \in 1 .. n
       PROVE  /\ DestAddr + j - 1 \in Memory /\ after + j - 1 \in Memory
              /\ mem[after + j - 1] = Header'.fed[SIGNED_SECTION_LEN + j]
              /\ start + SIGNED_SECTION_LEN + j - 1 = after + j - 1
  <2>1. SIGNED_SECTION_LEN + j \in 1 .. taken
    BY <1>6, <1>7, Sizes
  <2>2. start + (SIGNED_SECTION_LEN + j) - 1 = after + j - 1
    BY <1>4, Sizes DEF after
  <2>3. j - 1 \in 0 .. StoredSize(binary) /\ DestAddr + (j - 1) = DestAddr + j - 1
    BY <1>1, <1>2, <1>7, Sizes
  <2>4. DestAddr + j - 1 \in Memory
    BY <1>1, <2>3, Rooms
  <2>5. start + SIGNED_SECTION_LEN + j - 1 = after + j - 1
    BY <1>4, Sizes DEF after
  <2> QED
    BY <1>8, <1>14, <2>1, <2>2, <2>4, <2>5
<1>16. /\ mem' \in [Memory -> Cell]
       /\ \A j \in 1 .. n :
             mem'[DestAddr + j - 1] = Out(ModeWanted, mem[after + j - 1])
       /\ \A a \in Memory : (\A j \in 1 .. n : a # DestAddr + j - 1) => mem'[a] = mem[a]
  <2>1. CASE Deciphers(ModeWanted)
    <3>1. mem' = sub.mem
      BY <2>1, <1>9
    <3>2. \A j \in 1 .. n : mem'[DestAddr + j - 1] = Out(ModeWanted, mem[after + j - 1])
      <4>1. \A j \in 1 .. n :
               DestAddr + j - 1 \in Memory =>
                  sub.mem[DestAddr + j - 1] = Out(ModeWanted, mem[start + skip + j - 1])
        BY <2>1, <1>12 DEF Digests
      <4>2. skip = SIGNED_SECTION_LEN
        BY DEF skip
      <4> QED
        BY <3>1, <4>1, <4>2, <1>15
    <3>3. /\ mem' \in [Memory -> Cell]
          /\ \A a \in Memory : (\A j \in 1 .. n : a # DestAddr + j - 1) => mem'[a] = mem[a]
      BY <3>1, <1>12 DEF Digests
    <3> QED
      BY <3>2, <3>3
  <2>2. CASE ~Deciphers(ModeWanted)
    <3>1. mem' = Copy(mem, after, DestAddr, n)
      <4>1. sub.mem = mem
        BY <2>2, <1>12 DEF Digests
      <4> QED
        BY <2>2, <4>1, <1>9
    <3>2. \A j \in 1 .. n : after + j - 1 \in Memory
      BY <1>15
    <3>3. n \in Nat
      BY <1>7
    <3>4. mem \in [Memory -> Cell] /\ after \in Nat /\ DestAddr \in Nat
      BY <1>2, <1>4
    <3>5. IsCopy(mem, after, DestAddr, n, mem')
      BY <3>1, <3>2, <3>3, <3>4, CopyWrites
    <3>6. \A j \in 1 .. n : mem'[DestAddr + j - 1] = mem[after + j - 1]
      BY <1>15, <3>5 DEF IsCopy
    <3> QED
      BY <2>2, <3>5, <3>6 DEF IsCopy, Out
  <2> QED
    BY <2>1, <2>2
<1>17. \A j \in 1 .. n :
          mem'[DestAddr + j - 1] = Out(ModeWanted, Header'.fed[SIGNED_SECTION_LEN + j])
  BY <1>15, <1>16
<1>18. Header'.processed = taken
  BY <1>3, <1>6, <1>12c, <1>13
<1> QED
  BY <1>6, <1>7, <1>12c, <1>13, <1>14, <1>16, <1>17, <1>18

\* The first block of a long binary is digested, and its cells put in place.
LEMMA FirstOfLongInvariance ==
    ASSUME IInv, FirstOfLong
    PROVE  IInv'
<1> DEFINE taken == Less(block.size - HEADER_SIZE + SIGNED_SECTION_LEN,
                         binary.length + SIGNED_SECTION_LEN)
           n == taken - SIGNED_SECTION_LEN
           remaining == (binary.length + SIGNED_SECTION_LEN) - taken
<1>1. /\ phase = "block" /\ phase' = "open" /\ block' = NoBlock /\ headers = << >>
      /\ binary \in Binaries /\ binary.length \in Nat \ {0}
      /\ StoredSize(binary) = HEADER_SIZE + binary.length + 1
      /\ Needed = HEADER_SIZE + binary.length
      /\ auth.dest = DestAddr /\ splits = << >> /\ ~auth.short
      /\ block.size = pos /\ pos \in HEADER_SIZE + 1 .. StoredSize(binary)
      /\ UNCHANGED << fuse, build, sbk, binary, table, caller, loaded, pos, result, splits,
                      fault, bounced >>
  BY FirstBlock DEF FirstOfLong
<1>2. /\ n \in Nat \ {0} /\ n = Less(pos - HEADER_SIZE, binary.length)
      /\ n <= binary.length /\ n <= pos - HEADER_SIZE
      /\ taken \in Nat /\ taken = SIGNED_SECTION_LEN + n
      /\ headers' = << Header' >> /\ Header' \in HeaderOf(binary, ModeWanted)
      /\ Header'.processed = taken /\ Header'.processed = Len(Header'.fed)
      /\ \A k \in 1 .. taken :
            Header'.fed[k] = Stored(binary)[HEADER_SIZE - SIGNED_SECTION_LEN + k]
      /\ mem' \in [Memory -> Cell]
      /\ \A j \in 1 .. n :
            mem'[DestAddr + j - 1] = Out(ModeWanted, Header'.fed[SIGNED_SECTION_LEN + j])
      /\ \A a \in Memory : (\A j \in 1 .. n : a # DestAddr + j - 1) => mem'[a] = mem[a]
  BY FirstOfLongWrites
<1>3. /\ pos \in Nat /\ Typed /\ auth \in Handles /\ DestAddr \in Nat
  BY <1>1, Sizes, Places DEF IInv, Typed
<1>4. auth' = [auth EXCEPT !.oem = FALSE, !.size = binary.length, !.num = 1,
                    !.remaining = remaining, !.processed = n, !.safe = auth.dest + n]
  <2>1. NewHeader.validation = binary.length + SIGNED_SECTION_LEN
    BY <1>1, <1>3, NewHeaderType
  <2> DEFINE Opening(v, m) ==
               [auth EXCEPT !.oem = FALSE, !.size = binary.length, !.num = 1,
                    !.remaining = v - m, !.processed = m - SIGNED_SECTION_LEN,
                    !.safe = auth.dest + (m - SIGNED_SECTION_LEN)]
             Begun(v) == Less(block.size - HEADER_SIZE + SIGNED_SECTION_LEN, v)
             v0 == binary.length + SIGNED_SECTION_LEN
  <2>2. auth' = Opening(NewHeader.validation, Begun(NewHeader.validation))
    BY Zenon DEF FirstOfLong
  <2>3. Begun(v0) = taken /\ NewHeader.validation = v0
    BY <2>1
  <2>4. Opening(v0, taken) =
            [auth EXCEPT !.oem = FALSE, !.size = binary.length, !.num = 1,
                    !.remaining = remaining, !.processed = n, !.safe = auth.dest + n]
    OBVIOUS
  <2> HIDE DEF Opening, Begun, taken, v0
  <2>5. auth' = Opening(v0, taken)
    BY <2>2, <2>3, Zenon
  <2> QED
    BY <2>4, <2>5, Zenon
<1> HIDE DEF taken, n
<1>5. remaining \in Int /\ n \in 0 .. pos
  <2>1. /\ binary.length \in Nat /\ SIGNED_SECTION_LEN \in Nat /\ taken \in Nat
    BY <1>1, <1>2, <1>3, Sizes
  <2>2. n \in Nat /\ n <= pos /\ pos \in Nat
    BY <1>1, <1>2, <1>3, Sizes
  <2> QED
    BY <2>1, <2>2
<1> HIDE DEF remaining
<1>6. auth' = [auth EXCEPT !.oem = FALSE, !.size = binary.length, !.num = 1, !.short = FALSE,
                    !.remaining = remaining, !.processed = n, !.safe = auth.dest + n]
  <2> DEFINE len == binary.length
             safe == auth.dest + n
  <2>1. auth' = [auth EXCEPT !.oem = FALSE, !.size = len, !.num = 1,
                      !.remaining = remaining, !.processed = n, !.safe = safe]
    BY <1>4
  <2> HIDE DEF len, safe
  <2>2. auth' = [auth EXCEPT !.oem = FALSE, !.size = len, !.num = 1, !.short = FALSE,
                      !.remaining = remaining, !.processed = n, !.safe = safe]
    <3>1. auth.short = FALSE
      BY <1>1, <1>3 DEF Handles
    <3> QED
      BY <1>3, <2>1, <3>1 DEF Handles
  <2> QED
    BY <2>2 DEF len, safe
<1>7. auth'.processed = n /\ ~auth'.short /\ auth'.dest = DestAddr
  <2>1. auth.dest = DestAddr
    BY <1>1
  <2> QED
    BY <1>3, <1>6, <2>1 DEF Handles
<1>8. /\ Seen' = pos /\ Moved' = 0 /\ Needed' = Needed /\ Stored(binary)' = Stored(binary)
      /\ Taken' = n
  <2>1. Seen' = pos
    BY <1>1, <1>3 DEF Seen, NoBlock
  <2> QED
    BY <1>1, <1>2, <2>1 DEF Moved, Needed, Stored, Body, Encrypts, Taken
<1>9. \A j \in 1 .. n : At(j)' = DestAddr + j - 1
  <2> SUFFICES ASSUME NEW j \in 1 .. n
               PROVE  At(j)' = DestAddr + j - 1
    OBVIOUS
  <2>1. j - 0 = j /\ ~(j <= 0)
    BY <1>2
  <2> QED
    BY <1>3, <1>7, <1>8, <2>1 DEF At
<1>10. n = pos - HEADER_SIZE \/ (n = binary.length /\ pos >= Needed)
  BY <1>1, <1>2, <1>3, Sizes DEF Less
<1>11. Header'.mode = ModeWanted
  BY <1>2 DEF HeaderOf
<1>12. Long'
  <2>1. \A k \in 1 .. SIGNED_SECTION_LEN + Taken' :
           Header'.fed[k] = Stored(binary)'[HEADER_SIZE - SIGNED_SECTION_LEN + k]
    BY <1>2, <1>8
  <2>2. \A i \in 1 .. Taken' :
           mem'[At(i)'] = Out(Header'.mode, Header'.fed[SIGNED_SECTION_LEN + i])
    BY <1>2, <1>8, <1>9, <1>11
  <2>3. /\ Header'.processed = SIGNED_SECTION_LEN + Taken' /\ Moved' <= Taken'
        /\ \/ auth'.processed + Moved' = Seen' - HEADER_SIZE
           \/ auth'.processed + Moved' = binary'.length /\ Seen' >= Needed'
    BY <1>1, <1>2, <1>7, <1>8, <1>10
  <2> QED
    BY <2>1, <2>2, <2>3 DEF Long, Out
<1>13. Short'
  BY <1>7 DEF Short
<1>14. \A j \in 0 .. StoredSize(binary) : mem'[NewAddr + j] = mem[NewAddr + j]
  <2> SUFFICES ASSUME NEW j \in 0 .. StoredSize(binary)
               PROVE  mem'[NewAddr + j] = mem[NewAddr + j]
    OBVIOUS
  <2>1. NewAddr + j \in Memory
    BY <1>1, Rooms
  <2>2. \A k \in 1 .. n : NewAddr + j # DestAddr + k - 1
    <3> SUFFICES ASSUME NEW k \in 1 .. n
                 PROVE  NewAddr + j # DestAddr + k - 1
      OBVIOUS
    <3>a. n \in Nat /\ binary.length \in Nat /\ n <= binary.length /\ DestAddr \in Nat
      BY <1>1, <1>2, <1>3
    <3>b. StoredSize(binary) = HEADER_SIZE + binary.length + 1
      BY <1>1
    <3>1. n \in Nat /\ StoredSize(binary) \in Nat /\ n <= StoredSize(binary) /\ DestAddr \in Nat
      BY <3>a, <3>b, Sizes
    <3>2. k - 1 \in 0 .. StoredSize(binary) /\ DestAddr + (k - 1) = DestAddr + k - 1
      BY <3>1
    <3> QED
      BY <1>1, <3>2, Rooms
  <2> QED
    BY <1>2, <2>1, <2>2
<1>15. Header'.processed <= binary.length + SIGNED_SECTION_LEN
  BY <1>1, <1>2, Sizes
<1>16. Accepted
  BY DEF FirstOfLong
<1> DEFINE hd == Header'
<1>17. /\ hd \in HeaderOf(binary, ModeWanted) /\ headers' = << hd >>
       /\ hd.processed = Len(hd.fed) /\ hd.processed <= binary.length + SIGNED_SECTION_LEN
       /\ mem' \in [Memory -> Cell]
  BY <1>2, <1>15
<1> HIDE DEF hd
<1>18. FALSE \in BOOLEAN /\ (caller = "payload" => ~FALSE)
  OBVIOUS
<1> QED
  BY <1>5, <1>6, <1>12, <1>13, <1>14, <1>16, <1>17, <1>18, FirstBlockInvariance, Zenon


---------------------------------------------------------------------------
(* A later block.                                                          *)

\* What holds when a later block is processed.
LEMMA LaterFacts ==
    ASSUME IInv, LaterBlock
    PROVE  /\ phase = "block" /\ phase' = "open" /\ block' = NoBlock
           /\ headers # << >> /\ Bound /\ binary \in Binaries /\ binary.length \in Nat \ {0}
           /\ StoredSize(binary) = HEADER_SIZE + binary.length + 1
           /\ Needed = HEADER_SIZE + binary.length
           /\ auth.dest \in {DestAddr, NewAddr} /\ auth.dest \in Nat
           /\ auth.safe = auth.dest + auth.processed /\ auth.processed \in Nat
           /\ auth.processed <= Seen /\ Moved \in Nat /\ auth \in Handles
           /\ Seen \in Nat /\ HEADER_SIZE < Seen /\ Seen < Needed
           /\ block.size \in Nat \ {0} /\ pos = Seen + block.size /\ pos <= StoredSize(binary)
           /\ block.at \in {auth.safe, Elsewhere} /\ block.at \in Nat
           /\ mem \in [Memory -> Cell]
           /\ UNCHANGED << fuse, build, sbk, secureMode, binary, table, caller, loaded, contexts,
                           pos, result, splits, fault, bounced >>
<1>1. /\ phase = "block" /\ ~block.first /\ phase' = "open" /\ block' = NoBlock
      /\ UNCHANGED << fuse, build, sbk, secureMode, binary, table, caller, loaded, contexts,
                      pos, result, splits, fault, bounced >>
  BY DEF LaterBlock, Unconcerned
<1>2. Bound /\ binary \in Binaries
  BY <1>1 DEF IInv, Binding, Bound
<1>3. /\ binary.length \in Nat /\ StoredSize(binary) = HEADER_SIZE + binary.length + 1
      /\ Needed = HEADER_SIZE + binary.length
  BY <1>2, BinaryType DEF Needed
<1>4. /\ auth \in Handles /\ mem \in [Memory -> Cell] /\ block.size \in Nat /\ block.at \in Nat
      /\ auth.safe = auth.dest + auth.processed /\ pos \in 0 .. StoredSize(binary)
  BY DEF IInv, Typed
<1>5. auth.dest \in Nat /\ auth.processed \in Nat
  BY <1>4 DEF Handles
<1>6. /\ block.size \in 1 .. pos /\ Seen # 0 /\ Seen < HEADER_SIZE + binary.length
      /\ block.at \in {auth.safe, Elsewhere}
  BY <1>1 DEF IInv, Pending
<1>7. headers # << >>
  BY <1>1, <1>2, <1>6 DEF IInv, Unopened
<1>8. /\ Seen > HEADER_SIZE /\ binary.length > 0
      /\ auth.dest \in {DestAddr, NewAddr}
      /\ Moved \in Nat
  BY <1>7 DEF IInv, Opened, Moved
<1>9. block.size \in Nat \ {0} /\ pos \in Nat /\ pos <= StoredSize(binary)
  BY <1>3, <1>4, <1>6, Sizes
<1>10. Seen \in Nat /\ pos = Seen + block.size
  BY <1>6, <1>9 DEF Seen
<1>11. auth.processed <= Seen
  <2>1. CASE auth.short
    <3>1. auth.processed + Moved = Seen
      BY <2>1, <1>1, <1>7 DEF IInv, Short
    <3> QED
      BY <3>1, <1>5, <1>8, <1>10
  <2>2. CASE ~auth.short
    <3>1. ~(Seen >= Needed)
      BY <1>3, <1>6, <1>10, Sizes
    <3>2. auth.processed + Moved = Seen - HEADER_SIZE
      BY <2>2, <3>1, <1>1, <1>7 DEF IInv, Long
    <3> QED
      BY <3>2, <1>5, <1>8, <1>10, Sizes
  <2> QED
    BY <2>1, <2>2
<1> QED
  BY <1>1, <1>2, <1>3, <1>4, <1>5, <1>6, <1>7, <1>8, <1>9, <1>10, <1>11

\* Where the block is, where it goes, and what it holds.
LEMMA LaterCells ==
    ASSUME IInv, LaterBlock, NEW k \in 1 .. block.size
    PROVE  /\ block.at + k - 1 \in Memory /\ mem[block.at + k - 1] = Stored(binary)[Seen + k]
           /\ Stored(binary)[Seen + k][1] # "signed"
           /\ auth.safe + k - 1 \in Memory
           /\ auth.processed + k - 1 \in 0 .. StoredSize(binary)
           /\ auth.safe + k - 1 = auth.dest + (auth.processed + k - 1)
           /\ k - 1 \in 0 .. StoredSize(binary) /\ Elsewhere + (k - 1) = Elsewhere + k - 1
<1>1. /\ binary \in Binaries /\ StoredSize(binary) = HEADER_SIZE + binary.length + 1
      /\ binary.length \in Nat
      /\ auth.dest \in {DestAddr, NewAddr} /\ auth.dest \in Nat
      /\ auth.safe = auth.dest + auth.processed /\ auth.processed \in Nat
      /\ auth.processed <= Seen /\ Seen \in Nat /\ HEADER_SIZE < Seen
      /\ block.size \in Nat \ {0} /\ pos = Seen + block.size /\ pos <= StoredSize(binary)
      /\ block.at \in {auth.safe, Elsewhere}
  BY LaterFacts
<1>2. mem[block.at + k - 1] = Stored(binary)[Seen + k]
  BY LaterFacts DEF IInv, Pending
<1>3. Stored(binary)[Seen + k][1] # "signed"
  <2>1. Seen + k \in HEADER_SIZE + 1 .. StoredSize(binary)
    BY <1>1, Sizes
  <2> QED
    BY <1>1, <2>1, StoredCells
<1>4. /\ auth.processed + k - 1 \in 0 .. StoredSize(binary)
      /\ auth.safe + k - 1 = auth.dest + (auth.processed + k - 1)
      /\ k - 1 \in 0 .. StoredSize(binary)
      /\ Elsewhere + (k - 1) = Elsewhere + k - 1
  BY <1>1, Sizes, Places
<1>5. auth.safe + k - 1 \in Memory
  <2> DEFINE j == auth.processed + k - 1
  <2>1. j \in 0 .. StoredSize(binary) /\ auth.safe + k - 1 = auth.dest + j
    BY <1>4
  <2> HIDE DEF j
  <2>2. auth.dest + j \in Memory
    BY <1>1, <2>1, Rooms
  <2> QED
    BY <2>1, <2>2
<1>6. block.at + k - 1 \in Memory
  <2>1. CASE block.at = Elsewhere
    <3>1. Elsewhere + (k - 1) \in Memory
      BY <1>1, <1>4, Rooms
    <3> QED
      BY <2>1, <3>1, <1>4
  <2>2. CASE block.at = auth.safe
    BY <2>2, <1>5
  <2> QED
    BY <2>1, <2>2, <1>1
<1> QED
  BY <1>2, <1>3, <1>4, <1>5, <1>6

\* What the copy of a block does: it is at the safe address then, unless the mode
\* is Nvidia's and it was elsewhere.
LEMMA CollectedDoes ==
    ASSUME IInv, LaterBlock
    PROVE  /\ Collected \in [Memory -> Cell]
           /\ \A k \in 1 .. block.size : Collected[block.at + k - 1] = Stored(binary)[Seen + k]
           /\ block.at = auth.safe \/ ModeWanted # "NVIDIA_RSA" =>
                 \A k \in 1 .. block.size :
                    Collected[auth.safe + k - 1] = Stored(binary)[Seen + k]
           /\ \A a \in Memory :
                 (\A k \in 1 .. block.size : a # auth.safe + k - 1) => Collected[a] = mem[a]
           /\ \A a \in Memory : Collected[a] = mem[a] \/ Collected[a][1] # "signed"
<1>1. /\ binary \in Binaries /\ auth.dest \in {DestAddr, NewAddr} /\ auth.dest \in Nat
      /\ auth.safe = auth.dest + auth.processed /\ auth.processed \in Nat
      /\ block.size \in Nat /\ block.at \in {auth.safe, Elsewhere} /\ block.at \in Nat
      /\ mem \in [Memory -> Cell] /\ headers # << >>
  BY LaterFacts
<1>2. \A k \in 1 .. block.size :
         /\ block.at + k - 1 \in Memory /\ mem[block.at + k - 1] = Stored(binary)[Seen + k]
         /\ Stored(binary)[Seen + k][1] # "signed"
         /\ auth.safe + k - 1 \in Memory
  BY LaterCells
<1>3. headers[1].mode = ModeWanted
  BY <1>1, OpenedHeader DEF Header
<1>4. CASE auth.safe = block.at \/ ModeWanted = "NVIDIA_RSA"
  <2>1. Collected = mem
    BY <1>3, <1>4 DEF Collected
  <2>2. block.at = auth.safe \/ ModeWanted # "NVIDIA_RSA" => block.at = auth.safe
    BY <1>4
  <2> QED
    BY <1>1, <1>2, <2>1, <2>2
<1>5. CASE auth.safe # block.at /\ ModeWanted # "NVIDIA_RSA"
  <2>1. Collected = Copy(mem, block.at, auth.safe, block.size)
    BY <1>3, <1>5 DEF Collected
  <2>2. auth.safe \in Nat /\ \A k \in 1 .. block.size : block.at + k - 1 \in Memory
    BY <1>1, <1>2
  <2>3. block.at \in Nat /\ block.size \in Nat /\ mem \in [Memory -> Cell]
    BY <1>1
  <2>4. IsCopy(mem, block.at, auth.safe, block.size, Collected)
    BY <2>1, <2>2, <2>3, CopyWrites
  <2>5. ASSUME NEW k \in 1 .. block.size
        PROVE  Collected[block.at + k - 1] = mem[block.at + k - 1]
    <3>1. block.at = Elsewhere
      BY <1>1, <1>5
    <3>2. ASSUME NEW j \in 1 .. block.size
          PROVE  block.at + k - 1 # auth.safe + j - 1
      <4>1. /\ k - 1 \in 0 .. StoredSize(binary) /\ Elsewhere + (k - 1) = Elsewhere + k - 1
        BY LaterCells
      <4>2. /\ auth.processed + j - 1 \in 0 .. StoredSize(binary)
            /\ auth.safe + j - 1 = auth.dest + (auth.processed + j - 1)
        BY LaterCells
      <4>3. auth.dest + (auth.processed + j - 1) # Elsewhere + (k - 1)
        BY <4>1, <4>2, <1>1, Rooms
      <4> QED
        BY <3>1, <4>1, <4>2, <4>3
    <3>3. block.at + k - 1 \in Memory
      BY <1>2
    <3> QED
      BY <2>4, <3>2, <3>3 DEF IsCopy
  <2>6. \A k \in 1 .. block.size : Collected[auth.safe + k - 1] = Stored(binary)[Seen + k]
    BY <1>2, <2>4 DEF IsCopy
  <2>7. /\ Collected \in [Memory -> Cell]
        /\ \A a \in Memory :
              (\A k \in 1 .. block.size : a # auth.safe + k - 1) => Collected[a] = mem[a]
    BY <2>4 DEF IsCopy
  <2>8. \A a \in Memory : Collected[a] = mem[a] \/ Collected[a][1] # "signed"
    BY <1>2, <2>6, <2>7
  <2>9. \A k \in 1 .. block.size : Collected[block.at + k - 1] = Stored(binary)[Seen + k]
    BY <1>2, <2>5
  <2> QED
    BY <2>6, <2>7, <2>8, <2>9
<1> QED
  BY <1>4, <1>5

\* A collectable binary is collected in place.
LEMMA CollectedWhole ==
    ASSUME IInv, LaterBlock, auth.short
    PROVE  /\ Header.fed = << >> /\ Header.processed = 0
           /\ auth.remaining = Needed - Seen /\ auth.processed + Moved = Seen
           /\ Collectable =>
                 \A k \in 1 .. pos : Collected[auth.dest + k - 1] = Stored(binary)[k]
           /\ splits # << >> =>
                 \A a \in Room(NewAddr, binary) : Collected[a][1] # "signed"
<1>1. /\ phase = "block" /\ headers # << >> /\ binary \in Binaries
      /\ auth.dest \in {DestAddr, NewAddr} /\ auth.dest \in Nat
      /\ auth.safe = auth.dest + auth.processed /\ auth.processed \in Nat
      /\ Seen \in Nat /\ Seen < Needed /\ Needed = HEADER_SIZE + binary.length
      /\ binary.length \in Nat
      /\ block.size \in Nat \ {0} /\ pos = Seen + block.size /\ pos <= StoredSize(binary)
      /\ StoredSize(binary) = HEADER_SIZE + binary.length + 1
      /\ block.at \in {auth.safe, Elsewhere}
  BY LaterFacts
<1>2. Header.fed = << >> /\ auth.remaining = Needed - Seen /\ auth.processed + Moved = Seen
  <2>1. ~(Seen >= Needed)
    BY <1>1, Sizes
  <2> QED
    BY <1>1, <2>1 DEF IInv, Short
<1>3. Header.processed = 0
  BY <1>1, <1>2, OpenedHeader
<1>4. ASSUME Collectable, NEW k \in 1 .. pos
      PROVE  Collected[auth.dest + k - 1] = Stored(binary)[k]
  <2>1. auth.processed = Seen
    BY <1>1, <1>2, <1>4 DEF Collectable, Moved
  <2>2. CASE k <= Seen
    <3>1. mem[auth.dest + k - 1] = Stored(binary)[k]
      <4>1. k \in 1 .. Seen
        BY <2>2, <1>1
      <4> QED
        BY <4>1, <1>1, <1>2, <1>4 DEF IInv, Short
    <3>2. auth.dest + k - 1 \in Memory
      <4>1. k - 1 \in 0 .. StoredSize(binary) /\ auth.dest + (k - 1) = auth.dest + k - 1
        BY <1>1, Sizes
      <4> QED
        BY <1>1, <4>1, Rooms
    <3>3. \A i \in 1 .. block.size : auth.dest + k - 1 # auth.safe + i - 1
      BY <2>1, <2>2, <1>1
    <3> QED
      BY <3>1, <3>2, <3>3, CollectedDoes
  <2>3. CASE k > Seen
    <3>1. PICK i \in 1 .. block.size : k = Seen + i
      <4>1. k - Seen \in 1 .. block.size /\ k = Seen + (k - Seen)
        BY <2>3, <1>1
      <4> QED
        BY <4>1
    <3>2. block.at = auth.safe \/ ModeWanted # "NVIDIA_RSA"
      <4>1. CASE binary.nvidia
        <5>1. ~bounced /\ Seen > 0
          BY <4>1, <1>1, <1>4, LaterFacts, Sizes DEF Collectable
        <5> QED
          BY <5>1, <1>1 DEF IInv, Pending
      <4>2. CASE ~binary.nvidia
        <5>1. fuse \in SecureModes
          BY DEF IInv, Typed
        <5> QED
          BY <4>2, <5>1 DEF ModeWanted, SignType, SecureModes
      <4> QED
        BY <4>1, <4>2
    <3>3. Collected[auth.safe + i - 1] = Stored(binary)[Seen + i]
      BY <3>2, CollectedDoes
    <3>4. auth.safe + i - 1 = auth.dest + k - 1
      BY <2>1, <3>1, <1>1
    <3> QED
      BY <3>1, <3>3, <3>4
  <2> QED
    BY <2>2, <2>3, <1>1
<1>5. ASSUME splits # << >>, NEW a \in Room(NewAddr, binary)
      PROVE  Collected[a][1] # "signed"
  <2>1. mem[a][1] # "signed"
    BY <1>1, <1>2, <1>5 DEF IInv, Short
  <2>2. a \in Memory
    BY <1>1, RoomAssumption
  <2> QED
    BY <2>1, <2>2, CollectedDoes
<1> QED
  BY <1>2, <1>3, <1>4, <1>5


\* What a later block leaves to show.
LEMMA LaterBlockInvariance ==
    ASSUME IInv, LaterBlock,
           mem' \in [Memory -> Cell],
           auth.dest = DestAddr =>
              \A j \in 0 .. StoredSize(binary) : mem'[NewAddr + j] = mem[NewAddr + j],
           NEW hd \in HeaderOf(binary, ModeWanted), headers' = << hd >>,
           hd.processed = Len(hd.fed), hd.processed <= binary.length + SIGNED_SECTION_LEN,
           Long', Short'
    PROVE  IInv'
<1>1. /\ phase = "block" /\ phase' = "open" /\ block' = NoBlock
      /\ headers # << >> /\ Bound /\ binary \in Binaries /\ binary.length \in Nat \ {0}
      /\ auth.safe = auth.dest + auth.processed /\ auth.processed \in Nat
      /\ auth.processed <= Seen /\ auth \in Handles /\ auth.dest \in Nat
      /\ Seen \in Nat /\ HEADER_SIZE < Seen
      /\ block.size \in Nat \ {0} /\ pos = Seen + block.size
      /\ UNCHANGED << fuse, build, sbk, secureMode, binary, table, caller, loaded, contexts,
                      pos, result, splits, fault, bounced >>
  BY LaterFacts
<1>2. /\ auth' \in Handles
      /\ auth'.dest = auth.dest /\ auth'.num = auth.num /\ auth'.short = auth.short
      /\ auth'.nvidia = auth.nvidia
      /\ auth'.processed <= pos' /\ auth'.safe = auth'.dest + auth'.processed
  <2> DEFINE remaining == auth.remaining - block.size
             processed == auth.processed + block.size
             safe == auth.dest + auth.processed + block.size
  <2>1. auth' = [auth EXCEPT !.remaining = remaining, !.processed = processed, !.safe = safe]
    BY <1>1 DEF LaterBlock, Handles
  <2>2. /\ remaining \in Int /\ processed \in Nat /\ safe \in Nat
        /\ safe = auth.dest + processed /\ processed <= pos
    <3>1. auth.remaining \in Int
      BY <1>1 DEF Handles
    <3>2. /\ auth.processed \in Nat /\ auth.dest \in Nat /\ block.size \in Nat /\ Seen \in Nat
          /\ auth.processed <= Seen /\ pos = Seen + block.size
      BY <1>1
    <3>0. \A r \in Int, p, d, b, s \in Nat :
             /\ r - b \in Int /\ p + b \in Nat /\ d + p + b \in Nat
             /\ d + p + b = d + (p + b) /\ p <= s => p + b <= s + b
      OBVIOUS
    <3>3. remaining \in Int
      BY <3>0, <3>1, <3>2
    <3>4. processed \in Nat /\ processed <= pos
      BY <3>0, <3>1, <3>2
    <3>5. safe \in Nat /\ safe = auth.dest + processed
      <4>1. \A d, p, b \in Nat : d + p + b \in Nat /\ d + p + b = d + (p + b)
        OBVIOUS
      <4>2. auth.dest \in Nat /\ auth.processed \in Nat /\ block.size \in Nat
        BY <3>2
      <4> QED
        BY <4>1, <4>2, Zenon
    <3> QED
      BY <3>3, <3>4, <3>5
  <2> HIDE DEF remaining, processed, safe
  <2>3. /\ auth' \in Handles
        /\ auth'.dest = auth.dest /\ auth'.num = auth.num /\ auth'.short = auth.short
        /\ auth'.nvidia = auth.nvidia /\ auth'.processed = processed /\ auth'.safe = safe
    BY <1>1, <2>1, <2>2 DEF Handles
  <2> QED
    BY <1>1, <2>2, <2>3
<1>3. Typed'
  <2>1. NoBlock \in [at : Nat, size : Nat, first : BOOLEAN] /\ NoBlock.size <= pos
    BY <1>1 DEF NoBlock
  <2>2. SecureModeAfter(fuse)' = SecureModeAfter(fuse) /\ StoredSize(binary)' = StoredSize(binary)
    BY <1>1 DEF SecureModeAfter, StoredSize
  <2> HIDE DEF SecureModeAfter, StoredSize
  <2> QED
    BY <1>1, <1>2, <2>1, <2>2 DEF IInv, Typed
<1>4. Binding' /\ Pending'
  BY <1>1, <1>2 DEF IInv, Binding, Pending, Bound
<1>5. headers' # << >> /\ Header' = hd /\ headers' = << Header' >>
  BY DEF Header
<1>6. Opened'
  <2>1. ModeWanted' = ModeWanted /\ Moved' = Moved
    BY <1>1 DEF ModeWanted, SignType, Moved
  <2>2. Seen' > HEADER_SIZE
    BY <1>1, Sizes DEF Seen, NoBlock
  <2>3. auth.dest = DestAddr /\ Blank(NewAddr) => Blank(NewAddr)'
    <3> SUFFICES ASSUME auth.dest = DestAddr, Blank(NewAddr), NEW a \in Room(NewAddr, binary)
                 PROVE  mem'[a] = <<"old", 0>>
      BY <1>1 DEF Blank, Room, StoredSize
    <3>1. PICK j \in 0 .. StoredSize(binary) : a = NewAddr + j
      BY <1>1, RoomOf
    <3> QED
      BY <3>1 DEF Blank
  <2>4. hd \in [mode : {ModeWanted}, validation : {binary.length + SIGNED_SECTION_LEN},
                processed : Nat, size : {binary.length}, fed : Seq(Cell)]
    BY DEF HeaderOf
  <2>5. /\ auth.num = 1
        /\ binary.nvidia => binary.type \in NvidiaTypes
        /\ binary.length > 0
        /\ (auth.dest = DestAddr /\ splits = << >> /\ Blank(NewAddr)) \/ auth.dest = NewAddr
        /\ splits # << >> => splits = << [at |-> DestAddr, n |-> Moved] >> /\ Moved \in Nat
        /\ caller = "payload" => auth.dest = DestAddr /\ ~auth.short
    BY <1>1 DEF IInv, Opened
  <2> QED
    BY <1>1, <1>2, <1>5, <2>1, <2>2, <2>3, <2>4, <2>5 DEF Opened
<1> QED
  BY <1>1, <1>3, <1>4, <1>5, <1>6 DEF IInv, Unopened, Deciphering, VerifiedMeansIntact,
                                      IntactIsVerified

\* The numbers of the handle after a block.
LEMMA LaterHandle ==
    ASSUME IInv, LaterBlock
    PROVE  /\ auth'.dest = auth.dest /\ auth'.short = auth.short
           /\ auth'.processed = auth.processed + block.size
           /\ auth'.remaining = auth.remaining - block.size
           /\ Seen' = pos /\ Moved' = Moved /\ Needed' = Needed
           /\ Stored(binary)' = Stored(binary) /\ SignedCells(binary)' = SignedCells(binary)
           /\ Room(NewAddr, binary)' = Room(NewAddr, binary)
<1>1. /\ auth \in Handles /\ pos \in Nat
      /\ block' = NoBlock /\ UNCHANGED << fuse, binary, pos, splits >>
  <2>1. Seen \in Nat /\ block.size \in Nat \ {0} /\ pos = Seen + block.size
    BY LaterFacts
  <2> QED
    BY <2>1, LaterFacts
<1>2. Seen' = pos
  BY <1>1 DEF Seen, NoBlock
<1>3. /\ auth'.dest = auth.dest /\ auth'.short = auth.short
      /\ auth'.processed = auth.processed + block.size
      /\ auth'.remaining = auth.remaining - block.size
  BY <1>1 DEF LaterBlock, Handles
<1> QED
  BY <1>1, <1>2, <1>3 DEF Moved, Needed, Stored, SignedCells, Body, Encrypts, Room, StoredSize

\* A later block of a short binary that is not complete.
LEMMA MoreOfShortInvariance ==
    ASSUME IInv, MoreOfShort
    PROVE  IInv'
<1>1. /\ LaterBlock /\ auth.short /\ auth.remaining > block.size /\ mem' = Collected
      /\ headers' = headers
  BY DEF MoreOfShort
<1>2. /\ headers # << >> /\ binary \in Binaries /\ binary.length \in Nat
      /\ auth.dest \in {DestAddr, NewAddr} /\ auth.dest \in Nat
      /\ Seen \in Nat /\ Needed = HEADER_SIZE + binary.length /\ Moved \in Nat
      /\ block.size \in Nat \ {0} /\ pos = Seen + block.size
      /\ UNCHANGED << splits, bounced, binary >>
  BY <1>1, LaterFacts
<1>3. /\ Header.fed = << >> /\ auth.remaining = Needed - Seen /\ auth.processed + Moved = Seen
      /\ Collectable => \A k \in 1 .. pos : Collected[auth.dest + k - 1] = Stored(binary)[k]
      /\ splits # << >> => \A a \in Room(NewAddr, binary) : Collected[a][1] # "signed"
  BY <1>1, CollectedWhole
<1>4. /\ auth'.dest = auth.dest /\ auth'.short = auth.short
      /\ auth'.processed = auth.processed + block.size
      /\ auth'.remaining = auth.remaining - block.size
      /\ Seen' = pos /\ Moved' = Moved /\ Needed' = Needed
      /\ Stored(binary)' = Stored(binary) /\ Room(NewAddr, binary)' = Room(NewAddr, binary)
  BY <1>1, LaterHandle
<1>5. Header' = Header /\ headers' = << Header >>
  BY <1>1, <1>2, OpenedHeader DEF Header
<1>6. Long'
  BY <1>1, <1>4 DEF Long
<1>7. Short'
  <2>1. auth'.remaining = Needed' - Seen' /\ auth'.processed + Moved' = Seen' /\ Seen' < Needed'
    <3>1. auth.processed \in Nat
      BY <1>1, LaterFacts
    <3>2. Needed \in Nat
      BY <1>2, Sizes
    <3>3. Needed - Seen > block.size
      BY <1>1, <1>3
    <3>4. (Needed - Seen) - block.size = Needed - pos /\ pos < Needed
      BY <1>2, <3>2, <3>3
    <3>5. (auth.processed + block.size) + Moved = pos
      BY <1>2, <1>3, <3>1
    <3> QED
      BY <1>3, <1>4, <3>4, <3>5
  <2>2. Collectable' = Collectable
    BY <1>2 DEF Collectable
  <2>3. Collectable' =>
           \A k \in 1 .. Seen' : mem'[auth'.dest + k - 1] = Stored(binary)'[k]
    BY <1>1, <1>3, <1>4, <2>2
  <2>4. splits' # << >> => \A a \in Room(NewAddr, binary)' : mem'[a][1] # "signed"
    BY <1>1, <1>2, <1>3, <1>4
  <2> QED
    BY <1>3, <1>5, <2>1, <2>3, <2>4 DEF Short
<1>8. auth.dest = DestAddr =>
         \A j \in 0 .. StoredSize(binary) : mem'[NewAddr + j] = mem[NewAddr + j]
  <2> SUFFICES ASSUME auth.dest = DestAddr, NEW j \in 0 .. StoredSize(binary)
               PROVE  Collected[NewAddr + j] = mem[NewAddr + j]
    BY <1>1
  <2>1. \A k \in 1 .. block.size : NewAddr + j # auth.safe + k - 1
    <3> SUFFICES ASSUME NEW k \in 1 .. block.size
                 PROVE  NewAddr + j # auth.safe + k - 1
      OBVIOUS
    <3>1. /\ auth.processed + k - 1 \in 0 .. StoredSize(binary)
          /\ auth.safe + k - 1 = auth.dest + (auth.processed + k - 1)
      BY <1>1, LaterCells
    <3> QED
      BY <3>1, <1>2, Rooms
  <2>2. NewAddr + j \in Memory
    BY <1>2, Rooms
  <2> QED
    BY <2>1, <2>2, <1>1, CollectedDoes
<1>9. /\ Header \in HeaderOf(binary, ModeWanted) /\ Header.processed = Len(Header.fed)
      /\ Header.processed <= binary.length + SIGNED_SECTION_LEN
  BY <1>2, OpenedHeader DEF IInv, Opened
<1>10. mem' \in [Memory -> Cell]
  BY <1>1, CollectedDoes
<1> DEFINE hd == Header
<1>11. /\ hd \in HeaderOf(binary, ModeWanted) /\ hd.processed = Len(hd.fed)
       /\ hd.processed <= binary.length + SIGNED_SECTION_LEN /\ headers' = << hd >>
  BY <1>5, <1>9
<1> HIDE DEF hd
<1> QED
  BY <1>1, <1>6, <1>7, <1>8, <1>10, <1>11, LaterBlockInvariance, Zenon


\* A later block of a long binary.
LEMMA LaterOfLongWrites ==
    ASSUME IInv, LaterOfLong,
           NEW n, n = Less(block.size, binary.length - Taken)
    PROVE  /\ Taken \in Nat /\ Taken = Seen - HEADER_SIZE
           /\ n \in Nat \ {0} /\ Taken + n <= binary.length
           /\ Taken + n = Less(pos - HEADER_SIZE, binary.length)
           /\ headers' = << Header' >> /\ Header' \in HeaderOf(binary, ModeWanted)
           /\ Header'.processed = (SIGNED_SECTION_LEN + Taken) + n
           /\ Header'.processed = Len(Header'.fed)
           /\ \A k \in 1 .. SIGNED_SECTION_LEN + Taken : Header'.fed[k] = Header.fed[k]
           /\ \A j \in 1 .. n :
                 Header'.fed[(SIGNED_SECTION_LEN + Taken) + j] = Stored(binary)[Seen + j]
           /\ mem' \in [Memory -> Cell]
           /\ \A j \in 1 .. n :
                 mem'[auth.safe + j - 1]
                    = Out(ModeWanted, Header'.fed[(SIGNED_SECTION_LEN + Taken) + j])
           /\ \A a \in Memory : (\A k \in 1 .. block.size : a # auth.safe + k - 1)
                                   => mem'[a] = mem[a]
<1> DEFINE sub == Subprocess(Collected, headers[1], block.at, block.size, auth.safe)
           done == SIGNED_SECTION_LEN + Taken
<1>1. LaterBlock /\ ~auth.short /\ headers' = << sub.header >> /\ mem' = sub.mem
  BY DEF LaterOfLong
<1>2. /\ phase = "block" /\ headers # << >> /\ binary \in Binaries /\ binary.length \in Nat
      /\ Needed = HEADER_SIZE + binary.length
      /\ auth.dest \in {DestAddr, NewAddr} /\ auth.dest \in Nat
      /\ auth.safe = auth.dest + auth.processed /\ auth.processed \in Nat
      /\ Seen \in Nat /\ HEADER_SIZE < Seen /\ Seen < Needed
      /\ block.size \in Nat \ {0} /\ pos = Seen + block.size
      /\ block.at \in Nat
  BY <1>1, LaterFacts
<1>3. /\ Header \in HeaderOf(binary, ModeWanted) /\ Header.processed = Len(Header.fed)
      /\ Header.validation = binary.length + SIGNED_SECTION_LEN
      /\ Header.mode = ModeWanted
  BY <1>2, OpenedHeader
<1>4. /\ Taken = Seen - HEADER_SIZE /\ Taken \in Nat /\ Taken < binary.length
  BY <1>2, Sizes DEF Taken, Less
<1>5. Header.processed = SIGNED_SECTION_LEN + Taken
  BY <1>1, <1>2 DEF IInv, Long
<1>6. /\ n \in Nat \ {0} /\ n <= block.size /\ n <= binary.length - Taken
      /\ n = block.size \/ n = binary.length - Taken
  BY <1>2, <1>4 DEF Less
<1>7. Taken + n <= binary.length /\ Taken + n = Less(pos - HEADER_SIZE, binary.length)
  <2>1. pos - HEADER_SIZE = Taken + block.size
    BY <1>2, <1>4, Sizes
  <2>2. \A t, b, l, m \in Nat :
           m <= b /\ m <= l - t /\ (m = b \/ m = l - t) =>
              t + m <= l /\ t + m = IF t + b < l THEN t + b ELSE l
    OBVIOUS
  <2>3. Taken \in Nat /\ block.size \in Nat /\ binary.length \in Nat /\ n \in Nat
    BY <1>2, <1>4, <1>6
  <2>4. /\ Taken + n <= binary.length
        /\ Taken + n = IF Taken + block.size < binary.length THEN Taken + block.size
                       ELSE binary.length
    BY <1>6, <2>2, <2>3
  <2> QED
    BY <2>1, <2>4 DEF Less
<1>8. /\ Collected \in [Memory -> Cell]
      /\ \A k \in 1 .. block.size : Collected[block.at + k - 1] = Stored(binary)[Seen + k]
      /\ block.at = auth.safe \/ ModeWanted # "NVIDIA_RSA" =>
            \A k \in 1 .. block.size :
               Collected[auth.safe + k - 1] = Stored(binary)[Seen + k]
      /\ \A a \in Memory :
            (\A k \in 1 .. block.size : a # auth.safe + k - 1) => Collected[a] = mem[a]
  BY <1>1, CollectedDoes
<1>9. ASSUME NEW j \in 1 .. n
      PROVE  /\ j \in 1 .. block.size
             /\ block.at + j - 1 \in Memory /\ auth.safe + j - 1 \in Memory
  <2>1. j \in 1 .. block.size
    BY <1>2, <1>6
  <2> QED
    BY <2>1, <1>1, LaterCells
<1>10. /\ n = Less(block.size, Header.validation - Header.processed)
       /\ 0 = IF Header.processed = 0 THEN SIGNED_SECTION_LEN ELSE 0
       /\ n = Rest(n, 0)
  <2>1. Header.validation - Header.processed = binary.length - Taken
    BY <1>2, <1>3, <1>4, <1>5, Sizes
  <2>2. Header.processed # 0
    BY <1>4, <1>5, Sizes
  <2>3. n = Rest(n, 0)
    BY <1>6 DEF Rest
  <2> QED
    BY <2>1, <2>2, <2>3
<1>11. sub = Subprocess(Collected, Header, block.at, block.size, auth.safe)
  BY DEF Header
<1> HIDE DEF sub
<1>12. Digests(Collected, binary, ModeWanted, Header, block.at, auth.safe, n, 0, n, sub)
  <2> DEFINE skip == 0
             at == block.at
             size == block.size
             safe == auth.safe
             m == Collected
             hd == Header
  <2>1. /\ m \in [Memory -> Cell] /\ hd \in HeaderOf(binary, ModeWanted)
        /\ hd.processed = Len(hd.fed) /\ at \in Nat /\ size \in Nat /\ safe \in Nat
        /\ skip \in Nat /\ n \in Nat \ {0} /\ n \in Nat /\ binary \in Binaries
    BY <1>2, <1>3, <1>6, <1>8
  <2>2. \A k \in 1 .. n : at + k - 1 \in Memory
    BY <1>9
  <2>3. /\ n = Less(size, hd.validation - hd.processed)
        /\ skip = IF hd.processed = 0 THEN SIGNED_SECTION_LEN ELSE 0
        /\ n = Rest(n, skip)
    BY <1>10
  <2>4. sub = Subprocess(m, hd, at, size, safe)
    BY <1>11
  <2> HIDE DEF skip, at, size, safe, m, hd
  <2>5. Digests(m, binary, ModeWanted, hd, at, safe, n, skip, n, sub)
    BY <2>1, <2>2, <2>3, <2>4, SubprocessDoes
  <2> QED
    BY <2>5 DEF skip, at, size, safe, m, hd
<1>13. Header' = sub.header /\ headers' = << Header' >>
  BY <1>1 DEF Header
<1>14. /\ Header' \in HeaderOf(binary, ModeWanted)
       /\ Header'.processed = done + n /\ Header'.processed = Len(Header'.fed)
       /\ \A k \in 1 .. done : Header'.fed[k] = Header.fed[k]
       /\ \A k \in 1 .. n : Header'.fed[done + k] = Collected[block.at + k - 1]
  BY <1>5, <1>12, <1>13 DEF Digests
<1>15. \A j \in 1 .. n : Header'.fed[done + j] = Stored(binary)[Seen + j]
  BY <1>8, <1>9, <1>14
<1>16. mem' \in [Memory -> Cell]
  BY <1>1, <1>12 DEF Digests
<1> HIDE DEF done
<1>17. ASSUME NEW j \in 1 .. n
       PROVE  mem'[auth.safe + j - 1] = Out(ModeWanted, Header'.fed[done + j])
  <2>1. CASE Deciphers(ModeWanted)
    <3>1. mem'[auth.safe + j - 1] = Out(ModeWanted, Collected[block.at + 0 + j - 1])
      BY <2>1, <1>1, <1>9, <1>12 DEF Digests
    <3>2. block.at + 0 + j - 1 = block.at + j - 1
      BY <1>2, <1>6
    <3> QED
      BY <3>1, <3>2, <1>14
  <2>2. CASE ~Deciphers(ModeWanted)
    <3>1. mem' = Collected
      BY <2>2, <1>1, <1>12 DEF Digests
    <3>2. ModeWanted # "NVIDIA_RSA"
      BY <2>2 DEF Deciphers
    <3>3. Collected[auth.safe + j - 1] = Stored(binary)[Seen + j]
      BY <3>2, <1>8, <1>9
    <3> QED
      BY <2>2, <3>1, <3>3, <1>15 DEF Out
  <2> QED
    BY <2>1, <2>2
<1>18. ASSUME NEW a \in Memory, \A k \in 1 .. block.size : a # auth.safe + k - 1
       PROVE  mem'[a] = mem[a]
  <2>1. \A j \in 1 .. n : a # auth.safe + j - 1
    BY <1>9, <1>18
  <2>2. mem'[a] = Collected[a]
    BY <2>1, <1>1, <1>12 DEF Digests
  <2> QED
    BY <2>2, <1>8, <1>18
<1> QED
  BY <1>4, <1>6, <1>7, <1>13, <1>14, <1>15, <1>16, <1>17, <1>18 DEF done

\* The digest and the destination have each cell of a later block.
LEMMA LaterOfLongInvariance ==
    ASSUME IInv, LaterOfLong
    PROVE  IInv'
<1> DEFINE n == Less(block.size, binary.length - Taken)
           done == SIGNED_SECTION_LEN + Taken
<1>1. LaterBlock /\ ~auth.short
  BY DEF LaterOfLong
<1>2. /\ phase = "block" /\ headers # << >> /\ Bound /\ binary \in Binaries
      /\ binary.length \in Nat /\ StoredSize(binary) = HEADER_SIZE + binary.length + 1
      /\ Needed = HEADER_SIZE + binary.length
      /\ auth.dest \in {DestAddr, NewAddr} /\ auth.dest \in Nat
      /\ auth.safe = auth.dest + auth.processed /\ auth.processed \in Nat /\ Moved \in Nat
      /\ Seen \in Nat /\ HEADER_SIZE < Seen /\ Seen < Needed
      /\ block.size \in Nat \ {0} /\ pos = Seen + block.size /\ pos <= StoredSize(binary)
      /\ UNCHANGED << binary, splits >>
  BY <1>1, LaterFacts
<1>3. /\ Taken \in Nat /\ Taken = Seen - HEADER_SIZE
      /\ n \in Nat \ {0} /\ Taken + n <= binary.length
      /\ Taken + n = Less(pos - HEADER_SIZE, binary.length)
      /\ headers' = << Header' >> /\ Header' \in HeaderOf(binary, ModeWanted)
      /\ Header'.processed = done + n
      /\ Header'.processed = Len(Header'.fed)
      /\ \A k \in 1 .. done : Header'.fed[k] = Header.fed[k]
      /\ \A j \in 1 .. n : Header'.fed[done + j] = Stored(binary)[Seen + j]
      /\ mem' \in [Memory -> Cell]
      /\ \A j \in 1 .. n :
            mem'[auth.safe + j - 1] = Out(ModeWanted, Header'.fed[done + j])
      /\ \A a \in Memory : (\A k \in 1 .. block.size : a # auth.safe + k - 1)
                              => mem'[a] = mem[a]
  BY LaterOfLongWrites
<1>3a. /\ Taken \in Nat /\ Taken = Seen - HEADER_SIZE /\ n \in Nat /\ n > 0
       /\ Taken + n <= binary.length /\ done = SIGNED_SECTION_LEN + Taken /\ done \in Nat
  BY <1>3, Sizes
<1>3b. /\ Seen \in Nat /\ pos = Seen + block.size /\ block.size \in Nat
       /\ auth.processed \in Nat /\ auth.dest \in Nat /\ Moved \in Nat
       /\ auth.safe = auth.dest + auth.processed /\ binary.length \in Nat
  BY <1>2
<1> HIDE DEF n, done
<1>4. /\ auth'.dest = auth.dest /\ auth'.short = auth.short
      /\ auth'.processed = auth.processed + block.size
      /\ Seen' = pos /\ Moved' = Moved /\ Needed' = Needed
      /\ Stored(binary)' = Stored(binary)
  BY <1>1, LaterHandle
<1>5. Untouched
  <2> SUFFICES ASSUME NEW base \in {DestAddr, NewAddr}, NEW j \in 0 .. StoredSize(binary),
                      base # auth.dest \/ j < auth.processed
               PROVE  mem'[base + j] = mem[base + j]
    BY DEF Untouched
  <2>1. base + j \in Memory
    BY <1>2, Rooms
  <2>2. ASSUME NEW k \in 1 .. block.size
        PROVE  base + j # auth.safe + k - 1
    <3>1. /\ auth.processed + k - 1 \in 0 .. StoredSize(binary)
          /\ auth.safe + k - 1 = auth.dest + (auth.processed + k - 1)
      BY <1>1, LaterCells
    <3>2. CASE base # auth.dest
      BY <3>1, <3>2, <1>2, Rooms
    <3>3. CASE base = auth.dest /\ j < auth.processed
      BY <3>1, <3>3, <1>2
    <3> QED
      BY <3>2, <3>3
  <2> QED
    BY <2>1, <2>2, <1>3
<1>6. /\ Moved \in 0 .. Taken /\ auth.processed + Moved = Taken
      /\ \A i \in 1 .. Taken : mem'[At(i)] = mem[At(i)]
  BY <1>1, <1>2, <1>5, BlockStays
<1>7. Taken' = Taken + n
  BY <1>2, <1>3, <1>4 DEF Taken
<1>8. /\ Header.processed = done
      /\ \A k \in 1 .. done :
            Header.fed[k] = Stored(binary)[HEADER_SIZE - SIGNED_SECTION_LEN + k]
      /\ \A i \in 1 .. Taken :
            mem[At(i)] = Out(Header.mode, Header.fed[SIGNED_SECTION_LEN + i])
  BY <1>1, <1>2 DEF IInv, Long, done
<1>9. Header.mode = ModeWanted /\ Header'.mode = ModeWanted
  BY <1>2, <1>3, OpenedHeader DEF HeaderOf
<1>10. ASSUME NEW k \in 1 .. SIGNED_SECTION_LEN + Taken'
       PROVE  Header'.fed[k] = Stored(binary)[HEADER_SIZE - SIGNED_SECTION_LEN + k]
  <2>1. CASE k <= done
    <3>1. k \in 1 .. done
      BY <2>1, <1>3, <1>7, Sizes DEF done
    <3> QED
      BY <3>1, <1>3, <1>8
  <2>2. CASE k > done
    <3>1. PICK j \in 1 .. n : k = done + j
      <4>1. k - done \in 1 .. n /\ k = done + (k - done)
        BY <2>2, <1>3a, <1>7, Sizes
      <4> QED
        BY <4>1
    <3>2. HEADER_SIZE - SIGNED_SECTION_LEN + k = Seen + j
      BY <3>1, <1>2, <1>3, Sizes DEF done
    <3> QED
      BY <3>1, <3>2, <1>3
  <2> QED
    BY <2>1, <2>2, <1>3, <1>7, Sizes DEF done
<1>11. \A i : At(i)' = At(i)
  BY <1>4 DEF At
<1>12. ASSUME NEW i \in 1 .. Taken'
       PROVE  mem'[At(i)] = Out(ModeWanted, Header'.fed[SIGNED_SECTION_LEN + i])
  <2>1. CASE i <= Taken
    <3>1. i \in 1 .. Taken /\ SIGNED_SECTION_LEN + i \in 1 .. done
      BY <2>1, <1>3, <1>7, Sizes DEF done
    <3>2. Header'.fed[SIGNED_SECTION_LEN + i] = Header.fed[SIGNED_SECTION_LEN + i]
      BY <3>1, <1>3
    <3> QED
      BY <3>1, <3>2, <1>6, <1>8, <1>9
  <2>2. CASE i > Taken
    <3>1. PICK j \in 1 .. n : i = Taken + j
      <4>1. i - Taken \in 1 .. n /\ i = Taken + (i - Taken)
        BY <2>2, <1>3a, <1>7
      <4> QED
        BY <4>1
    <3>2. At(i) = auth.safe + j - 1
      <4>1. ~(i <= Moved) /\ auth.processed + Moved = Taken
        BY <2>2, <3>1, <1>3a, <1>6
      <4>2. At(i) = auth.dest + (i - Moved) - 1
        BY <4>1 DEF At
      <4> QED
        BY <3>1, <4>1, <4>2, <1>3a, <1>3b
    <3>3. done + j = SIGNED_SECTION_LEN + i
      BY <3>1, <1>3, Sizes DEF done
    <3> QED
      BY <3>2, <3>3, <1>3
  <2> QED
    BY <2>1, <2>2, <1>3, <1>7
<1>13. Long'
  <2>1. \A k \in 1 .. SIGNED_SECTION_LEN + Taken' :
           Header'.fed[k] = Stored(binary)'[HEADER_SIZE - SIGNED_SECTION_LEN + k]
    BY <1>4, <1>10
  <2>2. \A i \in 1 .. Taken' :
           mem'[At(i)'] = Out(Header'.mode, Header'.fed[SIGNED_SECTION_LEN + i])
    BY <1>9, <1>11, <1>12
  <2>3. Header'.processed = SIGNED_SECTION_LEN + Taken' /\ Moved' <= Taken'
    BY <1>3, <1>4, <1>6, <1>7, Sizes DEF done
  <2>4. auth'.processed + Moved' = Seen' - HEADER_SIZE
    <3>1. auth.processed + Moved = Taken
      BY <1>6
    <3>2. (auth.processed + block.size) + Moved = pos - HEADER_SIZE
      BY <3>1, <1>3a, <1>3b, Sizes
    <3> QED
      BY <3>2, <1>4
  <2> QED
    BY <2>1, <2>2, <2>3, <2>4 DEF Long, Out
<1>14. Short'
  BY <1>1, <1>4 DEF Short
<1>15. auth.dest = DestAddr =>
          \A j \in 0 .. StoredSize(binary) : mem'[NewAddr + j] = mem[NewAddr + j]
  BY <1>2, <1>5, Rooms DEF Untouched
<1> DEFINE hd == Header'
<1>16. /\ hd \in HeaderOf(binary, ModeWanted) /\ hd.processed = Len(hd.fed)
       /\ hd.processed <= binary.length + SIGNED_SECTION_LEN /\ headers' = << hd >>
  <2>1. done + n <= binary.length + SIGNED_SECTION_LEN
    BY <1>3a, <1>3b, Sizes
  <2> QED
    BY <1>3, <2>1
<1> HIDE DEF hd
<1>17. mem' \in [Memory -> Cell]
  BY <1>3
<1> QED
  BY <1>1, <1>13, <1>14, <1>15, <1>16, <1>17, LaterBlockInvariance, Zenon


\* What a short binary becomes with its last block, as far as that goes: whole, or
\* split, where what is digested cannot be what was signed.
LEMMA LastOfShortWrites ==
    ASSUME IInv, LastOfShort
    PROVE  /\ headers' = << Header' >> /\ Header' \in HeaderOf(binary, ModeWanted)
           /\ Header'.processed = Len(Header'.fed) /\ Header'.processed > 0
           /\ Header'.processed <= binary.length + SIGNED_SECTION_LEN
           /\ Header'.fed[1]
                 = Collected[auth.dest + (HEADER_SIZE - SIGNED_SECTION_LEN)]
           /\ mem' \in [Memory -> Cell]
           /\ splits = << >> =>
                 /\ Header'.processed = binary.length + SIGNED_SECTION_LEN
                 /\ \A k \in 1 .. binary.length + SIGNED_SECTION_LEN :
                       Header'.fed[k]
                          = Collected[auth.dest + (HEADER_SIZE - SIGNED_SECTION_LEN + k) - 1]
                 /\ \A i \in 1 .. binary.length :
                       mem'[auth.dest + i - 1]
                          = Out(ModeWanted, Header'.fed[SIGNED_SECTION_LEN + i])
           /\ \A a \in Memory :
                 (\A j \in 0 .. StoredSize(binary) : a # auth.dest + j) => mem'[a] = mem[a]
<1> DEFINE from == auth.dest + HEADER_SIZE - SIGNED_SECTION_LEN
           size == auth.processed + block.size
           sub == Subprocess(Collected, headers[1], from, size, auth.dest)
           all == binary.length + SIGNED_SECTION_LEN
           n == Less(size, all)
           skip == SIGNED_SECTION_LEN
           rest == Rest(n, skip)
           after == auth.dest + HEADER_SIZE
           hd == Header
<1>1. LaterBlock /\ auth.short
  BY DEF LastOfShort
<1>2. /\ phase = "block" /\ headers # << >> /\ binary \in Binaries
      /\ binary.length \in Nat /\ StoredSize(binary) = HEADER_SIZE + binary.length + 1
      /\ Needed = HEADER_SIZE + binary.length
      /\ auth.dest \in {DestAddr, NewAddr} /\ auth.dest \in Nat
      /\ auth.processed \in Nat /\ Moved \in Nat
      /\ Seen \in Nat /\ block.size \in Nat \ {0} /\ pos = Seen + block.size
  BY <1>1, LaterFacts
<1>2a. /\ binary.length \in Nat /\ StoredSize(binary) = HEADER_SIZE + binary.length + 1
       /\ auth.dest \in Nat /\ auth.processed \in Nat
       /\ block.size \in Nat /\ block.size > 0
  BY <1>2
<1>3. /\ Header.fed = << >> /\ Header.processed = 0
      /\ auth.remaining = Needed - Seen /\ auth.processed + Moved = Seen
  BY <1>1, CollectedWhole
<1>4. /\ Header \in HeaderOf(binary, ModeWanted) /\ Header.processed = Len(Header.fed)
      /\ Header.validation = all /\ Header.mode = ModeWanted /\ Header.size = binary.length
  BY <1>2, OpenedHeader
<1>5. pos >= Needed
  <2>1. auth.remaining <= block.size
    BY DEF LastOfShort
  <2>2. Needed \in Nat
    BY <1>2, Sizes
  <2>3. Needed - Seen <= block.size
    BY <2>1, <1>3
  <2> QED
    BY <2>2, <2>3, <1>2
<1>7. size \in Nat /\ size > 0 /\ all \in Nat /\ all > 0
  <2>1. size \in Nat /\ size > 0
    BY <1>2a
  <2>2. all \in Nat /\ all > 0
    BY <1>2a, Sizes
  <2> QED
    BY <2>1, <2>2
<1>8. n \in Nat \ {0} /\ n <= all /\ n <= size
  <2> HIDE DEF size, all
  <2> QED
    BY <1>7 DEF Less
<1>9. splits = << >> => n = all
  <2> SUFFICES ASSUME splits = << >>
               PROVE  n = all
    OBVIOUS
  <2>1. Moved = 0
    BY DEF Moved
  <2>2. size = pos
    BY <1>2, <1>3, <2>1
  <2>3. all <= size
    BY <1>2, <1>5, <2>2, Sizes
  <2> HIDE DEF size, all
  <2> QED
    BY <2>3, <1>7 DEF Less
<1>10. /\ Collected \in [Memory -> Cell]
       /\ \A a \in Memory :
             (\A k \in 1 .. block.size : a # auth.safe + k - 1) => Collected[a] = mem[a]
  BY <1>1, CollectedDoes
<1>11. ASSUME NEW k \in 1 .. all
       PROVE  /\ from + k - 1 \in Memory
              /\ from + k - 1 = auth.dest + (HEADER_SIZE - SIGNED_SECTION_LEN + k) - 1
              /\ HEADER_SIZE - SIGNED_SECTION_LEN + k - 1 \in 0 .. StoredSize(binary)
              /\ from + k - 1 = auth.dest + (HEADER_SIZE - SIGNED_SECTION_LEN + k - 1)
  <2> DEFINE j == HEADER_SIZE - SIGNED_SECTION_LEN + k - 1
  <2>0. k \in Nat /\ 1 <= k /\ k <= binary.length + SIGNED_SECTION_LEN
    BY <1>7
  <2>1. /\ j \in 0 .. StoredSize(binary) /\ from + k - 1 = auth.dest + j
        /\ from + k - 1 = auth.dest + (HEADER_SIZE - SIGNED_SECTION_LEN + k) - 1
    <3>1. j \in 0 .. StoredSize(binary)
      BY <2>0, <1>2a, Sizes
    <3>2. from + k - 1 = auth.dest + j
      BY <2>0, <1>2a, Sizes
    <3>3. from + k - 1 = auth.dest + (HEADER_SIZE - SIGNED_SECTION_LEN + k) - 1
      BY <2>0, <1>2a, Sizes
    <3> QED
      BY <3>1, <3>2, <3>3
  <2>2. auth.dest + j \in Memory
    <3> HIDE DEF j
    <3> QED
      BY <1>2, <2>1, Rooms
  <2> QED
    BY <2>1, <2>2
<1>12. from \in Nat /\ after \in Nat /\ after = from + SIGNED_SECTION_LEN
  BY <1>2a, Sizes
<1>13. /\ headers' = << sub.header >>
       /\ mem' = IF Deciphers(ModeWanted) THEN sub.mem
                 ELSE Copy(Collected, after, auth.dest, binary.length)
  BY <1>4 DEF LastOfShort, Header
<1>14. /\ n = Less(size, hd.validation - hd.processed)
       /\ skip = IF hd.processed = 0 THEN SIGNED_SECTION_LEN ELSE 0
       /\ skip \in Nat /\ rest = Rest(n, skip)
  <2>1. hd.validation - hd.processed = all
    BY <1>3, <1>4, <1>7
  <2> QED
    BY <2>1, <1>3, Sizes
<1>15. sub = Subprocess(Collected, hd, from, size, auth.dest)
  BY DEF Header
<1>16. rest \in Nat /\ rest <= binary.length /\ (n = all => rest = binary.length)
  <2>1. n \in Nat /\ n <= all /\ binary.length \in Nat
    BY <1>2, <1>8
  <2> HIDE DEF n
  <2> QED
    BY <2>1, Sizes DEF Rest
<1> HIDE DEF sub, from, size, n, skip, rest, after
<1>17. Digests(Collected, binary, ModeWanted, Header, from, auth.dest, n, skip, rest, sub)
  <2> DEFINE m == Collected
             dst == auth.dest
  <2>1. /\ m \in [Memory -> Cell] /\ hd \in HeaderOf(binary, ModeWanted)
        /\ hd.processed = Len(hd.fed) /\ from \in Nat /\ size \in Nat /\ dst \in Nat
        /\ n \in Nat \ {0} /\ binary \in Binaries
    BY <1>2, <1>4, <1>7, <1>8, <1>10, <1>12
  <2>2. \A k \in 1 .. n : from + k - 1 \in Memory
    <3>1. \A k \in 1 .. n : k \in 1 .. all
      BY <1>7, <1>8
    <3> QED
      BY <3>1, <1>11
  <2>3. sub = Subprocess(m, hd, from, size, dst)
    BY <1>15
  <2> HIDE DEF m, dst, hd
  <2>4. Digests(m, binary, ModeWanted, hd, from, dst, n, skip, rest, sub)
    BY <2>1, <2>2, <2>3, <1>14, <1>16, SubprocessDoes
  <2> QED
    BY <2>4 DEF m, dst, hd
<1>18. Header' = sub.header /\ headers' = << Header' >>
  BY <1>13 DEF Header
<1>19. /\ Header' \in HeaderOf(binary, ModeWanted)
       /\ Header'.processed = n /\ Header'.processed = Len(Header'.fed)
  <2>1. Header.processed + n = n
    BY <1>3, <1>8
  <2> QED
    BY <2>1, <1>17, <1>18 DEF Digests
<1>20. \A k \in 1 .. n :
          Header'.fed[k] = Collected[auth.dest + (HEADER_SIZE - SIGNED_SECTION_LEN + k) - 1]
  <2> SUFFICES ASSUME NEW k \in 1 .. n
               PROVE  Header'.fed[k]
                        = Collected[auth.dest + (HEADER_SIZE - SIGNED_SECTION_LEN + k) - 1]
    OBVIOUS
  <2>1. k \in 1 .. all /\ Header.processed + k = k
    BY <1>3, <1>7, <1>8
  <2>2. sub.header.fed[Header.processed + k] = Collected[from + k - 1]
    BY <1>17 DEF Digests
  <2> QED
    BY <2>1, <2>2, <1>11, <1>18
<1>21. Header'.fed[1] = Collected[auth.dest + (HEADER_SIZE - SIGNED_SECTION_LEN)]
  <2>1. 1 \in 1 .. n
    BY <1>8
  <2>2. auth.dest + (HEADER_SIZE - SIGNED_SECTION_LEN + 1) - 1
           = auth.dest + (HEADER_SIZE - SIGNED_SECTION_LEN)
    BY <1>2, Sizes
  <2> QED
    BY <2>1, <2>2, <1>20
<1>22. ASSUME NEW i \in 1 .. binary.length
       PROVE  /\ after + i - 1 \in Memory /\ SIGNED_SECTION_LEN + i \in 1 .. all
              /\ from + SIGNED_SECTION_LEN + i - 1 = after + i - 1
              /\ after + i - 1
                    = auth.dest + (HEADER_SIZE - SIGNED_SECTION_LEN + (SIGNED_SECTION_LEN + i)) - 1
              /\ i - 1 \in 0 .. StoredSize(binary) /\ auth.dest + i - 1 = auth.dest + (i - 1)
              /\ auth.dest + i - 1 \in Memory
  <2>1. SIGNED_SECTION_LEN + i \in 1 .. all
    BY <1>2, Sizes
  <2>2. /\ after + i - 1 = from + (SIGNED_SECTION_LEN + i) - 1
        /\ from + SIGNED_SECTION_LEN + i - 1 = after + i - 1
        /\ after + i - 1
              = auth.dest + (HEADER_SIZE - SIGNED_SECTION_LEN + (SIGNED_SECTION_LEN + i)) - 1
    <3>3. auth.dest \in Nat /\ i \in Nat /\ HEADER_SIZE \in Nat /\ SIGNED_SECTION_LEN \in Nat
      BY <1>2, Sizes
    <3>4. after + i - 1
              = auth.dest + (HEADER_SIZE - SIGNED_SECTION_LEN + (SIGNED_SECTION_LEN + i)) - 1
      BY <3>3 DEF after
    <3> HIDE DEF after, from
    <3>5. /\ after + i - 1 = from + (SIGNED_SECTION_LEN + i) - 1
          /\ from + SIGNED_SECTION_LEN + i - 1 = after + i - 1
      BY <1>12, <3>3
    <3> QED
      BY <3>4, <3>5
  <2>3. i - 1 \in 0 .. StoredSize(binary) /\ auth.dest + i - 1 = auth.dest + (i - 1)
    BY <1>2, Sizes
  <2>4. auth.dest + (i - 1) \in Memory
    BY <1>2, <2>3, Rooms
  <2> QED
    BY <2>1, <2>2, <2>3, <2>4, <1>11
<1>23. ASSUME Deciphers(ModeWanted)
       PROVE  /\ mem' \in [Memory -> Cell]
              /\ splits = << >> =>
                    \A i \in 1 .. binary.length :
                       mem'[auth.dest + i - 1]
                          = Out(ModeWanted, Header'.fed[SIGNED_SECTION_LEN + i])
              /\ \A a \in Memory :
                    (\A j \in 0 .. StoredSize(binary) : a # auth.dest + j)
                       => mem'[a] = Collected[a]
  <2>1. mem' = sub.mem /\ mem' \in [Memory -> Cell]
    BY <1>13, <1>17, <1>23 DEF Digests
  <2>2. ASSUME splits = << >>, NEW i \in 1 .. binary.length
        PROVE  mem'[auth.dest + i - 1] = Out(ModeWanted, Header'.fed[SIGNED_SECTION_LEN + i])
    <3>1. i \in 1 .. rest /\ skip = SIGNED_SECTION_LEN
      BY <2>2, <1>9, <1>16 DEF skip
    <3>2. sub.mem[auth.dest + i - 1] = Out(ModeWanted, Collected[from + skip + i - 1])
      BY <3>1, <1>17, <1>22, <1>23 DEF Digests
    <3>3. Header'.fed[SIGNED_SECTION_LEN + i] = Collected[after + i - 1]
      BY <2>2, <1>9, <1>20, <1>22
    <3> QED
      BY <2>1, <3>1, <3>2, <3>3, <1>22
  <2>3. ASSUME NEW a \in Memory, \A j \in 0 .. StoredSize(binary) : a # auth.dest + j
        PROVE  mem'[a] = Collected[a]
    <3>1. \A j \in 1 .. rest : j \in 1 .. binary.length
      BY <1>2, <1>16
    <3>2. \A j \in 1 .. rest : a # auth.dest + j - 1
      BY <2>3, <3>1, <1>22
    <3> QED
      BY <2>1, <3>2, <1>17 DEF Digests
  <2> QED
    BY <2>1, <2>2, <2>3
<1>24. ASSUME ~Deciphers(ModeWanted)
       PROVE  /\ mem' \in [Memory -> Cell]
              /\ splits = << >> =>
                    \A i \in 1 .. binary.length :
                       mem'[auth.dest + i - 1]
                          = Out(ModeWanted, Header'.fed[SIGNED_SECTION_LEN + i])
              /\ \A a \in Memory :
                    (\A j \in 0 .. StoredSize(binary) : a # auth.dest + j)
                       => mem'[a] = Collected[a]
  <2> DEFINE m == Collected
             dst == auth.dest
             len == binary.length
  <2>1. mem' = Copy(m, after, dst, len)
    BY <1>13, <1>24
  <2>2. /\ m \in [Memory -> Cell] /\ after \in Nat /\ dst \in Nat /\ len \in Nat
        /\ \A i \in 1 .. len : after + i - 1 \in Memory
    BY <1>2, <1>10, <1>12, <1>22
  <2> HIDE DEF m, dst, len
  <2>3. IsCopy(m, after, dst, len, mem')
    BY <2>1, <2>2, CopyWrites
  <2>4. IsCopy(Collected, after, auth.dest, binary.length, mem')
    BY <2>3 DEF m, dst, len
  <2>5. ASSUME splits = << >>, NEW i \in 1 .. binary.length
        PROVE  mem'[auth.dest + i - 1] = Out(ModeWanted, Header'.fed[SIGNED_SECTION_LEN + i])
    <3>1. mem'[auth.dest + i - 1] = Collected[after + i - 1]
      BY <2>4, <1>22 DEF IsCopy
    <3>2. Header'.fed[SIGNED_SECTION_LEN + i] = Collected[after + i - 1]
      BY <2>5, <1>9, <1>20, <1>22
    <3> QED
      BY <3>1, <3>2, <1>24 DEF Out
  <2>6. ASSUME NEW a \in Memory, \A j \in 0 .. StoredSize(binary) : a # auth.dest + j
        PROVE  mem'[a] = Collected[a]
    <3>1. \A i \in 1 .. binary.length : a # auth.dest + i - 1
      BY <2>6, <1>22
    <3> QED
      BY <3>1, <2>4 DEF IsCopy
  <2> QED
    BY <2>4, <2>5, <2>6 DEF IsCopy
<1>25. ASSUME NEW a \in Memory, \A j \in 0 .. StoredSize(binary) : a # auth.dest + j
       PROVE  mem'[a] = mem[a]
  <2>1. \A k \in 1 .. block.size : a # auth.safe + k - 1
    BY <1>1, <1>25, LaterCells
  <2>2. mem'[a] = Collected[a]
    BY <1>23, <1>24, <1>25
  <2> QED
    BY <2>1, <2>2, <1>10
<1> QED
  BY <1>7, <1>8, <1>9, <1>18, <1>19, <1>20, <1>21, <1>23, <1>24, <1>25


\* The last block of a short binary: the whole is digested, and moved over its
\* header.
LEMMA LastOfShortInvariance ==
    ASSUME IInv, LastOfShort
    PROVE  IInv'
<1>1. LaterBlock /\ auth.short /\ auth.remaining <= block.size
  BY DEF LastOfShort
<1>2. /\ headers # << >> /\ binary \in Binaries /\ binary.length \in Nat
      /\ StoredSize(binary) = HEADER_SIZE + binary.length + 1
      /\ auth.dest \in {DestAddr, NewAddr} /\ auth.dest \in Nat
      /\ Seen \in Nat /\ Needed = HEADER_SIZE + binary.length
      /\ UNCHANGED << splits, bounced, binary, fuse >>
  BY <1>1, LaterFacts
<1>2a. /\ Seen \in Nat /\ pos = Seen + block.size /\ block.size \in Nat /\ Needed \in Nat
       /\ auth.processed \in Nat /\ Moved \in Nat /\ binary.length \in Nat
  <2>1. Needed \in Nat
    BY <1>2, Sizes
  <2> QED
    BY <1>1, <2>1, LaterFacts
<1>3. /\ Header.fed = << >> /\ auth.remaining = Needed - Seen /\ auth.processed + Moved = Seen
      /\ Collectable => \A k \in 1 .. pos : Collected[auth.dest + k - 1] = Stored(binary)[k]
      /\ splits # << >> => \A a \in Room(NewAddr, binary) : Collected[a][1] # "signed"
  BY <1>1, CollectedWhole
<1>4. /\ auth'.dest = auth.dest /\ auth'.short = auth.short
      /\ auth'.processed = auth.processed + block.size
      /\ auth'.remaining = auth.remaining - block.size
      /\ Seen' = pos /\ Moved' = Moved /\ Needed' = Needed
      /\ Stored(binary)' = Stored(binary) /\ SignedCells(binary)' = SignedCells(binary)
  BY <1>1, LaterHandle
<1>5. /\ headers' = << Header' >> /\ Header' \in HeaderOf(binary, ModeWanted)
      /\ Header'.processed = Len(Header'.fed) /\ Header'.processed > 0
      /\ Header'.processed <= binary.length + SIGNED_SECTION_LEN
      /\ Header'.fed[1] = Collected[auth.dest + (HEADER_SIZE - SIGNED_SECTION_LEN)]
      /\ mem' \in [Memory -> Cell]
      /\ splits = << >> =>
            /\ Header'.processed = binary.length + SIGNED_SECTION_LEN
            /\ \A k \in 1 .. binary.length + SIGNED_SECTION_LEN :
                  Header'.fed[k]
                     = Collected[auth.dest + (HEADER_SIZE - SIGNED_SECTION_LEN + k) - 1]
            /\ \A i \in 1 .. binary.length :
                  mem'[auth.dest + i - 1] = Out(ModeWanted, Header'.fed[SIGNED_SECTION_LEN + i])
      /\ \A a \in Memory :
            (\A j \in 0 .. StoredSize(binary) : a # auth.dest + j) => mem'[a] = mem[a]
  BY LastOfShortWrites
<1>6. Header'.mode = ModeWanted /\ Header'.fed \in Seq(Cell) /\ Header'.fed # << >>
  <2>1. Header'.mode = ModeWanted /\ Header'.fed \in Seq(Cell)
    BY <1>5 DEF HeaderOf
  <2>2. Len(Header'.fed) # 0
    BY <1>5
  <2> QED
    BY <2>1, <2>2
<1>7. auth'.remaining = Needed' - Seen' /\ auth'.processed + Moved' = Seen' /\ Seen' >= Needed'
  <2>1. Needed - Seen <= block.size
    BY <1>1, <1>3
  <2>2. (Needed - Seen) - block.size = Needed - pos /\ pos >= Needed
    BY <2>1, <1>2a
  <2>3. (auth.processed + block.size) + Moved = pos
    BY <1>2a, <1>3
  <2> QED
    BY <2>2, <2>3, <1>3, <1>4
<1>8. ASSUME splits # << >>
      PROVE  Header'.fed # SignedCells(binary)
  <2>1. auth.dest = NewAddr
    BY <1>2, <1>8 DEF IInv, Opened
  <2> DEFINE j == HEADER_SIZE - SIGNED_SECTION_LEN
  <2>2. NewAddr + j \in Room(NewAddr, binary)
    <3>1. j \in Nat /\ j <= StoredSize(binary) /\ StoredSize(binary) \in Nat
      BY <1>2, <1>2a, Sizes
    <3> HIDE DEF j
    <3> QED
      BY <3>1, Places DEF Room
  <2>3. Header'.fed[1][1] # "signed"
    BY <2>1, <2>2, <1>3, <1>5, <1>8
  <2> QED
    BY <2>3, <1>2, <1>6, FitsAt
<1>9. ASSUME Collectable
      PROVE  \A k \in 1 .. binary.length + SIGNED_SECTION_LEN :
                Header'.fed[k] = Stored(binary)[HEADER_SIZE - SIGNED_SECTION_LEN + k]
  <2> SUFFICES ASSUME NEW k \in 1 .. binary.length + SIGNED_SECTION_LEN
               PROVE  Header'.fed[k] = Stored(binary)[HEADER_SIZE - SIGNED_SECTION_LEN + k]
    OBVIOUS
  <2> DEFINE i == HEADER_SIZE - SIGNED_SECTION_LEN + k
  <2>1. Header'.fed[k] = Collected[auth.dest + i - 1]
    BY <1>5, <1>9 DEF Collectable
  <2>2. i \in 1 .. pos
    <3>1. pos >= HEADER_SIZE + binary.length
      BY <1>2, <1>4, <1>7
    <3> QED
      BY <3>1, <1>2a, Sizes
  <2> HIDE DEF i
  <2>3. Collected[auth.dest + i - 1] = Stored(binary)[i]
    BY <2>2, <1>3, <1>9
  <2> QED
    BY <2>1, <2>3 DEF i
<1>10. Long'
  BY <1>1, <1>4 DEF Long
<1>11. Short'
  <2>1. splits' # << >> => Header'.fed # SignedCells(binary)'
    BY <1>2, <1>4, <1>8
  <2>2. Collectable' =>
           /\ Header'.processed = binary'.length + SIGNED_SECTION_LEN
           /\ \A k \in 1 .. binary'.length + SIGNED_SECTION_LEN :
                 Header'.fed[k] = Stored(binary)'[HEADER_SIZE - SIGNED_SECTION_LEN + k]
    <3>1. Collectable' = Collectable /\ (Collectable => splits = << >>)
      BY <1>2 DEF Collectable
    <3> QED
      BY <3>1, <1>2, <1>4, <1>5, <1>9
  <2>3. splits' = << >> =>
           /\ Header'.processed = binary'.length + SIGNED_SECTION_LEN
           /\ \A i \in 1 .. binary'.length :
                 mem'[auth'.dest + i - 1]
                    = Out(Header'.mode, Header'.fed[SIGNED_SECTION_LEN + i])
    BY <1>2, <1>4, <1>5, <1>6
  <2> QED
    BY <1>6, <1>7, <2>1, <2>2, <2>3 DEF Short, Out
<1>12. auth.dest = DestAddr =>
          \A j \in 0 .. StoredSize(binary) : mem'[NewAddr + j] = mem[NewAddr + j]
  <2> SUFFICES ASSUME auth.dest = DestAddr, NEW j \in 0 .. StoredSize(binary)
               PROVE  mem'[NewAddr + j] = mem[NewAddr + j]
    OBVIOUS
  <2>1. NewAddr + j \in Memory
    BY <1>2, Rooms
  <2>2. \A i \in 0 .. StoredSize(binary) : NewAddr + j # auth.dest + i
    BY <1>2, Rooms
  <2> QED
    BY <2>1, <2>2, <1>5
<1> DEFINE hd == Header'
<1>13. /\ hd \in HeaderOf(binary, ModeWanted) /\ hd.processed = Len(hd.fed)
       /\ hd.processed <= binary.length + SIGNED_SECTION_LEN /\ headers' = << hd >>
       /\ mem' \in [Memory -> Cell]
  BY <1>5
<1> HIDE DEF hd
<1> QED
  BY <1>1, <1>10, <1>11, <1>12, <1>13, LaterBlockInvariance, Zenon

---------------------------------------------------------------------------
(* The destination changes.                                                *)

\* When it may change it is the first one, and the second is blank.
LEMMA DestinationFacts ==
    ASSUME IInv, NEW move \in BOOLEAN, SetNewDestination(NewAddr, move)
    PROVE  /\ phase = "open" /\ headers # << >> /\ Bound /\ binary \in Binaries
           /\ binary.length \in Nat /\ Needed = HEADER_SIZE + binary.length
           /\ auth.dest = DestAddr /\ splits = << >> /\ Moved = 0 /\ Blank(NewAddr)
           /\ block = NoBlock /\ Seen = pos /\ pos \in Nat /\ pos <= StoredSize(binary)
           /\ HEADER_SIZE < pos
           /\ auth.processed \in Nat /\ auth.processed <= pos /\ auth \in Handles
           /\ Taken \in Nat /\ Taken <= binary.length /\ Taken <= pos - HEADER_SIZE
           /\ UNCHANGED << fuse, build, sbk, secureMode, binary, table, caller, loaded, pos, block,
                           headers, contexts, phase, result, fault, bounced >>
<1>1. /\ phase = "open" /\ auth.num > 0 /\ auth.dest # NewAddr
      /\ UNCHANGED << fuse, build, sbk, secureMode, binary, table, caller, loaded, pos, block,
                      headers, contexts, phase, result, fault, bounced >>
  BY DEF SetNewDestination, Unconcerned
<1>2. Bound /\ binary \in Binaries
  BY <1>1 DEF IInv, Binding, Bound
<1>3. binary.length \in Nat /\ Needed = HEADER_SIZE + binary.length
  BY <1>2, BinaryType DEF Needed
<1>4. headers # << >>
  <2>1. ~(0 > 0)
    OBVIOUS
  <2> QED
    BY <1>1, <1>2, <2>1 DEF IInv, Unopened
<1>5. auth.dest = DestAddr /\ splits = << >> /\ Blank(NewAddr) /\ Seen > HEADER_SIZE
  BY <1>1, <1>4 DEF IInv, Opened
<1>6. /\ auth \in Handles /\ pos \in 0 .. StoredSize(binary) /\ auth.processed <= pos
      /\ auth.processed \in Nat /\ block = NoBlock
  BY <1>1 DEF IInv, Typed, Handles, Pending
<1>7. StoredSize(binary) \in Nat
  BY <1>2, BinaryType
<1>8. pos \in Nat /\ pos <= StoredSize(binary) /\ Seen = pos
  BY <1>6, <1>7 DEF Seen, NoBlock
<1>9. HEADER_SIZE < pos
  BY <1>5, <1>8, Sizes
<1>10. Taken \in Nat /\ Taken <= binary.length /\ Taken <= pos - HEADER_SIZE
  BY <1>3, <1>8, <1>9, Sizes DEF Taken, Less
<1> QED
  BY <1>1, <1>2, <1>3, <1>4, <1>5, <1>6, <1>8, <1>9, <1>10 DEF Moved

\* What of the invariant does not depend on where the binary is.
LEMMA DestinationInvariance ==
    ASSUME IInv, NEW move \in BOOLEAN, SetNewDestination(NewAddr, move),
           mem' \in [Memory -> Cell],
           NEW processed \in 0 .. pos, NEW safe \in Nat, safe = NewAddr + processed,
           auth' = [auth EXCEPT !.dest = NewAddr, !.safe = safe, !.processed = processed],
           splits' # << >> => splits' = << [at |-> DestAddr, n |-> Moved'] >> /\ Moved' \in Nat,
           Long', Short'
    PROVE  IInv'
<1>1. /\ phase = "open" /\ headers # << >> /\ Bound /\ binary \in Binaries
      /\ block = NoBlock /\ Seen = pos /\ pos \in Nat /\ auth \in Handles
      /\ auth.dest = DestAddr /\ caller = "stream"
      /\ UNCHANGED << fuse, build, sbk, secureMode, binary, table, caller, loaded, pos, block,
                      headers, contexts, phase, result, fault, bounced >>
  BY DestinationFacts DEF SetNewDestination
<1>2. /\ auth' \in Handles
      /\ auth'.dest = NewAddr /\ auth'.safe = safe /\ auth'.processed = processed
      /\ auth'.num = auth.num /\ auth'.short = auth.short /\ auth'.nvidia = auth.nvidia
  <2>1. processed \in Nat /\ NewAddr \in Nat
    BY <1>1, Places
  <2> QED
    BY <1>1, <2>1 DEF Handles
<1>3. Typed'
  <2>1. SecureModeAfter(fuse)' = SecureModeAfter(fuse) /\ StoredSize(binary)' = StoredSize(binary)
    BY <1>1 DEF SecureModeAfter, StoredSize
  <2>2. auth'.processed <= pos' /\ auth'.safe = auth'.dest + auth'.processed
    BY <1>1, <1>2
  <2> HIDE DEF SecureModeAfter, StoredSize
  <2> QED
    BY <1>1, <1>2, <2>1, <2>2 DEF IInv, Typed
<1>4. Binding' /\ Pending'
  BY <1>1, <1>2 DEF IInv, Binding, Pending, Bound
<1>5. Opened'
  <2>1. Header' = Header /\ ModeWanted' = ModeWanted /\ Seen' = Seen
    BY <1>1 DEF Header, ModeWanted, SignType, Seen
  <2> QED
    BY <1>1, <1>2, <2>1 DEF IInv, Opened
<1> QED
  BY <1>1, <1>3, <1>4, <1>5 DEF IInv, Unopened, Deciphering, VerifiedMeansIntact,
                                IntactIsVerified

\* What a new destination leaves as it was.
LEMMA DestinationSame ==
    ASSUME IInv, NEW move \in BOOLEAN, SetNewDestination(NewAddr, move)
    PROVE  /\ Header' = Header /\ Seen' = Seen /\ Taken' = Taken /\ Needed' = Needed
           /\ Stored(binary)' = Stored(binary) /\ SignedCells(binary)' = SignedCells(binary)
           /\ Room(NewAddr, binary)' = Room(NewAddr, binary)
           /\ auth'.dest = NewAddr /\ auth'.short = auth.short
           /\ auth'.remaining = auth.remaining
<1>1. /\ auth \in Handles
      /\ UNCHANGED << fuse, binary, pos, block, headers >>
  BY DestinationFacts
<1>2. auth'.dest = NewAddr /\ auth'.short = auth.short /\ auth'.remaining = auth.remaining
  BY <1>1 DEF SetNewDestination, Handles
<1> QED
  BY <1>1, <1>2 DEF Header, Seen, Taken, Needed, Stored, SignedCells, Body, Encrypts, Room,
                    StoredSize


\* A new destination to which what was processed is moved.
LEMMA MovedInvariance ==
    ASSUME IInv, SetNewDestination(NewAddr, TRUE)
    PROVE  IInv'
<1> DEFINE n == auth.processed
           safe == NewAddr + n
<1>1. /\ phase = "open" /\ headers # << >> /\ binary \in Binaries
      /\ binary.length \in Nat /\ Needed = HEADER_SIZE + binary.length
      /\ auth.dest = DestAddr /\ splits = << >> /\ Moved = 0
      /\ Seen = pos /\ pos \in Nat /\ pos <= StoredSize(binary) /\ HEADER_SIZE < pos
      /\ auth.processed \in Nat /\ auth.processed <= pos /\ auth \in Handles
      /\ Taken \in Nat /\ Taken <= binary.length /\ Taken <= pos - HEADER_SIZE
      /\ UNCHANGED << binary, bounced, phase, pos >>
  BY DestinationFacts
<1>2. /\ Header' = Header /\ Seen' = Seen /\ Taken' = Taken /\ Needed' = Needed
      /\ Stored(binary)' = Stored(binary) /\ SignedCells(binary)' = SignedCells(binary)
      /\ Room(NewAddr, binary)' = Room(NewAddr, binary)
      /\ auth'.dest = NewAddr /\ auth'.short = auth.short /\ auth'.remaining = auth.remaining
  BY DestinationSame
<1>2a. /\ n \in Nat /\ pos \in Nat /\ n <= pos /\ pos <= StoredSize(binary)
       /\ binary.length \in Nat /\ DestAddr \in Nat /\ NewAddr \in Nat
       /\ StoredSize(binary) \in Nat
  BY <1>1, Places, BinaryType
<1>3. /\ mem' = Copy(mem, DestAddr, NewAddr, n) /\ splits' = splits /\ headers' = headers
      /\ auth' = [auth EXCEPT !.dest = NewAddr, !.safe = safe]
  BY <1>1 DEF SetNewDestination
<1> HIDE DEF safe
<1>4. auth' = [auth EXCEPT !.dest = NewAddr, !.safe = safe, !.processed = n]
  BY <1>1, <1>3 DEF Handles
<1>5. auth'.processed = n
  BY <1>1, <1>4 DEF Handles
<1>6. ASSUME NEW k \in 1 .. n
      PROVE  /\ DestAddr + k - 1 \in Memory /\ NewAddr + k - 1 \in Memory
  <2>1. /\ k - 1 \in 0 .. StoredSize(binary) /\ DestAddr + (k - 1) = DestAddr + k - 1
        /\ NewAddr + (k - 1) = NewAddr + k - 1
    BY <1>2a
  <2>2. DestAddr + (k - 1) \in Memory /\ NewAddr + (k - 1) \in Memory
    BY <1>1, <2>1, Rooms
  <2> QED
    BY <2>1, <2>2
<1>7. /\ mem' \in [Memory -> Cell]
      /\ \A k \in 1 .. n : mem'[NewAddr + k - 1] = mem[DestAddr + k - 1]
  <2>1. mem \in [Memory -> Cell]
    BY DEF IInv, Typed
  <2> HIDE DEF n
  <2>2. IsCopy(mem, DestAddr, NewAddr, n, mem')
    BY <2>1, <1>2a, <1>3, <1>6, CopyWrites
  <2> QED
    BY <2>2, <1>6 DEF IsCopy
<1>8. Moved' = 0 /\ Collectable' = Collectable
  BY <1>1, <1>3 DEF Moved, Collectable
<1>9. Long'
  <2> SUFFICES ASSUME ~auth.short
               PROVE  Long'
    BY <1>2 DEF Long
  <2>1. /\ Header.processed = SIGNED_SECTION_LEN + Taken
        /\ \A k \in 1 .. SIGNED_SECTION_LEN + Taken :
              Header.fed[k] = Stored(binary)[HEADER_SIZE - SIGNED_SECTION_LEN + k]
        /\ \/ auth.processed + Moved = Seen - HEADER_SIZE
           \/ auth.processed + Moved = binary.length /\ Seen >= Needed
        /\ \A i \in 1 .. Taken :
              mem[At(i)] = Out(Header.mode, Header.fed[SIGNED_SECTION_LEN + i])
    BY <1>1 DEF IInv, Long
  <2>2. Taken <= n
    <3>1. n + 0 = n
      BY <1>2a
    <3> QED
      BY <1>1, <2>1, <3>1
  <2>3. ASSUME NEW i \in 1 .. Taken
        PROVE  mem'[At(i)'] = Out(Header.mode, Header.fed[SIGNED_SECTION_LEN + i])
    <3>1. i \in 1 .. n /\ ~(i <= 0) /\ i - 0 = i
      BY <2>2, <1>1, <1>2a
    <3>2. At(i) = DestAddr + i - 1
      BY <3>1, <1>1, <1>2a DEF At
    <3>3. At(i)' = NewAddr + i - 1
      BY <3>1, <1>2, <1>2a, <1>8 DEF At
    <3> QED
      BY <2>1, <3>1, <3>2, <3>3, <1>7
  <2>4. \/ auth'.processed + Moved' = Seen' - HEADER_SIZE
        \/ auth'.processed + Moved' = binary'.length /\ Seen' >= Needed'
    BY <2>1, <1>1, <1>2, <1>5, <1>8
  <2>5. Moved' <= Taken'
    BY <1>1, <1>2, <1>8
  <2> QED
    BY <1>2, <2>1, <2>3, <2>4, <2>5 DEF Long, Out
<1>10. Short'
  <2> SUFFICES ASSUME auth.short
               PROVE  Short'
    BY <1>2 DEF Short
  <2>1. auth.remaining = Needed - Seen /\ auth.processed + Moved = Seen
    BY <1>1 DEF IInv, Short
  <2>2. n = Seen
    <3>1. n + 0 = n
      BY <1>2a
    <3> QED
      BY <2>1, <3>1, <1>1
  <2>3. ASSUME Header.fed = << >>
        PROVE  /\ Seen < Needed
               /\ Collectable => \A k \in 1 .. Seen : mem'[NewAddr + k - 1] = Stored(binary)[k]
    <3>1. /\ Seen < Needed
          /\ Collectable =>
                \A k \in 1 .. Seen : mem[DestAddr + k - 1] = Stored(binary)[k]
      BY <2>3, <1>1 DEF IInv, Short
    <3> QED
      BY <3>1, <2>2, <1>7
  <2>4. ASSUME Header.fed # << >>
        PROVE  /\ Seen >= Needed
               /\ Collectable =>
                     /\ Header.processed = binary.length + SIGNED_SECTION_LEN
                     /\ \A k \in 1 .. binary.length + SIGNED_SECTION_LEN :
                           Header.fed[k] = Stored(binary)[HEADER_SIZE - SIGNED_SECTION_LEN + k]
               /\ Header.processed = binary.length + SIGNED_SECTION_LEN
               /\ \A i \in 1 .. binary.length :
                     mem[DestAddr + i - 1]
                        = Out(Header.mode, Header.fed[SIGNED_SECTION_LEN + i])
    BY <2>4, <1>1 DEF IInv, Short
  <2>5. ASSUME Header.fed # << >>
        PROVE  \A i \in 1 .. binary.length :
                  mem'[NewAddr + i - 1] = Out(Header.mode, Header.fed[SIGNED_SECTION_LEN + i])
    <3> SUFFICES ASSUME NEW i \in 1 .. binary.length
                 PROVE  mem'[NewAddr + i - 1] = mem[DestAddr + i - 1]
      BY <2>4, <2>5
    <3>1. n >= HEADER_SIZE + binary.length
      BY <2>2, <2>4, <2>5, <1>1
    <3>2. i \in 1 .. n
      BY <3>1, <1>2a, Sizes
    <3> QED
      BY <3>2, <1>7
  <2>6. auth'.remaining = Needed' - Seen' /\ auth'.processed + Moved' = Seen'
    BY <2>1, <1>1, <1>2, <1>5, <1>8
  <2> QED
    BY <1>1, <1>2, <1>3, <1>8, <2>3, <2>4, <2>5, <2>6 DEF Short, Out
<1>11. n \in 0 .. pos /\ safe \in Nat /\ safe = NewAddr + n
  BY <1>2a DEF safe
<1>12. splits' = << >>
  BY <1>1, <1>3
<1> HIDE DEF n
<1> QED
  BY <1>4, <1>7, <1>9, <1>10, <1>11, <1>12, DestinationInvariance, Zenon

\* A new destination for what is still to come.
LEMMA SplitInvariance ==
    ASSUME IInv, SetNewDestination(NewAddr, FALSE)
    PROVE  IInv'
<1> DEFINE n == auth.processed
<1>1. /\ phase = "open" /\ headers # << >> /\ binary \in Binaries
      /\ binary.length \in Nat /\ Needed = HEADER_SIZE + binary.length
      /\ auth.dest = DestAddr /\ splits = << >> /\ Moved = 0 /\ Blank(NewAddr)
      /\ Seen = pos /\ pos \in Nat /\ HEADER_SIZE < pos
      /\ auth.processed \in Nat /\ auth \in Handles
      /\ Taken \in Nat /\ Taken <= binary.length /\ Taken <= pos - HEADER_SIZE
      /\ UNCHANGED << binary, phase, pos >>
  BY DestinationFacts
<1>2. /\ Header' = Header /\ Seen' = Seen /\ Taken' = Taken /\ Needed' = Needed
      /\ Stored(binary)' = Stored(binary) /\ SignedCells(binary)' = SignedCells(binary)
      /\ Room(NewAddr, binary)' = Room(NewAddr, binary)
      /\ auth'.dest = NewAddr /\ auth'.short = auth.short /\ auth'.remaining = auth.remaining
  BY DestinationSame
<1>3. /\ mem' = mem /\ pos < Needed
      /\ splits' = << [at |-> DestAddr, n |-> n] >>
      /\ auth' = [auth EXCEPT !.dest = NewAddr, !.safe = NewAddr, !.processed = 0]
  BY <1>1 DEF SetNewDestination
<1>4. auth'.processed = 0
  BY <1>1, <1>3 DEF Handles
<1>5. Moved' = n /\ splits' # << >> /\ ~Collectable'
  BY <1>3 DEF Moved, Collectable
<1>6. n \in Nat /\ pos \in Nat /\ Needed \in Nat /\ ~(pos >= Needed) /\ NewAddr \in Nat
  <2>1. Needed \in Nat
    BY <1>1, Sizes
  <2>2. n \in Nat /\ pos \in Nat /\ NewAddr \in Nat
    BY <1>1, Places
  <2> QED
    BY <1>3, <2>1, <2>2
<1>7. Long'
  <2> SUFFICES ASSUME ~auth.short
               PROVE  Long'
    BY <1>2 DEF Long
  <2>1. /\ Header.processed = SIGNED_SECTION_LEN + Taken
        /\ \A k \in 1 .. SIGNED_SECTION_LEN + Taken :
              Header.fed[k] = Stored(binary)[HEADER_SIZE - SIGNED_SECTION_LEN + k]
        /\ auth.processed + Moved = Seen - HEADER_SIZE
        /\ \A i \in 1 .. Taken :
              mem[At(i)] = Out(Header.mode, Header.fed[SIGNED_SECTION_LEN + i])
    BY <1>1, <1>6 DEF IInv, Long
  <2>2. n = Seen - HEADER_SIZE /\ n = Taken
    <3>1. n = Seen - HEADER_SIZE
      <4>1. n + 0 = n
        BY <1>6
      <4> QED
        BY <1>1, <2>1, <4>1
    <3>2. pos < HEADER_SIZE + binary.length
      BY <1>1, <1>3
    <3>3. Taken = pos - HEADER_SIZE
      BY <1>1, <3>2, Sizes DEF Taken, Less
    <3> QED
      BY <1>1, <3>1, <3>3
  <2>3. ASSUME NEW i \in 1 .. Taken
        PROVE  At(i)' = At(i)
    <3>1. i <= n /\ ~(i <= 0) /\ i - 0 = i
      BY <2>2, <1>1
    <3> QED
      BY <3>1, <1>1, <1>5, Places DEF At
  <2>4. 0 + n = n
    BY <1>6
  <2>5. \A i \in 1 .. Taken' :
           mem'[At(i)'] = Out(Header'.mode, Header'.fed[SIGNED_SECTION_LEN + i])
    BY <2>1, <2>3, <1>2, <1>3
  <2>6. auth'.processed + Moved' = Seen' - HEADER_SIZE /\ Moved' <= Taken'
    BY <2>2, <2>4, <1>1, <1>2, <1>4, <1>5
  <2> QED
    BY <1>2, <2>1, <2>5, <2>6 DEF Long, Out
<1>8. Short'
  <2> SUFFICES ASSUME auth.short
               PROVE  Short'
    BY <1>2 DEF Short
  <2>1. /\ auth.remaining = Needed - Seen /\ auth.processed + Moved = Seen
        /\ Header.fed = << >>
    BY <1>1, <1>6 DEF IInv, Short
  <2>2. n = Seen /\ 0 + n = n
    <3>1. n + 0 = n /\ 0 + n = n
      BY <1>6
    <3> QED
      BY <2>1, <3>1, <1>1
  <2>3. \A a \in Room(NewAddr, binary)' : mem'[a][1] # "signed"
    BY <1>1, <1>2, <1>3 DEF Blank
  <2>4. /\ auth'.remaining = Needed' - Seen' /\ auth'.processed + Moved' = Seen'
        /\ Seen' < Needed'
    BY <2>1, <2>2, <1>1, <1>2, <1>3, <1>4, <1>5
  <2> QED
    BY <1>2, <1>5, <2>1, <2>3, <2>4 DEF Short
<1> DEFINE safe == NewAddr
           processed == 0
<1>9. /\ processed \in 0 .. pos /\ safe \in Nat /\ safe = NewAddr + processed
      /\ mem' \in [Memory -> Cell]
      /\ auth' = [auth EXCEPT !.dest = NewAddr, !.safe = safe, !.processed = processed]
  BY <1>3, <1>6 DEF IInv, Typed
<1>10. splits' = << [at |-> DestAddr, n |-> Moved'] >> /\ Moved' \in Nat
  BY <1>3, <1>5, <1>6
<1> HIDE DEF safe, processed
<1>11. FALSE \in BOOLEAN
  OBVIOUS
<1> QED
  BY <1>7, <1>8, <1>9, <1>10, <1>11, DestinationInvariance, Zenon

---------------------------------------------------------------------------
(* The whole.                                                              *)

\* Nothing happens.
LEMMA StutterInvariance ==
    ASSUME IInv, UNCHANGED vars
    PROVE  IInv'
<1>1. UNCHANGED << fuse, build, sbk, secureMode, binary, table, caller, mem, pos, block, auth,
                   headers, contexts, phase, result, splits, fault, bounced, loaded >>
  BY DEF vars, handle
<1>2. /\ Typed' /\ Binding' /\ Pending' /\ Unopened' /\ Deciphering'
  <2>1. Typed'
    BY <1>1 DEF IInv, Typed, StoredSize, SecureModeAfter
  <2>2. Binding'
    BY <1>1 DEF IInv, Binding, Bound
  <2>3. Pending'
    BY <1>1 DEF IInv, Pending, Seen, Needed, Stored, Body, Encrypts
  <2>4. Unopened'
    BY <1>1 DEF IInv, Unopened, Bound, Blank, Room, StoredSize, Seen
  <2>5. Deciphering'
    BY <1>1 DEF IInv, Deciphering, Header, Seen, Needed, SignedCells, Body, Encrypts
  <2> QED
    BY <2>1, <2>2, <2>3, <2>4, <2>5
<1>3. Opened'
  BY <1>1 DEF IInv, Opened, Header, ModeWanted, SignType, Seen, Blank, Room, StoredSize, Moved
<1>4. /\ Header' = Header /\ Taken' = Taken /\ Seen' = Seen /\ Moved' = Moved
      /\ Needed' = Needed /\ Collectable' = Collectable
      /\ Room(NewAddr, binary)' = Room(NewAddr, binary)
      /\ SignedCells(binary)' = SignedCells(binary)
  BY <1>1 DEF Header, Taken, Seen, Moved, Needed, Collectable, Room, StoredSize, SignedCells,
              Body, Encrypts
<1>4a. Stored(binary)' = Stored(binary)
  BY <1>1 DEF Stored, Body, Encrypts
<1>4b. \A i : At(i)' = At(i)
  BY <1>1, <1>4 DEF At
<1>4c. Long'
  BY <1>1, <1>4, <1>4a, <1>4b DEF IInv, Long, Out
<1>5. Short'
  BY <1>1, <1>4, <1>4a DEF IInv, Short, Out
<1>6. VerifiedMeansIntact' /\ IntactIsVerified'
  BY <1>1 DEF IInv, VerifiedMeansIntact, IntactIsVerified, Delivered, Expected, Moved, Cells,
              Body, Plain, Encrypts
<1> QED
  BY <1>2, <1>3, <1>4c, <1>5, <1>6 DEF IInv

\* The invariant holds in every reachable state.
THEOREM Invariance == Spec => []IInv
<1>1. Init => IInv
  BY InitInvariance
<1>2. IInv /\ [Next]_vars => IInv'
  <2> SUFFICES ASSUME IInv, [Next]_vars
               PROVE  IInv'
    OBVIOUS
  <2>1. ASSUME NEW b \in Binaries, NEW who \in {"stream", "payload"}, Initiate(b, who)
        PROVE  IInv'
    BY <2>1, InitiateInvariance
  <2>2. ASSUME NEW n \in 1 .. Len(Stored(binary)), NEW at \in {auth.safe, Elsewhere},
               Load(n, at)
        PROVE  IInv'
    BY <2>2, LoadInvariance
  <2>3. CASE HeaderRefused \/ HeaderBreaks \/ Rollback
    BY <2>3, NoHeaderInvariance
  <2>4. CASE FirstOfShort
    BY <2>4, FirstOfShortInvariance
  <2>5. CASE FirstOfLong
    BY <2>5, FirstOfLongInvariance
  <2>6. CASE LaterOfLong
    BY <2>6, LaterOfLongInvariance
  <2>7. CASE MoreOfShort
    BY <2>7, MoreOfShortInvariance
  <2>8. CASE LastOfShort
    BY <2>8, LastOfShortInvariance
  <2>9. CASE BlockBreaks
    BY <2>9, BlockBreaksInvariance
  <2>10. ASSUME NEW addr \in {NewAddr}, NEW move \in BOOLEAN, SetNewDestination(addr, move)
         PROVE  IInv'
    <3>1. CASE move = TRUE
      <4>1. SetNewDestination(NewAddr, TRUE)
        BY <2>10, <3>1
      <4> QED
        BY <4>1, MovedInvariance
    <3>2. CASE move = FALSE
      <4>1. SetNewDestination(NewAddr, FALSE)
        BY <2>10, <3>2
      <4> QED
        BY <4>1, SplitInvariance
    <3> QED
      BY <3>1, <3>2
  <2>11. CASE Finalize
    BY <2>11, FinalizeInvariance
  <2>12. CASE DecryptBlock
    BY <2>12, DecryptInvariance
  <2>13. CASE End
    BY <2>13, EndInvariance
  <2>14. ASSUME NEW b \in Binaries, UnsupportedPayload(b)
         PROVE  IInv'
    BY <2>14, TableInvariance
  <2>15. ASSUME NEW t \in Tables, VerifyTable(t)
         PROVE  IInv'
    BY <2>15, TableInvariance
  <2>16. CASE CloseTable
    BY <2>16, TableInvariance
  <2>17. CASE UNCHANGED vars
    BY <2>17, StutterInvariance
  <2> QED
    BY <2>1, <2>2, <2>3, <2>4, <2>5, <2>6, <2>7, <2>8, <2>9, <2>10, <2>11, <2>12, <2>13, <2>14,
       <2>15, <2>16, <2>17 DEF Next
<1> QED
  BY <1>1, <1>2, PTL DEF Spec


\* Types, as the runs check them: no address outside memory is used, no more is
\* processed than was read, and no more is digested than is to be validated.
LEMMA TypeOKHolds ==
    ASSUME IInv
    PROVE  TypeOK
<1>1. Typed
  BY DEF IInv
<1>2. binary \in Binaries \cup {NoBinary} /\ (Bound => binary \in Binaries)
  BY DEF IInv, Binding
<1>3. /\ StoredSize(binary) \in Nat /\ Len(Stored(binary)) = StoredSize(binary)
  BY <1>2, BinaryType, StoredCells
<1>4. /\ pos \in Nat /\ pos <= StoredSize(binary)
      /\ block.size \in Nat /\ block.size <= pos
      /\ auth.processed \in Nat /\ auth.processed <= pos
      /\ auth.safe = auth.dest + auth.processed /\ auth.dest \in Nat
  BY <1>1, <1>3 DEF Typed, Handles
<1>5. /\ pos \in 0 .. Len(Stored(binary)) /\ block.size \in 0 .. Len(Stored(binary))
      /\ auth.processed \in 0 .. Len(Stored(binary))
  BY <1>3, <1>4
<1>6. secureMode \in SecureModes \cup {"unread"}
  BY <1>1 DEF Typed, SecureModeAfter, SecureModes
<1>7. Bound => auth.dest \in {DestAddr, NewAddr}
  BY DEF IInv, Unopened, Opened
<1>8. Bound => {auth.dest, auth.safe} \subseteq Memory
  <2> SUFFICES ASSUME Bound
               PROVE  auth.dest \in Memory /\ auth.safe \in Memory
    OBVIOUS
  <2>1. /\ 0 \in 0 .. StoredSize(binary) /\ auth.dest + 0 = auth.dest
        /\ auth.processed \in 0 .. StoredSize(binary)
    BY <1>3, <1>4
  <2>2. auth.dest + 0 \in Memory /\ auth.dest + auth.processed \in Memory
    BY <2>1, <1>2, <1>7, Rooms
  <2> QED
    BY <2>1, <2>2, <1>4
<1>9. phase = "block" => block.at \in Memory
  <2> SUFFICES ASSUME phase = "block"
               PROVE  block.at \in Memory
    OBVIOUS
  <2>1. Bound /\ block.at \in {auth.safe, Elsewhere}
    BY DEF Bound, IInv, Pending
  <2>2. Elsewhere \in Memory
    BY AuthAssumption DEF AuthAssumption
  <2> QED
    BY <2>1, <2>2, <1>8
<1>10. /\ auth.num = Len(headers)
       /\ \A i \in DOMAIN headers : headers[i].processed \in 0 .. headers[i].validation
  <2>1. CASE headers = << >>
    <3>1. auth.num = 0
      <4>1. Bound => auth.num = 0
        BY <2>1 DEF IInv, Unopened
      <4>2. ~Bound => auth.num = 0
        BY DEF IInv, Binding, NoHandle
      <4> QED
        BY <4>1, <4>2
    <3> QED
      BY <2>1, <3>1
  <2>2. CASE headers # << >>
    <3>1. /\ headers = << Header >> /\ auth.num = 1
          /\ Header.processed \in Nat
          /\ Header.validation = binary.length + SIGNED_SECTION_LEN
          /\ Header.processed <= binary.length + SIGNED_SECTION_LEN
      BY <2>2 DEF IInv, Opened
    <3> DEFINE hd == Header
    <3>2. hd.processed \in 0 .. hd.validation
      <4>1. binary.length \in Nat
        BY <1>2, BinaryType
      <4> QED
        BY <3>1, <4>1, Sizes
    <3>3. headers = << hd >> /\ auth.num = 1
      BY <3>1
    <3> HIDE DEF hd
    <3> QED
      BY <3>2, <3>3
  <2> QED
    BY <2>1, <2>2
<1> QED
  BY <1>1, <1>2, <1>5, <1>6, <1>8, <1>9, <1>10 DEF Typed, TypeOK, Bound

\* Every variable keeps its type: positions in what is stored, addresses in memory,
\* one header at most for a handle.
THEOREM TypesAreKept == Spec => []TypeOK
  BY Invariance, TypeOKHolds, PTL

\* However a binary is cut into blocks, wherever they were loaded and to wherever
\* the destination moved, what tegrabl_auth_finalize reports as authentic is the
\* binary that was signed, at the destination, deciphered once.
THEOREM VerifiedIsIntact == Spec => []VerifiedMeansIntact
<1>1. IInv => VerifiedMeansIntact
  BY DEF IInv
<1> QED
  BY <1>1, Invariance, PTL

\* And an intact binary is reported as authentic, but for the two ways of loading
\* a short one that the code cannot handle.
THEOREM IntactIsAccepted == Spec => []IntactIsVerified
<1>1. IInv => IntactIsVerified
  BY DEF IInv
<1> QED
  BY <1>1, Invariance, PTL

\* The static secure_mode never lets a header through in another mode than that
\* which the fuses ask for.
THEOREM ModeIsThatOfFuses == Spec => []ModeOfFuses
<1>1. IInv => ModeOfFuses
  <2> SUFFICES ASSUME IInv, NEW i \in DOMAIN headers
               PROVE  headers[i].mode = ModeWanted
    BY TypeOKHolds DEF ModeOfFuses, ModeWanted
  <2>1. headers # << >>
    OBVIOUS
  <2>2. headers = << Header >> /\ Header.mode = ModeWanted
    BY <2>1, OpenedHeader
  <2> DEFINE hd == Header
  <2>3. headers = << hd >>
    BY <2>2
  <2> HIDE DEF hd
  <2>4. headers[i] = hd
    BY <2>3
  <2> QED
    BY <2>2, <2>4 DEF hd
<1> QED
  BY <1>1, Invariance, PTL

\* tegrabl_auth_end closes each context that the header had initialised, whatever
\* failed before.
THEOREM ContextsAreClosed == Spec => ContextsClosed
<1> DEFINE Closing ==
        phase' = "idle" /\ phase \in {"final", "failed"} =>
            \A i \in DOMAIN headers : \A c \in Range(ContextsOf(headers[i].mode)) :
                c \notin contexts'
<1>1. IInv /\ [Next]_vars => [Closing]_vars
  <2> SUFFICES ASSUME IInv, Next, phase' = "idle", phase \in {"final", "failed"},
                      NEW i \in DOMAIN headers, NEW c \in Range(ContextsOf(headers[i].mode))
               PROVE  c \notin contexts'
    OBVIOUS
  <2>1. contexts' = contexts \ UNION {Closed(headers[k]) : k \in DOMAIN headers}
    <3>1. End
      BY DEF Next, Initiate, Load, HeaderRefused, HeaderBreaks, Rollback, FirstOfShort,
             FirstOfLong, Accepted, LaterOfLong, MoreOfShort, LastOfShort, LaterBlock,
             BlockBreaks, SetNewDestination, Finalize, DecryptBlock, UnsupportedPayload,
             VerifyTable, CloseTable
    <3> QED
      BY <3>1 DEF End
  <2>2. headers = << Header >> /\ Header.mode = ModeWanted
    BY OpenedHeader
  <2>3. headers[i].mode = ModeWanted
    BY <2>2
  <2>4. ModeWanted \in {"NVIDIA_RSA", "SBK", "OEM_RSA", "OEM_RSA_SBK", "OEM_ECC"}
    BY ModeKinds DEF IInv
  <2>5. c \in Closed(headers[i])
    <3>1. c \in (IF HasRsa(ModeWanted) THEN {"rsa"} ELSE {})
                    \cup (IF HasAes(ModeWanted) THEN {"aes"} ELSE {})
                    \cup (IF ModeWanted = "OEM_ECC" THEN {"ecc"} ELSE {})
      BY <2>3, <2>4, ContextKinds
    <3> QED
      BY <2>3, <3>1 DEF Closed
  <2> QED
    BY <2>1, <2>5
<1> QED
  BY <1>1, Invariance, PTL DEF Spec, ContextsClosed
===============================================================================
