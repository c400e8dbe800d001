------------------------- MODULE HeaderLengthProofs -------------------------
(***************************************************************************)
(* A reader finds the header and the data chunk of exactly those archives  *)
(* whose XML header is shorter than 32768 bytes, on hosts of any byte      *)
(* order.                                                                  *)
(***************************************************************************)
EXTENDS HeaderLength, TLAPS

\* A length field holds the length in big-endian order, and a length that was
\* read is the one written, taken for an int16_t.
Inv ==
    /\ \/ length = None /\ field = <<>>
       \/ length \in Word /\ field = <<length \div 256, length % 256>>
    /\ hdrlen # None => length # None /\ hdrlen = Int16(length)

(***************************************************************************)
(* stol16() makes a uint16_t big-endian in memory on every host, ltos16()  *)
(* undoes it on every host, and the two hosts need not be the same.        *)
(***************************************************************************)
LEMMA WriteBigEndian ==
    ASSUME NEW host \in Hosts, NEW w \in Word
    PROVE  Memory(host, stol16(host, w)) = <<w \div 256, w % 256>>
<1>1. /\ w \div 256 \in Nat /\ w \div 256 < 256
      /\ w % 256 \in Nat /\ w % 256 < 256
  BY DEF Word
<1>2. /\ Swapped(w) % 256 = w \div 256
      /\ Swapped(w) \div 256 = w % 256
  BY <1>1 DEF Swapped
<1> QED  BY <1>2 DEF Memory, stol16, Hosts

LEMMA ReadBigEndian ==
    ASSUME NEW host \in Hosts, NEW w \in Word
    PROVE  ltos16(host, Value(host, <<w \div 256, w % 256>>)) = w
<1> DEFINE hi == w \div 256
           lo == w % 256
<1>1. /\ hi \in Nat /\ hi < 256
      /\ lo \in Nat /\ lo < 256
      /\ w = 256 * hi + lo
  BY DEF Word
<1>2. CASE host = "big"
  <2>1. Value(host, <<hi, lo>>) = 256 * hi + lo
    BY <1>2 DEF Value
  <2> QED  BY <1>1, <1>2, <2>1 DEF ltos16
<1>3. CASE host = "little"
  <2>1. Value(host, <<hi, lo>>) = hi + 256 * lo
    BY <1>3 DEF Value
  <2>2. Swapped(hi + 256 * lo) = 256 * hi + lo
    <3> HIDE DEF hi, lo
    <3>1. /\ (hi + 256 * lo) % 256 = hi
          /\ (hi + 256 * lo) \div 256 = lo
      BY <1>1
    <3> QED  BY <1>1, <3>1 DEF Swapped
  <2> QED  BY <1>1, <1>3, <2>1, <2>2 DEF ltos16
<1> QED  BY <1>2, <1>3 DEF Hosts

(***************************************************************************)
(* ChunkFound for every bound on the lengths: where reading goes wrong is  *)
(* set by the conversion to int16_t in __ba_get_hdrlen(), not by the limit *)
(* that __ba_create_archive_file() checks.                                 *)
(***************************************************************************)
THEOREM HeaderAndChunkFound == Spec => []ChunkFound
<1>1. Init => Inv
  BY DEF Init, Inv, None
<1>2. Inv /\ [Next]_vars => Inv'
  <2> SUFFICES ASSUME Inv, [Next]_vars PROVE Inv'
    OBVIOUS
  <2>1. ASSUME NEW host \in Hosts, NEW len \in 0 .. MaxLength,
               __ba_create_archive_file(host, len)
        PROVE  Inv'
    <3>1. len \in Word
      BY <2>1, MaxLengthAssumption DEF Word, __ba_create_archive_file
    <3>2. field' = <<len \div 256, len % 256>>
      BY <2>1, <3>1, WriteBigEndian DEF __ba_create_archive_file
    <3> QED  BY <2>1, <3>1, <3>2 DEF Inv, __ba_create_archive_file
  <2>2. ASSUME NEW host \in Hosts, __ba_load_header(host)
        PROVE  Inv'
    <3>1. length \in Word /\ field = <<length \div 256, length % 256>>
      BY <2>2 DEF Inv, __ba_load_header
    <3>2. hdrlen' = Int16(length)
      BY <2>2, <3>1, ReadBigEndian DEF __ba_load_header, __ba_get_hdrlen
    <3>3. length' = length /\ field' = field /\ length # None
      BY <2>2 DEF __ba_load_header
    <3> QED  BY <3>1, <3>2, <3>3 DEF Inv
  <2>3. CASE UNCHANGED vars
    BY <2>3 DEF Inv, vars
  <2> QED  BY <2>1, <2>2, <2>3 DEF Next, Write
<1>3. Inv => ChunkFound
  <2> SUFFICES ASSUME Inv, hdrlen # None PROVE ChunkFound
    BY DEF ChunkFound
  <2>1. length \in Nat /\ length < 65536 /\ hdrlen = Int16(length)
    BY DEF Inv, Word
  <2>2. hdrlen = length <=> length < 32768
    BY <2>1 DEF Int16
  <2>3. hdrlen \in Int
    BY <2>1 DEF Int16
  <2> QED
    BY <2>1, <2>2, <2>3 DEF ChunkFound, LengthReadAt, LengthAt, P_HEADER_LENGTH, P_HEADER,
         HeaderAt, ChunkReadAt, ChunkAt, P_FILE_DATA
<1> QED  BY <1>1, <1>2, <1>3, PTL DEF Spec
=============================================================================
