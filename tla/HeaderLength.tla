---------------------------- MODULE HeaderLength ----------------------------
(***************************************************************************)
(* The front of an archive file: the magic number and format version, a    *)
(* padding byte, the length of the XML header in two bytes, the header,    *)
(* the end-of-header marker; and how a reader, on a host of either byte    *)
(* order, finds the header and the data chunk again.                       *)
(***************************************************************************)
EXTENDS Integers, Sequences

CONSTANT MaxLength      \* bound on the lengths of XML headers

ASSUME MaxLengthAssumption == MaxLength \in Nat

VARIABLES
    length,     \* of the XML header in the file, or None
    field,      \* the two bytes of the length field
    hdrlen      \* what the reader takes for the length, or None

vars == <<length, field, hdrlen>>

None  == -100000        \* no length and no int16_t
Hosts == {"little", "big"}
Word  == {w \in Nat : w < 65536}     \* uint16_t

(***************************************************************************)
(* byteorder.c, on a host.                                                 *)
(***************************************************************************)
Swapped(w) == (w % 256) * 256 + (w \div 256)

\* htons() and ntohs(): the host's order from and to big-endian.
stol16(host, w) == IF host = "little" THEN Swapped(w) ELSE w
ltos16(host, w) == IF host = "little" THEN Swapped(w) ELSE w

\* The bytes of a uint16_t in memory, and the uint16_t in two bytes of memory.
Memory(host, w) ==
    IF host = "little" THEN <<w % 256, w \div 256>> ELSE <<w \div 256, w % 256>>
Value(host, bytes) ==
    IF host = "little" THEN bytes[1] + 256 * bytes[2] ELSE 256 * bytes[1] + bytes[2]

\* The conversion to hdrlen_t, an int16_t.
Int16(w) == IF w < 32768 THEN w ELSE w - 65536

(***************************************************************************)
(* Positions (positions.h), and where the writer really puts things.       *)
(***************************************************************************)
P_HEADER_LENGTH == 4
P_HEADER        == 7
P_FILE_DATA     == 9

LengthAt == 4 + 1                   \* magic number and version, padding
HeaderAt == LengthAt + 2
ChunkAt  == HeaderAt + length + 2   \* header, end-of-header marker

\* Mutant of __ba_get_hdrlen: the bytes are not brought into the host's order.
__ba_get_hdrlen_raw(host) == Int16(Value(host, field))

\* __ba_get_hdrlen: one byte is skipped from P_HEADER_LENGTH.
LengthReadAt == P_HEADER_LENGTH + 1
__ba_get_hdrlen(host) == Int16(ltos16(host, Value(host, field)))

\* Where __ba_buffer_file() and __ba_save_entry_dir() seek for the data chunk.
ChunkReadAt == P_FILE_DATA + hdrlen

(***************************************************************************)
(* Writing and reading.                                                    *)
(***************************************************************************)
Init ==
    /\ length = None
    /\ field = <<>>
    /\ hdrlen = None

\* The front part of __ba_create_archive_file; a longer header is refused.
\* The file is written once; it can be read any number of times.
__ba_create_archive_file(host, len) ==
    /\ len < 65534
    /\ length' = len
    /\ field' = Memory(host, stol16(host, len))
    /\ hdrlen' = None

__ba_load_header(host) ==
    /\ length # None
    /\ hdrlen' = __ba_get_hdrlen(host)
    /\ UNCHANGED <<length, field>>

Write ==
    /\ length = None
    /\ \E host \in Hosts, len \in 0 .. MaxLength : __ba_create_archive_file(host, len)

Next == Write \/ \E host \in Hosts : __ba_load_header(host)

Spec == Init /\ [][Next]_vars

(***************************************************************************)
(* Properties.                                                             *)
(***************************************************************************)
\* Whatever the byte order of the host that wrote an archive and of the host
\* that reads it, the reader looks for the length and the header where they are.  It
\* gets the length that was written (__ba_load_header allocates and reads that many
\* bytes), and seeks to the first byte of the data chunk, exactly if the header is
\* shorter than 32768 bytes: half of what the writer accepts (box_archive.c:90, :1149).
ChunkFound ==
    hdrlen # None =>
        /\ LengthReadAt = LengthAt
        /\ P_HEADER = HeaderAt
        /\ hdrlen = length <=> length < 32768
        /\ ChunkReadAt = ChunkAt <=> length < 32768
=============================================================================
