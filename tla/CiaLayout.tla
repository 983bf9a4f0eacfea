------------------------------- MODULE CiaLayout -------------------------------
(***************************************************************************)
(* How the importer walks through a CIA file: Header, SignedBody and Read  *)
(* of cia_update_policy.h and the checks of Install between the copy and   *)
(* the installer.  Every number in the file is chosen freely; the byte     *)
(* ranges that are read are the state.                                     *)
(***************************************************************************)
EXTENDS Integers

CONSTANTS
    Word,        \* 2^64: arithmetic on uint64_t wraps
    MaxInput,    \* the largest file that is accepted
    FileSizes,   \* sizes a picked file may have
    Fields,      \* values of the 32-bit size fields of the header and the ticket
    Lengths,     \* values of the 64-bit content lengths
    Counts       \* values of the TMD's content count

HeaderSize == 8224    \* 0x2020
MaxSection == 1048576 \* 0x100000
MinTicket == 356      \* 0x164
MinTmd == 2500        \* 0x9c4
InfoSize == 48        \* 0x30, one content record of the TMD
MaxCount == 256
Bodies == {64, 320, 576}

ASSUME WordAssumption ==
    /\ MaxInput \in Nat
    /\ Word \in Nat /\ Word > 2 * MaxInput + 8 * MaxSection
ASSUME InputAssumption ==
    /\ FileSizes \subseteq Nat
    /\ Fields \subseteq 0 .. Word - 1 /\ Lengths \subseteq 0 .. Word - 1
    /\ Counts \subseteq Nat

\* Operands are below Word, so that a result wraps at most once.
Add(a, b) == IF a + b < Word THEN a + b ELSE a + b - Word
Subtract(a, b) == IF b <= a THEN a - b ELSE a - b + Word

\* (n + 63) & ~63
Align(n) == (Add(n, 63) \div 64) * 64

VARIABLES
    pc,       \* the next check, or how the walk ended
    size,     \* of the file
    h,        \* sizes the header states
    s,        \* struct Sections
    body,     \* where the signed part of the TMD begins
    count,    \* contents
    index,    \* the next content
    offset,   \* where it begins
    span,     \* the range of the file that was read last
    peek      \* the range of a section that was used last, and its size

vars == <<pc, size, h, s, body, count, index, offset, span, peek>>

Ends == {"accepted", "INVALID_FILE", "UNSUPPORTED"}
NoHeader == [cert |-> 0, tik |-> 0, tmd |-> 0, meta |-> 0, content |-> 0]
NoSections == [ticket |-> 0, tmd |-> 0, content |-> 0, end |-> 0]
Nothing == [at |-> 0, len |-> 0]
NoPeek == [at |-> 0, len |-> 0, of |-> 0]

Init ==
    /\ pc = "header"
    /\ size \in {n \in FileSizes : n >= HeaderSize /\ n <= MaxInput}
    /\ h = NoHeader /\ s = NoSections
    /\ body = 0 /\ count = 0 /\ index = 0 /\ offset = 0
    /\ span = Nothing /\ peek = NoPeek

Read(at, len) == span' = [at |-> at, len |-> len]
Use(at, len, of) == peek' = [at |-> at, len |-> len, of |-> of]

Require(ok, status, next) == pc' = IF ok THEN next ELSE status

-------------------------------------------------------------------------------

Bounded(x) ==
    /\ x.cert <= MaxSection /\ x.meta <= MaxSection
    /\ x.tik >= MinTicket /\ x.tik <= MaxSection
    /\ x.tmd >= MinTmd /\ x.tmd <= MaxSection
    /\ x.content <= MaxInput

\* Faulty: sections follow one another without the padding of the last.
SectionsPacked(x) ==
    LET ticket == Align(Add(HeaderSize, x.cert))
        tmd == Align(x.cert + x.tik)
        content == Align(Add(tmd, x.tmd))
    IN [ticket |-> ticket, tmd |-> tmd, content |-> content, end |-> Add(content, x.content)]

Sections(x) ==
    LET ticket == Align(Add(HeaderSize, x.cert))
        tmd == Align(Add(ticket, x.tik))
        content == Align(Add(tmd, x.tmd))
    IN [ticket |-> ticket, tmd |-> tmd, content |-> content, end |-> Add(content, x.content)]

\* Faulty: the contents need not end inside the file.
FitsWithoutEnd(x, y) == x.meta = 0 \/ Add(Align(y.content), x.meta) <= size

Fits(x, y) == y.end <= size /\ (x.meta = 0 \/ Add(Align(y.end), x.meta) <= size)

\* Type and version come first, then the sizes.
Header ==
    /\ pc = "header"
    /\ \E cert, tik, tmd, meta \in Fields, content \in Lengths :
        h' = [cert |-> cert, tik |-> tik, tmd |-> tmd, meta |-> meta, content |-> content]
    /\ Read(0, HeaderSize)
    /\ \/ pc' = "UNSUPPORTED" /\ UNCHANGED s
       \/ ~Bounded(h') /\ pc' = "INVALID_FILE" /\ UNCHANGED s
       \/ /\ Bounded(h')
          /\ s' = Sections(h')
          /\ Require(Fits(h', s'), "INVALID_FILE", "tmd")
    /\ UNCHANGED <<size, body, count, index, offset, peek>>

\* The signature type decides where the body begins; 0 is an unknown type.
ReadTmd ==
    /\ pc = "tmd"
    /\ Read(s.tmd, h.tmd)
    /\ \E b \in Bodies \cup {0} :
        /\ body' = b
        /\ Use(0, 4, h.tmd)
        /\ Require(b # 0 /\ h.tmd >= b + MinTmd, "INVALID_FILE", "count")
    /\ UNCHANGED <<size, h, s, count, index, offset>>

RoomFor(n) == n > 0 /\ n <= MaxCount /\ h.tmd >= body + MinTmd + n * InfoSize

\* The count, and the title id, which must be an update's.
ReadCount ==
    /\ pc = "count"
    /\ count' \in Counts
    /\ Use(body + 158, 2, h.tmd)
    /\ \E update \in BOOLEAN : Require(RoomFor(count') /\ update, "UNSUPPORTED", "ticket")
    /\ UNCHANGED <<size, h, s, body, index, offset, span>>

\* The ticket must name the same title and hold its content index.
ReadTicket ==
    /\ pc = "ticket"
    /\ Read(s.ticket, h.tik)
    /\ offset' = s.content
    /\ \E b \in Bodies \cup {0}, indexSize \in Fields, same \in BOOLEAN :
        LET ok == b # 0 /\ h.tik >= b + MinTicket + 8
        IN /\ peek' = IF ok THEN [at |-> b + MinTicket + 4, len |-> 4, of |-> h.tik]
                            ELSE [at |-> 0, len |-> 4, of |-> h.tik]
           /\ Require(/\ ok /\ same /\ indexSize >= 20
                      /\ Add(b + MinTicket, indexSize) <= h.tik, "INVALID_FILE", "contents")
    /\ UNCHANGED <<size, h, s, body, count, index>>

LengthOk(bytes) == bytes >= 512 /\ bytes <= Subtract(s.end, offset)

\* One content: its record, its length and, when it fits, its hash.
CheckContent ==
    /\ pc = "contents" /\ index < count
    /\ Use(body + MinTmd + index * InfoSize, InfoSize, h.tmd)
    /\ \E bytes \in Lengths, record \in {"ok", "INVALID_FILE", "UNSUPPORTED"}, hash \in BOOLEAN :
        IF record = "ok" /\ LengthOk(bytes)
        THEN /\ Read(offset, bytes)
             /\ Require(hash, "INVALID_FILE", "contents")
             /\ offset' = IF hash THEN Add(offset, bytes) ELSE offset
        ELSE /\ pc' = IF record = "ok" THEN "INVALID_FILE" ELSE record
             /\ UNCHANGED <<span, offset>>
    /\ index' = index + 1
    /\ UNCHANGED <<size, h, s, body, count>>

\* Faulty: what is left over is not looked at.
FinishAnywhere ==
    /\ pc = "contents" /\ index = count
    /\ pc' = "accepted"
    /\ UNCHANGED <<size, h, s, body, count, index, offset, span, peek>>

Finish ==
    /\ pc = "contents" /\ index = count
    /\ Require(offset = s.end, "INVALID_FILE", "accepted")
    /\ UNCHANGED <<size, h, s, body, count, index, offset, span, peek>>

Next == Header \/ ReadTmd \/ ReadCount \/ ReadTicket \/ CheckContent \/ Finish

Spec == Init /\ [][Next]_vars

-------------------------------------------------------------------------------
(* Properties                                                               *)

Inside(at, len, of) == at >= 0 /\ len >= 0 /\ at + len <= of

\* Whatever the numbers in the file, the importer seeks and reads only inside
\* the file: no sum wraps round and no section starts before the last ends.
ReadsInsideFile == Inside(span.at, span.len, size)

\* tmd_bytes and ticket are indexed with raw pointers: only inside the vector.
UsesInsideSection == Inside(peek.at, peek.len, peek.of)

\* The two together: no access of the importer leaves what it reads from.
AccessesInside == ReadsInsideFile /\ UsesInsideSection

\* Sections that are read do not overlap: header and certificates, ticket, TMD
\* and contents lie one after the other, each on a 64-byte boundary, and the
\* next content never begins behind the end it is subtracted from.
SectionsInOrder ==
    pc \notin {"header"} \cup Ends =>
        /\ HeaderSize + h.cert <= s.ticket /\ s.ticket + h.tik <= s.tmd
        /\ s.tmd + h.tmd <= s.content /\ s.content <= s.end /\ s.end <= size
        /\ {s.ticket % 64, s.tmd % 64, s.content % 64} = {0}
        /\ pc = "contents" => s.content <= offset /\ offset <= s.end

\* An accepted file's contents fill the content section exactly, and at least
\* the 512 bytes of a header each.
ContentsFill ==
    pc = "accepted" => /\ offset = s.end /\ index = count /\ count > 0
                       /\ s.end - s.content >= 512 * count

===============================================================================
