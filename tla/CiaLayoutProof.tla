---------------------------- MODULE CiaLayoutProof ----------------------------
(***************************************************************************)
(* The walk through a CIA file for files of any size and any numbers in    *)
(* them.  What must be carried along is that the sums of bounded sections  *)
(* stay below the word size, so that Add and Subtract are plain.           *)
(***************************************************************************)
EXTENDS CiaLayout, TLAPS

Walking == {"tmd", "count", "ticket", "contents"}

Types ==
    /\ pc \in {"header"} \cup Walking \cup Ends
    /\ size \in Nat /\ size <= MaxInput
    /\ h \in [cert : Nat, tik : Nat, tmd : Nat, meta : Nat, content : Nat]
    /\ s \in [ticket : Nat, tmd : Nat, content : Nat, end : Nat]
    /\ body \in Bodies \cup {0}
    /\ count \in Nat /\ index \in Nat /\ offset \in Nat
    /\ span \in [at : Nat, len : Nat]
    /\ peek \in [at : Nat, len : Nat, of : Nat]

\* What the checks made so far have established.
Known ==
    /\ pc = "header" => size >= HeaderSize /\ index = 0
    /\ pc \in Walking => Bounded(h)
    /\ pc \in {"tmd", "count", "ticket"} => index = 0
    /\ pc \in Walking \ {"tmd"} => body # 0 /\ h.tmd >= body + MinTmd
    /\ pc \in {"ticket", "contents"} => RoomFor(count)
    /\ pc = "contents" => index <= count /\ offset >= s.content + 512 * index

Inv == Types /\ ReadsInsideFile /\ UsesInsideSection /\ SectionsInOrder /\ Known /\ ContentsFill

\* Below the word size uint64_t addition is addition.
LEMMA AddPlain ==
    ASSUME NEW a \in Nat, NEW b \in Nat, a + b < Word
    PROVE  Add(a, b) = a + b
BY DEF Add

\* Align rounds up to the next multiple of 64.
LEMMA AlignUp ==
    ASSUME NEW n \in Nat, n + 63 < Word
    PROVE  Align(n) \in Nat /\ n <= Align(n) /\ Align(n) <= n + 63 /\ Align(n) % 64 = 0
<1>1. Add(n, 63) = n + 63 BY AddPlain
<1> QED BY <1>1 DEF Align

\* What the proofs use of the constants.
LEMMA Sizes ==
    /\ MaxSection \in Nat /\ MaxSection > 20000
    /\ Word \in Nat /\ MaxInput \in Nat /\ Word > 2 * MaxInput + 8 * MaxSection
BY SMT, WordAssumption DEF MaxSection

\* Every input is a number.
LEMMA Inputs ==
    /\ \A n \in FileSizes : n \in Nat
    /\ \A n \in Fields : n \in Nat
    /\ \A n \in Lengths : n \in Nat
    /\ \A n \in Counts : n \in Nat
BY InputAssumption, Sizes

\* A section that follows another begins at the next multiple of 64.
LEMMA Follow ==
    ASSUME NEW a \in Nat, NEW b \in Nat, a + b + 63 < Word, NEW c, c = Align(Add(a, b))
    PROVE  c \in Nat /\ a + b <= c /\ c <= a + b + 63 /\ c % 64 = 0
<1>1. Add(a, b) = a + b BY Sizes, AddPlain
<1> QED BY <1>1, AlignUp

\* Bounded sizes give sections in order that do not wrap.
LEMMA SectionsPlain ==
    ASSUME NEW x \in [cert : Nat, tik : Nat, tmd : Nat, meta : Nat, content : Nat], Bounded(x)
    PROVE  LET y == Sections(x)
           IN /\ y \in [ticket : Nat, tmd : Nat, content : Nat, end : Nat]
              /\ HeaderSize + x.cert <= y.ticket /\ y.ticket + x.tik <= y.tmd
              /\ y.tmd + x.tmd <= y.content /\ y.content <= y.end
              /\ y.ticket % 64 = 0 /\ y.tmd % 64 = 0 /\ y.content % 64 = 0
<1>n. /\ x.cert \in Nat /\ x.tik \in Nat /\ x.tmd \in Nat /\ x.content \in Nat
      /\ x.cert <= MaxSection /\ x.tik <= MaxSection /\ x.tmd <= MaxSection
      /\ x.content <= MaxInput
  BY DEF Bounded
<1>h. HeaderSize \in Nat /\ HeaderSize < 10000 BY DEF HeaderSize
<1>0. PICK cert, tik, tmdSize, contentSize : /\ cert = x.cert /\ tik = x.tik
                                            /\ tmdSize = x.tmd /\ contentSize = x.content
  OBVIOUS
<1>b. /\ cert \in Nat /\ tik \in Nat /\ tmdSize \in Nat /\ contentSize \in Nat
      /\ cert <= MaxSection /\ tik <= MaxSection /\ tmdSize <= MaxSection
      /\ contentSize <= MaxInput
  BY <1>n, <1>0
<1>1. PICK ticket : ticket = Align(Add(HeaderSize, cert)) OBVIOUS
<1>2. HeaderSize + cert + 63 < Word BY <1>b, <1>h, Sizes
<1>3. ticket \in Nat /\ HeaderSize + cert <= ticket /\ ticket <= HeaderSize + cert + 63
      /\ ticket % 64 = 0
  BY <1>1, <1>2, <1>b, <1>h, Follow
<1>4. ticket <= 2 * MaxSection
  <2>1. HeaderSize + cert + 63 <= 2 * MaxSection BY <1>b, <1>h, Sizes
  <2> QED BY <2>1, <1>3, <1>b, <1>h, Sizes
<1>5. PICK tmd : tmd = Align(Add(ticket, tik)) OBVIOUS
<1>6. ticket + tik + 63 < Word BY <1>b, <1>3, <1>4, Sizes
<1>7. tmd \in Nat /\ ticket + tik <= tmd /\ tmd <= ticket + tik + 63 /\ tmd % 64 = 0
  BY <1>5, <1>6, <1>b, <1>3, Follow
<1>8. tmd <= 4 * MaxSection BY <1>3, <1>4, <1>7, <1>b, Sizes
<1>9. PICK content : content = Align(Add(tmd, tmdSize)) OBVIOUS
<1>10. tmd + tmdSize + 63 < Word BY <1>b, <1>7, <1>8, Sizes
<1>11. /\ content \in Nat /\ tmd + tmdSize <= content /\ content <= tmd + tmdSize + 63
       /\ content % 64 = 0
  BY <1>9, <1>10, <1>b, <1>7, Follow
<1>12. content <= 6 * MaxSection BY <1>7, <1>8, <1>11, <1>b, Sizes
<1>13. content + contentSize < Word BY <1>b, <1>11, <1>12, Sizes
<1>14. PICK end : end = Add(content, contentSize) OBVIOUS
<1>15. end = content + contentSize BY <1>11, <1>13, <1>14, <1>b, AddPlain
<1>16. end \in Nat /\ content <= end BY <1>11, <1>15, <1>b
<1>17. Sections(x) = [ticket |-> ticket, tmd |-> tmd, content |-> content, end |-> end]
  BY <1>0, <1>1, <1>5, <1>9, <1>14 DEF Sections
<1> QED BY <1>0, <1>3, <1>7, <1>11, <1>16, <1>17

\* A file of a size that is accepted and not yet read.
LEMMA InitInv == Init => Inv
<1> SUFFICES ASSUME Init PROVE Inv OBVIOUS
<1> USE DEF Init, Walking, Ends
<1>1. Types
  BY Inputs, Sizes DEF Types, Bodies, NoHeader, NoSections, Nothing, NoPeek
<1>2. ReadsInsideFile /\ UsesInsideSection
  BY Inputs DEF ReadsInsideFile, UsesInsideSection, Inside, Nothing, NoPeek
<1>3. SectionsInOrder /\ ContentsFill BY DEF SectionsInOrder, ContentsFill
<1>4. Known BY DEF Known
<1> QED BY <1>1, <1>2, <1>3, <1>4 DEF Inv

\* Every check keeps the walk inside.
LEMMA NextInv == Inv /\ [Next]_vars => Inv'
<1> SUFFICES ASSUME Inv, [Next]_vars PROVE Inv' OBVIOUS
<1> USE DEF Walking, Ends
<1>t. Types /\ ReadsInsideFile /\ UsesInsideSection /\ SectionsInOrder /\ Known /\ ContentsFill
  BY DEF Inv
<1>w. /\ MaxSection \in Nat /\ MaxSection > 20000
      /\ Word \in Nat /\ MaxInput \in Nat /\ Word > 2 * MaxInput + 8 * MaxSection
  BY Sizes
<1>1. CASE Header
  <2>1. h' \in [cert : Nat, tik : Nat, tmd : Nat, meta : Nat, content : Nat]
    BY <1>1, Inputs DEF Header
  <2>2. ReadsInsideFile' /\ UsesInsideSection'
    BY <1>1, <1>t DEF Header, Read, ReadsInsideFile, UsesInsideSection, Inside, Types, Known, HeaderSize
  <2>3. CASE pc' \in Ends \ {"accepted"} /\ s' = s
    BY <1>1, <1>t, <2>1, <2>2, <2>3
    DEF Header, Read, Inv, Types, SectionsInOrder, Known, ContentsFill, HeaderSize
  <2>4. CASE Bounded(h') /\ s' = Sections(h') /\ Require(Fits(h', s'), "INVALID_FILE", "tmd")
    <3>1. /\ s' \in [ticket : Nat, tmd : Nat, content : Nat, end : Nat]
          /\ HeaderSize + h'.cert <= s'.ticket /\ s'.ticket + h'.tik <= s'.tmd
          /\ s'.tmd + h'.tmd <= s'.content /\ s'.content <= s'.end
          /\ s'.ticket % 64 = 0 /\ s'.tmd % 64 = 0 /\ s'.content % 64 = 0
      BY <2>1, <2>4, SectionsPlain
    <3>2. pc' = "INVALID_FILE" \/ (pc' = "tmd" /\ s'.end <= size)
      BY <2>4 DEF Require, Fits
    <3>3. Types' BY <1>1, <1>t, <2>1, <3>1, <3>2 DEF Header, Read, Types, HeaderSize
    <3>4. SectionsInOrder' BY <1>1, <3>1, <3>2 DEF Header, SectionsInOrder
    <3>5. Known' BY <1>1, <1>t, <2>4, <3>2 DEF Header, Known
    <3>6. ContentsFill' BY <3>2 DEF ContentsFill
    <3> QED BY <2>2, <3>3, <3>4, <3>5, <3>6 DEF Inv
  <2> QED BY <1>1, <2>3, <2>4 DEF Header
<1>2. CASE ReadTmd
  <2>1. Types' BY <1>2, <1>t DEF ReadTmd, Read, Use, Require, Types, Bodies
  <2>a. ReadsInsideFile'
    BY <1>2, <1>t DEF ReadTmd, Read, ReadsInsideFile, SectionsInOrder, Inside, Types
  <2>b. SectionsInOrder'
    <3>1. s' = s /\ h' = h /\ size' = size BY <1>2 DEF ReadTmd
    <3>2. pc = "tmd" /\ pc' \in {"INVALID_FILE", "count"} BY <1>2 DEF ReadTmd, Require
    <3> QED BY <1>t, <3>1, <3>2 DEF SectionsInOrder
  <2>3. UsesInsideSection'
    BY <1>2, <1>t DEF ReadTmd, Use, UsesInsideSection, Inside, Types, Known, Bounded, MinTmd
  <2>4. Known' /\ ContentsFill'
    BY <1>2, <1>t DEF ReadTmd, Require, Known, ContentsFill, Bounded
  <2> QED BY <2>1, <2>a, <2>b, <2>3, <2>4 DEF Inv
<1>3. CASE ReadCount
  <2>1. Types' BY <1>3, <1>t, Inputs DEF ReadCount, Use, Require, Types, Bodies
  <2>2. ReadsInsideFile' /\ SectionsInOrder'
    BY <1>3, <1>t DEF ReadCount, Require, ReadsInsideFile, SectionsInOrder, Inside, Types
  <2>3. UsesInsideSection'
    BY <1>3, <1>t DEF ReadCount, Use, UsesInsideSection, Inside, Types, Known, MinTmd, Bodies
  <2>4. Known' /\ ContentsFill'
    BY <1>3, <1>t DEF ReadCount, Require, Known, ContentsFill, Bounded, RoomFor
  <2> QED BY <2>1, <2>2, <2>3, <2>4 DEF Inv
<1>4. CASE ReadTicket
  <2>1. Types' BY <1>4, <1>t DEF ReadTicket, Read, Require, Types, Bodies, MinTicket
  <2>a. ReadsInsideFile'
    BY <1>4, <1>t DEF ReadTicket, Read, ReadsInsideFile, SectionsInOrder, Inside, Types
  <2>b. SectionsInOrder'
    <3>1. s' = s /\ h' = h /\ size' = size BY <1>4 DEF ReadTicket
    <3>2. pc' \in Walking => pc' # "contents" \/ offset' = s.content
      BY <1>4 DEF ReadTicket, Require
    <3> QED BY <1>4, <1>t, <3>1, <3>2 DEF ReadTicket, SectionsInOrder, Types
  <2>3. UsesInsideSection'
    BY <1>4, <1>t DEF ReadTicket, UsesInsideSection, Inside, Types, Known, Bounded, MinTicket, Bodies
  <2>4. Known' /\ ContentsFill'
    BY <1>4, <1>t DEF ReadTicket, Require, Types, Known, ContentsFill, Bounded, RoomFor
  <2> QED BY <2>1, <2>a, <2>b, <2>3, <2>4 DEF Inv
<1>5. CASE CheckContent
  <2> PICK bytes \in Lengths, record \in {"ok", "INVALID_FILE", "UNSUPPORTED"}, hash \in BOOLEAN :
        IF record = "ok" /\ LengthOk(bytes)
        THEN /\ Read(offset, bytes)
             /\ Require(hash, "INVALID_FILE", "contents")
             /\ offset' = IF hash THEN Add(offset, bytes) ELSE offset
        ELSE /\ pc' = IF record = "ok" THEN "INVALID_FILE" ELSE record
             /\ UNCHANGED <<span, offset>>
    BY <1>5 DEF CheckContent
  <2>0. bytes \in Nat BY Inputs
  <2>1. /\ pc = "contents" /\ index < count /\ index \in Nat /\ count \in Nat
        /\ s.content <= offset /\ offset <= s.end /\ s.end <= size /\ size <= MaxInput
        /\ offset \in Nat /\ s.end \in Nat /\ s.content \in Nat /\ size \in Nat
        /\ index' = index + 1
    BY <1>5, <1>t DEF CheckContent, Types, SectionsInOrder
  <2>u. UsesInsideSection'
    <3>1. h.tmd \in Nat /\ h.tmd >= body + MinTmd + count * InfoSize /\ body \in Nat
      BY <1>t, <2>1 DEF Types, Known, RoomFor, Bodies
    <3>2. peek' = [at |-> body + MinTmd + index * InfoSize, len |-> InfoSize, of |-> h.tmd]
      BY <1>5 DEF CheckContent, Use
    <3> QED BY <2>1, <3>1, <3>2 DEF UsesInsideSection, Inside, MinTmd, InfoSize
  <2>p. peek' \in [at : Nat, len : Nat, of : Nat]
    BY <1>5, <1>t, <2>1 DEF CheckContent, Use, Types, Bodies, MinTmd, InfoSize
  <2>2. CASE record = "ok" /\ LengthOk(bytes)
    <3>1. bytes >= 512 /\ bytes <= s.end - offset BY <2>0, <2>1, <2>2 DEF LengthOk, Subtract
    <3>2. Add(offset, bytes) = offset + bytes BY <2>0, <2>1, <3>1, <1>w, AddPlain
    <3>3. /\ span' = [at |-> offset, len |-> bytes]
          /\ \/ pc' = "INVALID_FILE" /\ offset' = offset
             \/ pc' = "contents" /\ offset' = offset + bytes
      BY <2>2, <3>2 DEF Read, Require
    <3>4. Types' BY <1>5, <1>t, <2>0, <2>1, <2>p, <3>3 DEF CheckContent, Types
    <3>5. ReadsInsideFile' BY <1>5, <2>0, <2>1, <3>1, <3>3 DEF CheckContent, ReadsInsideFile, Inside
    <3>6. SectionsInOrder'
      BY <1>5, <1>t, <2>0, <2>1, <3>1, <3>3 DEF CheckContent, SectionsInOrder
    <3>7. Known'
      BY <1>5, <1>t, <2>0, <2>1, <3>1, <3>3 DEF CheckContent, Known, Bounded, RoomFor
    <3>8. ContentsFill' BY <3>3 DEF ContentsFill
    <3> QED BY <2>u, <3>4, <3>5, <3>6, <3>7, <3>8 DEF Inv
  <2>3. CASE ~(record = "ok" /\ LengthOk(bytes))
    <3>1. pc' \in {"INVALID_FILE", "UNSUPPORTED"} /\ UNCHANGED <<span, offset>> BY <2>3
    <3>2. Types' BY <1>5, <1>t, <2>1, <2>p, <3>1 DEF CheckContent, Types
    <3>3. ReadsInsideFile' BY <1>5, <1>t, <3>1 DEF CheckContent, ReadsInsideFile, Inside
    <3>4. SectionsInOrder' /\ Known' /\ ContentsFill'
      BY <3>1 DEF SectionsInOrder, Known, ContentsFill
    <3> QED BY <2>u, <3>2, <3>3, <3>4 DEF Inv
  <2> QED BY <2>2, <2>3
<1>6. CASE Finish
  <2>1. Types' BY <1>6, <1>t DEF Finish, Require, Types
  <2>2. ReadsInsideFile' /\ UsesInsideSection' /\ SectionsInOrder'
    BY <1>6, <1>t DEF Finish, Require, ReadsInsideFile, UsesInsideSection, SectionsInOrder, Inside
  <2>3. Known' BY <1>6 DEF Finish, Require, Known
  <2>4. ContentsFill'
    BY <1>6, <1>t DEF Finish, Require, ContentsFill, Known, RoomFor, Types
  <2> QED BY <2>1, <2>2, <2>3, <2>4 DEF Inv
<1>7. CASE UNCHANGED vars
  <2>1. Types' BY <1>7, <1>t DEF vars, Types
  <2>2. ReadsInsideFile' /\ UsesInsideSection' /\ SectionsInOrder' /\ ContentsFill'
    BY <1>7, <1>t DEF vars, ReadsInsideFile, UsesInsideSection, Inside, SectionsInOrder, ContentsFill
  <2>3. Known' BY <1>7, <1>t DEF vars, Known, Bounded, RoomFor
  <2> QED BY <2>1, <2>2, <2>3 DEF Inv
<1> QED BY <1>1, <1>2, <1>3, <1>4, <1>5, <1>6, <1>7 DEF Next

\* The inductive invariant of the walk.
THEOREM LayoutInvariance == Spec => []Inv
BY InitInv, NextInv, PTL DEF Spec

\* For files of any size with any numbers in them Install reads inside them.
THEOREM FileReadsAreInside == Spec => []ReadsInsideFile
<1>1. Inv => ReadsInsideFile BY DEF Inv
<1> QED BY <1>1, LayoutInvariance, PTL

\* The raw pointers into the TMD and the ticket stay inside the vectors.
THEOREM SectionUsesAreInside == Spec => []UsesInsideSection
<1>1. Inv => UsesInsideSection BY DEF Inv
<1> QED BY <1>1, LayoutInvariance, PTL

\* Both kinds of access stay inside.
THEOREM AccessesAreInside == Spec => []AccessesInside
<1>1. ReadsInsideFile /\ UsesInsideSection => AccessesInside BY DEF AccessesInside
<1> QED BY <1>1, FileReadsAreInside, SectionUsesAreInside, PTL

\* Header never accepts overlapping sections, nor a wrapped end.
THEOREM SectionsAreInOrder == Spec => []SectionsInOrder
<1>1. Inv => SectionsInOrder BY DEF Inv
<1> QED BY <1>1, LayoutInvariance, PTL

\* An accepted file has no bytes between or behind its contents.
THEOREM ContentsFillSection == Spec => []ContentsFill
<1>1. Inv => ContentsFill BY DEF Inv
<1> QED BY <1>1, LayoutInvariance, PTL

===============================================================================
