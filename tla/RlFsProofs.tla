----------------------------- MODULE RlFsProofs -----------------------------
(***************************************************************************)
(* Proofs about RlFs, for every number of clients and pages, every page    *)
(* size and every offset and count they may call with: its type invariant, *)
(* what the file holds of the last write that was alone in copying to it,  *)
(* that a read beside no such copy returns it, and where the page NULL is  *)
(* touched.                                                                *)
(***************************************************************************)
EXTENDS RlFs, TLAPS

\* A client inside read or write has a buffer, and copies with a page.
BufInv ==
    \A p \in Client :
        /\ pc[p] \in WriterPc \cup ReaderPc => buf[p] \in Client
        /\ pc[p] \in {"copyin", "copyout"} => pg[p] \in Page

\* What is copied lies within the page.
CountInv ==
    \A p \in Client :
        /\ pc[p] \notin {"copyin", "copyout"} => k[p] = 0
        /\ pc[p] \in {"start", "copyin"} => k[p] <= len[p] /\ len[p] <= PageSize
        /\ pc[p] \in {"load", "copyout"} => k[p] <= len[p] /\ off[p] + len[p] <= PageSize

\* The buffer that an open is about to store is a new one, and as long as no
\* open has stored one nobody has any.
UnusedInv ==
    \A b \in Client :
        private = None \/ pc[b] = "opening" =>
            /\ private # b /\ size[b] = 0 /\ page[b] = None
            /\ \A q \in Client : buf[q] # b

\* Only a call that began when there was nothing allocates.
FirstInv == \A p \in Client : pc[p] \in {"opening", "alloc"} => p \in first

\* Who is copying to the file and has been alone so far is alone, and copies
\* to the page that the file has.
SoloInv ==
    \A p \in Client : solo = p =>
        /\ Copying(p) /\ pg[p] = page[private]
        /\ \A q \in Client : Copying(q) => q = p

\* Until a failed allocation takes a page away, a buffer with bytes has one,
\* and so has the one that a client is about to copy from or to.
PageInv ==
    \/ starved
    \/ /\ \A b \in Client : size[b] > 0 => page[b] # None
       /\ \A p \in Client : pc[p] \in {"start", "copyin", "clip", "cut", "load"} => page[buf[p]] # None
       /\ \A p \in Client : pc[p] # "oops"

\* While it is known what the file holds nobody copies to it but who has been
\* alone, and beside a read that nothing has disturbed nobody does.
QuietInv ==
    /\ known => \A p \in Client : Copying(p) => solo = p
    /\ \A p \in Client : stable[p] => known /\ \A q \in Client : ~Copying(q)
    /\ private = None => last = <<None, 0>>

\* Who has been alone so far finds in the page what it has copied.
CopyInv ==
    \A p \in Client : solo = p =>
        \A i \in Index : i < k[p] => mem[private][page[private]][i] = <<p, i>>

\* A read during which the file keeps what it holds has its size and its page.
Reading(p) ==
    stable[p] /\ pc[p] \in ReaderPc =>
        /\ buf[p] = private
        /\ pc[p] \in {"clip", "cut"} => seen[p] = last[2] /\ off[p] < last[2]
        /\ pc[p] \in {"load", "copyout"} => off[p] + len[p] <= last[2] /\ off[p] < last[2]
        /\ pc[p] = "copyout" =>
              /\ pg[p] = page[private]
              /\ \A i \in Index : i < k[p] => out[p][i] = HeldByte(off[p] + i)

ReadInv == \A p \in Client : Reading(p)

IInv ==
    /\ TypeOK /\ BufInv /\ CountInv /\ UnusedInv /\ FirstInv /\ SoloInv /\ PageInv
    /\ QuietInv /\ CopyInv /\ FileHoldsLastWrite /\ ReadInv

-----------------------------------------------------------------------------

\* Zero is a size and an index, and the bytes that are not known are bytes.
LEMMA ZeroFacts ==
    /\ PageSize \in Nat /\ 0 \in 0..PageSize /\ 0 \in Index
    /\ ZeroedPage \in [Index -> Byte] /\ <<None, 0>> \in Byte
    /\ <<None, 0>> \in (Client \cup {None}) \X (0..PageSize)
BY RlFsAssumption DEF ZeroedPage, Byte, Index

LEMMA InitIInv == Init => IInv
<1> SUFFICES ASSUME Init PROVE IInv
  OBVIOUS
<1> USE RlFsAssumption DEF Init, WriterPc, ReaderPc, Index
<1>1. TypeOK
  <2>1. FileType
    BY ZeroFacts DEF FileType
  <2>2. CallType
    BY ZeroFacts DEF CallType
  <2>3. SeenType
    BY ZeroFacts DEF SeenType
  <2> QED
    BY <2>1, <2>2, <2>3 DEF TypeOK
<1>2. BufInv /\ CountInv /\ UnusedInv /\ FirstInv /\ SoloInv /\ PageInv
  BY DEF BufInv, CountInv, UnusedInv, FirstInv, SoloInv, PageInv
<1>3. QuietInv /\ CopyInv /\ FileHoldsLastWrite /\ ReadInv
  BY DEF QuietInv, CopyInv, FileHoldsLastWrite, ReadInv, Reading, Copying
<1> QED
  BY <1>1, <1>2, <1>3 DEF IInv

-----------------------------------------------------------------------------

\* What Return leaves.
LEMMA ReturnType ==
    ASSUME CallType, NEW p \in Client, Return(p)
    PROVE  CallType'
BY ZeroFacts DEF CallType, Return

LEMMA StepFileType ==
    ASSUME TypeOK, BufInv, CountInv, [Next]_vars
    PROVE  FileType'
<1> USE RlFsAssumption
<1>1. FileType
  BY DEF TypeOK
<1>2. CASE LoadStep
  BY <1>1, <1>2 DEF FileType, LoadStep, Register, Mount, MountFails, CreateFile, file_vars
<1>3. ASSUME NEW p \in Client, OpenStep(p) PROVE FileType'
  BY <1>1, <1>3 DEF FileType, OpenStep, OpenTest, OpenSet, OpenFails, Close, file_vars
<1>4. ASSUME NEW p \in Client, ReadStep(p) PROVE FileType'
  <2>1. UNCHANGED <<fs, file, private, size, page, mem>>
    BY <1>4 DEF ReadStep, Read, Clip, Cut, Load, ReadByte, ReadEnd, file_vars
  <2> QED
    BY <1>1, <2>1 DEF FileType
<1>5. ASSUME NEW p \in Client, NEW o \in Offset, NEW n \in Count, Write(p, o, n) PROVE FileType'
  BY <1>1, <1>5 DEF FileType, Write, file_vars
<1>6. ASSUME NEW p \in Client, Alloc(p) PROVE FileType'
  <2>1. PICK w \in Page \cup {None} :
          /\ page' = [page EXCEPT ![buf[p]] = w]
          /\ mem' = IF w = None THEN mem ELSE [mem EXCEPT ![buf[p]][w] = ZeroedPage]
    BY <1>6 DEF Alloc, FreePages
  <2>2. page' \in [Client -> Page \cup {None}]
    BY <1>1, <2>1 DEF FileType
  <2>3. mem' \in [Client -> [Page -> [Index -> Byte]]]
    <3>1. CASE w = None
      BY <1>1, <2>1, <3>1 DEF FileType
    <3>2. CASE w # None
      <4>1. w \in Page /\ buf[p] \in Client
        BY <1>6, <3>2 DEF BufInv, Alloc, WriterPc
      <4>2. mem' = [mem EXCEPT ![buf[p]][w] = ZeroedPage]
        BY <2>1, <3>2
      <4> QED
        BY <1>1, <4>1, <4>2, ZeroFacts DEF FileType
    <3> QED
      BY <3>1, <3>2
  <2> QED
    BY <1>1, <1>6, <2>2, <2>3 DEF FileType, Alloc
<1>7. ASSUME NEW p \in Client, Check(p) \/ Start(p) PROVE FileType'
  BY <1>1, <1>7 DEF FileType, Check, Start, file_vars
<1>8. ASSUME NEW p \in Client, WriteByte(p) PROVE FileType'
  <2>1. k[p] \in Nat /\ len[p] \in Nat /\ k[p] < len[p] /\ len[p] <= PageSize
    BY <1>8 DEF TypeOK, CallType, CountInv, WriteByte
  <2>2. k[p] \in Index /\ <<p, k[p]>> \in Byte
    <3>1. PageSize \in Nat
      BY ZeroFacts
    <3>2. k[p] \in Index
      BY <2>1, <3>1 DEF Index
    <3> QED
      BY <3>2 DEF Byte
  <2>3. buf[p] \in Client /\ pg[p] \in Page
    BY <1>8 DEF BufInv, WriteByte, WriterPc
  <2>4. mem \in [Client -> [Page -> [Index -> Byte]]]
    BY <1>1 DEF FileType
  <2>5. mem' \in [Client -> [Page -> [Index -> Byte]]]
    <3>1. mem' = [mem EXCEPT ![buf[p]][pg[p]][k[p]] = <<p, k[p]>>]
      BY <1>8 DEF WriteByte
    <3>2. DEFINE v == <<p, k[p]>>
    <3>3. v \in Byte
      BY <2>2
    <3> HIDE DEF v
    <3> QED
      BY <2>2, <2>3, <2>4, <3>1, <3>3 DEF v
  <2> QED
    BY <1>1, <1>8, <2>5 DEF FileType, WriteByte
<1>9. ASSUME NEW p \in Client, WriteFault(p) PROVE FileType'
  <2>1. buf[p] \in Client /\ pg[p] \in Page
    BY <1>9 DEF BufInv, WriteFault, WriterPc
  <2>2. mem' \in [Client -> [Page -> [Index -> Byte]]]
    BY <1>1, <1>9, <2>1, ZeroFacts DEF FileType, WriteFault
  <2> QED
    BY <1>1, <1>9, <2>2 DEF FileType, WriteFault
<1>10. ASSUME NEW p \in Client, SetSize(p) PROVE FileType'
  <2>1. len[p] \in 0..PageSize
    BY <1>10 DEF TypeOK, CallType, SetSize
  <2> QED
    BY <1>1, <1>10, <2>1 DEF FileType, SetSize
<1>11. CASE UNCHANGED vars
  BY <1>1, <1>11 DEF FileType, vars, file_vars
<1> QED
  BY <1>2, <1>3, <1>4, <1>5, <1>6, <1>7, <1>8, <1>9, <1>10, <1>11 DEF Next, WriteStep

LEMMA StepCallType ==
    ASSUME TypeOK, BufInv, CountInv, [Next]_vars
    PROVE  CallType'
<1> USE RlFsAssumption
<1>1. CallType
  BY DEF TypeOK
<1>2. CASE LoadStep
  BY <1>1, <1>2 DEF CallType, LoadStep, Register, Mount, MountFails, CreateFile, call_vars
<1>3. ASSUME NEW p \in Client, OpenStep(p) PROVE CallType'
  BY <1>1, <1>3 DEF CallType, OpenStep, OpenTest, OpenSet, OpenFails, Close
<1>4. ASSUME NEW p \in Client, NEW o \in Offset, NEW n \in Count, Read(p, o, n) PROVE CallType'
  <2>1. private \in Client /\ size[private] \in 0..PageSize
    BY <1>4 DEF TypeOK, FileType, Read
  <2> QED
    BY <1>1, <1>4, <2>1 DEF CallType, Read, ReaderPc
<1>5. ASSUME NEW p \in Client, NEW s \in Sizes(p), Clip(p) \/ Cut(p)
      PROVE  s \in 0..PageSize
  <2>1. buf[p] \in Client
    BY <1>5 DEF BufInv, Clip, Cut, ReaderPc
  <2> QED
    BY <1>5, <2>1 DEF TypeOK, FileType, CallType, Sizes
<1>6. ASSUME NEW p \in Client, Clip(p) PROVE CallType'
  <2>1. PICK s \in Sizes(p) :
          IF off[p] + len[p] > s
          THEN pc' = [pc EXCEPT ![p] = "cut"] /\ seen' = [seen EXCEPT ![p] = s]
          ELSE pc' = [pc EXCEPT ![p] = "load"] /\ seen' = [seen EXCEPT ![p] = 0]
    BY <1>6 DEF Clip
  <2>2. s \in 0..PageSize
    BY <1>5, <1>6
  <2>3. CASE off[p] + len[p] > s
    <3>1. pc' = [pc EXCEPT ![p] = "cut"] /\ seen' = [seen EXCEPT ![p] = s]
      BY <2>1, <2>3
    <3> QED
      BY <1>1, <1>6, <2>2, <3>1 DEF CallType, Clip, ReaderPc
  <2>4. CASE ~(off[p] + len[p] > s)
    BY <1>1, <1>6, <2>1, <2>4, ZeroFacts DEF CallType, Clip, ReaderPc
  <2> QED
    BY <2>3, <2>4
<1>7. ASSUME NEW p \in Client, Cut(p) PROVE CallType'
  <2>1. PICK s \in Sizes(p) :
          IF s <= off[p]
          THEN Return(p)
          ELSE /\ len' = [len EXCEPT ![p] = s - off[p]]
               /\ pc' = [pc EXCEPT ![p] = "load"]
               /\ seen' = [seen EXCEPT ![p] = 0]
               /\ UNCHANGED <<off, buf, pg, k, out>>
    BY <1>7 DEF Cut
  <2>2. s \in 0..PageSize /\ off[p] \in Nat
    BY <1>1, <1>5, <1>7 DEF CallType
  <2>3. CASE s <= off[p]
    BY <1>1, <2>1, <2>3, ReturnType
  <2>4. CASE ~(s <= off[p])
    <3>1. s - off[p] \in Nat
      BY <2>2, <2>4
    <3> QED
      <4>1. /\ len' = [len EXCEPT ![p] = s - off[p]]
            /\ pc' = [pc EXCEPT ![p] = "load"]
            /\ seen' = [seen EXCEPT ![p] = 0]
            /\ UNCHANGED <<off, buf, pg, k, out>>
        BY <2>1, <2>4
      <4> QED
        BY <1>1, <3>1, <4>1, ZeroFacts DEF CallType, ReaderPc
  <2> QED
    BY <2>3, <2>4
<1>8. ASSUME NEW p \in Client, Load(p) PROVE CallType'
  <2>1. page[buf[p]] \in Page \cup {None}
    BY <1>8 DEF TypeOK, FileType, BufInv, Load, ReaderPc
  <2> QED
    BY <1>1, <1>8, <2>1 DEF CallType, Load, ReaderPc
<1>9. ASSUME NEW p \in Client, ReadByte(p) PROVE CallType'
  <2>1. /\ k[p] \in Nat /\ off[p] \in Nat /\ len[p] \in Nat /\ PageSize \in Nat
        /\ k[p] < len[p] /\ off[p] + len[p] <= PageSize
    BY <1>1, <1>9, ZeroFacts DEF CallType, CountInv, ReadByte
  <2>2. k[p] \in Index /\ off[p] + k[p] \in Index /\ k[p] + 1 \in 0..PageSize
    BY <2>1 DEF Index
  <2>3. buf[p] \in Client /\ pg[p] \in Page
    BY <1>9 DEF BufInv, ReadByte, ReaderPc
  <2>4. mem[buf[p]][pg[p]][off[p] + k[p]] \in Byte
    BY <2>2, <2>3 DEF TypeOK, FileType
  <2>5. out' \in [Client -> [Index -> Byte]]
    BY <1>1, <1>9, <2>2, <2>4 DEF CallType, ReadByte
  <2>6. k' \in [Client -> 0..PageSize]
    BY <1>1, <1>9, <2>2 DEF CallType, ReadByte
  <2> QED
    BY <1>1, <1>9, <2>5, <2>6 DEF CallType, ReadByte
<1>10. ASSUME NEW p \in Client, ReadEnd(p) \/ SetSize(p) PROVE CallType'
  BY <1>1, <1>10, ReturnType DEF ReadEnd, SetSize
<1>11. ASSUME NEW p \in Client, NEW o \in Offset, NEW n \in Count, Write(p, o, n) PROVE CallType'
  BY <1>1, <1>11 DEF CallType, TypeOK, FileType, Write, WriterPc
<1>12. ASSUME NEW p \in Client, Alloc(p) PROVE CallType'
  BY <1>1, <1>12 DEF CallType, Alloc, WriterPc
<1>13. ASSUME NEW p \in Client, Check(p) PROVE CallType'
  <2>1. CASE page[buf[p]] = None \/ off[p] >= PageSize \/ len[p] = 0
    BY <1>1, <1>13, <2>1, ReturnType DEF Check
  <2>2. CASE ~(page[buf[p]] = None \/ off[p] >= PageSize \/ len[p] = 0)
    <3>1. off[p] \in Nat /\ len[p] \in Nat /\ PageSize \in Nat /\ ~(off[p] >= PageSize)
      BY <1>1, <2>2, ZeroFacts DEF CallType
    <3>2. (IF off[p] + len[p] > PageSize THEN PageSize - off[p] ELSE len[p]) \in Nat
      BY <3>1
    <3>3. /\ len' = [len EXCEPT ![p] = IF off[p] + @ > PageSize THEN PageSize - off[p] ELSE @]
          /\ off' = [off EXCEPT ![p] = 0]
          /\ pc' = [pc EXCEPT ![p] = "start"]
          /\ UNCHANGED <<buf, pg, seen, k, out>>
      BY <1>13, <2>2 DEF Check
    <3>4. len' \in [Client -> Nat]
      BY <1>1, <3>2, <3>3 DEF CallType
    <3> QED
      BY <1>1, <3>3, <3>4 DEF CallType, WriterPc
  <2> QED
    BY <2>1, <2>2
<1>14. ASSUME NEW p \in Client, Start(p) PROVE CallType'
  <2>1. page[buf[p]] \in Page \cup {None}
    BY <1>14 DEF TypeOK, FileType, BufInv, Start, WriterPc
  <2> QED
    BY <1>1, <1>14, <2>1 DEF CallType, Start, WriterPc
<1>15. ASSUME NEW p \in Client, WriteByte(p) PROVE CallType'
  <2>1. k[p] + 1 \in 0..PageSize
    BY <1>1, <1>15, ZeroFacts DEF CallType, CountInv, WriteByte
  <2> QED
    BY <1>1, <1>15, <2>1 DEF CallType, WriteByte
<1>16. ASSUME NEW p \in Client, WriteFault(p) PROVE CallType'
  <2>1. CASE k[p] = 0
    BY <1>1, <1>16, <2>1, ReturnType DEF WriteFault
  <2>2. CASE k[p] # 0
    <3>1. k[p] \in Nat
      BY <1>1, ZeroFacts DEF CallType
    <3> QED
      BY <1>1, <1>16, <2>2, <3>1 DEF CallType, WriteFault
  <2> QED
    BY <2>1, <2>2
<1>17. CASE UNCHANGED vars
  BY <1>1, <1>17 DEF CallType, vars, call_vars
<1> QED
  BY <1>2, <1>3, <1>4, <1>6, <1>7, <1>8, <1>9, <1>10, <1>11, <1>12, <1>13, <1>14, <1>15, <1>16,
     <1>17 DEF Next, ReadStep, WriteStep

LEMMA StepSeenType ==
    ASSUME TypeOK, BufInv, CountInv, [Next]_vars
    PROVE  SeenType'
<1> USE RlFsAssumption, ZeroFacts
<1>1. SeenType /\ CallType
  BY DEF TypeOK
<1>2. CASE LoadStep
  BY <1>1, <1>2 DEF SeenType, LoadStep, Register, Mount, MountFails, CreateFile, seen_vars
<1>3. ASSUME NEW p \in Client, OpenTest(p) \/ OpenFails(p) \/ Close(p) PROVE SeenType'
  BY <1>1, <1>3 DEF SeenType, OpenTest, OpenFails, Close, seen_vars
<1>4. ASSUME NEW p \in Client, OpenSet(p) PROVE SeenType'
  BY <1>1, <1>4 DEF SeenType, OpenSet, NoneStable
<1>5. ASSUME NEW p \in Client, NEW o \in Offset, NEW n \in Count, Read(p, o, n) PROVE SeenType'
  <2>1. (known /\ OthersCopying(p) = {}) \in BOOLEAN
    BY <1>1 DEF SeenType
  <2>2. stable' \in [Client -> BOOLEAN]
    BY <1>1, <1>5, <2>1 DEF SeenType, Read
  <2> QED
    BY <1>1, <1>5, <2>2 DEF SeenType, Read
<1>6. ASSUME NEW p \in Client,
             \/ Clip(p) \/ Cut(p) \/ Load(p) \/ ReadByte(p) \/ ReadEnd(p)
             \/ Check(p) \/ WriteByte(p)
      PROVE  SeenType'
  BY <1>1, <1>6 DEF SeenType, Clip, Cut, Load, ReadByte, ReadEnd, Check, WriteByte, seen_vars
<1>7. ASSUME NEW p \in Client, NEW o \in Offset, NEW n \in Count, Write(p, o, n) PROVE SeenType'
  BY <1>1, <1>7 DEF SeenType, Write
<1>8. ASSUME NEW p \in Client, Alloc(p) PROVE SeenType'
  <2>1. starved' \in BOOLEAN
    BY <1>1, <1>8 DEF SeenType, Alloc
  <2>2. first' \subseteq Client
    BY <1>1, <1>8 DEF SeenType, Alloc
  <2>3. /\ known' \in BOOLEAN /\ last' \in (Client \cup {None}) \X (0..PageSize)
        /\ zeroed' \in 0..PageSize /\ solo' \in Client \cup {None}
        /\ stable' \in [Client -> BOOLEAN]
    <3>1. \/ UNCHANGED <<known, last, zeroed, solo, stable>>
          \/ Forget /\ solo' = None /\ NoneStable
          \/ /\ zeroed' = PageSize \/ zeroed' = zeroed
             /\ NoneStable /\ UNCHANGED <<known, last, solo>>
      BY <1>8 DEF Alloc
    <3>2. PageSize \in 0..PageSize
      OBVIOUS
    <3> QED
      BY <1>1, <3>1, <3>2 DEF SeenType, Forget, NoneStable
  <2> QED
    BY <2>1, <2>2, <2>3 DEF SeenType
<1>9. ASSUME NEW p \in Client, Start(p) PROVE SeenType'
  BY <1>1, <1>9 DEF SeenType, Start, Forget, NoneStable
<1>10. ASSUME NEW p \in Client, WriteFault(p) PROVE SeenType'
  <2>1. len[p] \in 0..PageSize
    BY <1>1, <1>10 DEF CallType, CountInv, WriteFault
  <2>2. zeroed' \in 0..PageSize
    BY <1>1, <1>10, <2>1 DEF SeenType, WriteFault
  <2>3. solo' \in Client \cup {None}
    BY <1>1, <1>10 DEF SeenType, WriteFault
  <2> QED
    BY <1>1, <1>10, <2>2, <2>3 DEF SeenType, WriteFault
<1>11. ASSUME NEW p \in Client, SetSize(p) PROVE SeenType'
  <2>1. len[p] \in 0..PageSize
    BY <1>1, <1>11 DEF CallType, SetSize
  <2>2. <<p, len[p]>> \in (Client \cup {None}) \X (0..PageSize)
    BY <2>1
  <2>3. /\ known' \in BOOLEAN /\ last' \in (Client \cup {None}) \X (0..PageSize)
        /\ zeroed' \in 0..PageSize /\ solo' \in Client \cup {None}
    BY <1>1, <1>11, <2>2 DEF SeenType, SetSize
  <2> QED
    BY <1>1, <1>11, <2>3 DEF SeenType, SetSize
<1>12. CASE UNCHANGED vars
  BY <1>1, <1>12 DEF SeenType, vars, seen_vars
<1> QED
  BY <1>2, <1>3, <1>4, <1>5, <1>6, <1>7, <1>8, <1>9, <1>10, <1>11, <1>12
     DEF Next, OpenStep, ReadStep, WriteStep

LEMMA StepTypeOK ==
    ASSUME TypeOK, BufInv, CountInv, [Next]_vars
    PROVE  TypeOK'
BY StepFileType, StepCallType, StepSeenType DEF TypeOK

LEMMA StepBufInv ==
    ASSUME TypeOK, BufInv, CountInv, [Next]_vars
    PROVE  BufInv'
<1> USE RlFsAssumption DEF BufInv, WriterPc, ReaderPc
<1>1. CallType /\ FileType
  BY DEF TypeOK
<1>2. CASE LoadStep
  BY <1>2 DEF LoadStep, Register, Mount, MountFails, CreateFile, call_vars
<1>3. ASSUME NEW p \in Client, OpenStep(p) PROVE BufInv'
  BY <1>1, <1>3 DEF CallType, OpenStep, OpenTest, OpenSet, OpenFails, Close
<1>4. ASSUME NEW p \in Client, NEW o \in Offset, NEW n \in Count, Read(p, o, n) \/ Write(p, o, n)
      PROVE  BufInv'
  <2>1. private \in Client
    BY <1>1, <1>4 DEF FileType, Read, Write
  <2> QED
    BY <1>1, <1>4, <2>1 DEF CallType, Read, Write
<1>5. ASSUME NEW p \in Client, Return(p) PROVE BufInv'
  BY <1>1, <1>5 DEF CallType, Return
<1>6. ASSUME NEW p \in Client, Load(p) \/ Start(p) PROVE BufInv'
  <2>1. page[buf[p]] \in Page \cup {None}
    BY <1>1, <1>6 DEF FileType, Load, Start
  <2> QED
    BY <1>1, <1>6, <2>1 DEF CallType, Load, Start
<1>7. ASSUME NEW p \in Client, Clip(p) PROVE BufInv'
  BY <1>1, <1>7 DEF CallType, Clip
<1>8. ASSUME NEW p \in Client, Cut(p) PROVE BufInv'
  BY <1>1, <1>5, <1>8 DEF CallType, Cut
<1>9. ASSUME NEW p \in Client, ReadByte(p) \/ WriteByte(p) PROVE BufInv'
  BY <1>9 DEF ReadByte, WriteByte
<1>10. ASSUME NEW p \in Client, Alloc(p) PROVE BufInv'
  BY <1>1, <1>10 DEF CallType, Alloc
<1>11. ASSUME NEW p \in Client, Check(p) PROVE BufInv'
  BY <1>1, <1>5, <1>11 DEF CallType, Check
<1>12. ASSUME NEW p \in Client, WriteFault(p) PROVE BufInv'
  BY <1>5, <1>12 DEF WriteFault
<1>13. ASSUME NEW p \in Client, ReadEnd(p) \/ SetSize(p) PROVE BufInv'
  BY <1>5, <1>13 DEF ReadEnd, SetSize
<1>14. CASE UNCHANGED vars
  BY <1>14 DEF vars, call_vars
<1> QED
  BY <1>2, <1>3, <1>4, <1>6, <1>7, <1>8, <1>9, <1>10, <1>11, <1>12, <1>13, <1>14
     DEF Next, ReadStep, WriteStep

LEMMA StepCountInv ==
    ASSUME TypeOK, BufInv, CountInv, [Next]_vars
    PROVE  CountInv'
<1> USE ZeroFacts DEF CountInv
<1>1. CallType /\ FileType
  BY DEF TypeOK
<1>2. CASE LoadStep
  BY <1>2 DEF LoadStep, Register, Mount, MountFails, CreateFile, call_vars
<1>3. ASSUME NEW p \in Client, OpenStep(p) PROVE CountInv'
  BY <1>1, <1>3 DEF CallType, OpenStep, OpenTest, OpenSet, OpenFails, Close
<1>4. ASSUME NEW p \in Client, NEW o \in Offset, NEW n \in Count, Read(p, o, n) \/ Write(p, o, n)
      PROVE  CountInv'
  BY <1>1, <1>4 DEF CallType, Read, Write
<1>5. ASSUME NEW p \in Client, Return(p) PROVE CountInv'
  BY <1>1, <1>5 DEF CallType, Return
<1>6. ASSUME NEW p \in Client, Load(p) \/ Start(p) \/ Alloc(p) PROVE CountInv'
  BY <1>1, <1>6 DEF CallType, Load, Start, Alloc
<1>7. ASSUME NEW p \in Client, NEW s \in Sizes(p), Clip(p) \/ Cut(p)
      PROVE  s \in 0..PageSize
  <2>1. buf[p] \in Client
    BY <1>7 DEF BufInv, Clip, Cut, ReaderPc
  <2> QED
    BY <1>7, <2>1 DEF TypeOK, FileType, CallType, Sizes
<1>8. ASSUME NEW p \in Client, Clip(p) PROVE CountInv'
  <2>1. PICK s \in Sizes(p) :
          IF off[p] + len[p] > s
          THEN pc' = [pc EXCEPT ![p] = "cut"] /\ seen' = [seen EXCEPT ![p] = s]
          ELSE pc' = [pc EXCEPT ![p] = "load"] /\ seen' = [seen EXCEPT ![p] = 0]
    BY <1>8 DEF Clip
  <2>2. s \in 0..PageSize /\ off[p] \in Nat /\ len[p] \in Nat /\ k[p] = 0
    BY <1>1, <1>7, <1>8 DEF CallType, Clip
  <2>3. \/ pc' = [pc EXCEPT ![p] = "cut"]
        \/ pc' = [pc EXCEPT ![p] = "load"] /\ off[p] + len[p] <= PageSize
    BY <2>1, <2>2
  <2>4. UNCHANGED <<off, len, k>>
    BY <1>8 DEF Clip
  <2> QED
    BY <1>1, <2>2, <2>3, <2>4 DEF CallType
<1>9. ASSUME NEW p \in Client, Cut(p) PROVE CountInv'
  <2>1. PICK s \in Sizes(p) :
          IF s <= off[p]
          THEN Return(p)
          ELSE /\ len' = [len EXCEPT ![p] = s - off[p]]
               /\ pc' = [pc EXCEPT ![p] = "load"]
               /\ seen' = [seen EXCEPT ![p] = 0]
               /\ UNCHANGED <<off, buf, pg, k, out>>
    BY <1>9 DEF Cut
  <2>2. s \in 0..PageSize /\ off[p] \in Nat /\ k[p] = 0
    BY <1>1, <1>7, <1>9 DEF CallType, Cut
  <2>3. CASE s <= off[p]
    BY <1>5, <2>1, <2>3
  <2>4. CASE ~(s <= off[p])
    <3>1. s - off[p] \in Nat /\ off[p] + (s - off[p]) <= PageSize
      BY <2>2, <2>4
    <3>2. /\ len' = [len EXCEPT ![p] = s - off[p]]
          /\ pc' = [pc EXCEPT ![p] = "load"]
          /\ UNCHANGED <<off, k>>
      BY <2>1, <2>4
    <3> QED
      BY <1>1, <2>2, <3>1, <3>2 DEF CallType
  <2> QED
    BY <2>3, <2>4
<1>10. ASSUME NEW p \in Client, ReadByte(p) \/ WriteByte(p) PROVE CountInv'
  <2>1. k[p] \in Nat /\ len[p] \in Nat /\ k[p] + 1 <= len[p]
    BY <1>1, <1>10 DEF CallType, ReadByte, WriteByte
  <2> QED
    BY <1>1, <1>10, <2>1 DEF CallType, ReadByte, WriteByte
<1>11. ASSUME NEW p \in Client, Check(p) PROVE CountInv'
  <2>1. CASE page[buf[p]] = None \/ off[p] >= PageSize \/ len[p] = 0
    BY <1>5, <1>11, <2>1 DEF Check
  <2>2. CASE ~(page[buf[p]] = None \/ off[p] >= PageSize \/ len[p] = 0)
    <3> DEFINE n == IF off[p] + len[p] > PageSize THEN PageSize - off[p] ELSE len[p]
    <3>1. n \in 0..PageSize
      BY <1>1, <2>2 DEF CallType
    <3>2. len' = [len EXCEPT ![p] = n] /\ pc' = [pc EXCEPT ![p] = "start"] /\ UNCHANGED k
      BY <1>1, <1>11, <2>2 DEF Check, CallType
    <3>3. k[p] = 0 /\ \A q \in Client : q # p => off'[q] = off[q]
      BY <1>1, <1>11, <2>2 DEF Check, CallType
    <3> HIDE DEF n
    <3> QED
      BY <1>1, <3>1, <3>2, <3>3 DEF CallType
  <2> QED
    BY <2>1, <2>2
<1>12. ASSUME NEW p \in Client, WriteFault(p) PROVE CountInv'
  <2>1. CASE k[p] = 0
    BY <1>5, <1>12, <2>1 DEF WriteFault
  <2>2. CASE k[p] # 0
    BY <1>1, <1>12, <2>2 DEF CallType, WriteFault
  <2> QED
    BY <2>1, <2>2
<1>13. ASSUME NEW p \in Client, ReadEnd(p) \/ SetSize(p) PROVE CountInv'
  BY <1>5, <1>13 DEF ReadEnd, SetSize
<1>14. CASE UNCHANGED vars
  BY <1>14 DEF vars, call_vars
<1> QED
  BY <1>2, <1>3, <1>4, <1>6, <1>8, <1>9, <1>10, <1>11, <1>12, <1>13, <1>14
     DEF Next, ReadStep, WriteStep

-----------------------------------------------------------------------------

LEMMA StepUnusedInv ==
    ASSUME TypeOK, BufInv, UnusedInv, [Next]_vars
    PROVE  UnusedInv'
<1> USE RlFsAssumption DEF UnusedInv
<1>1. CallType /\ FileType
  BY DEF TypeOK
<1>2. CASE LoadStep
  BY <1>2 DEF LoadStep, Register, Mount, MountFails, CreateFile, call_vars, file_vars
<1>3. ASSUME NEW p \in Client, OpenStep(p) PROVE UnusedInv'
  BY <1>1, <1>3 DEF CallType, OpenStep, OpenTest, OpenSet, OpenFails, Close, file_vars
<1>4. ASSUME NEW p \in Client, NEW o \in Offset, NEW n \in Count, Read(p, o, n) \/ Write(p, o, n)
      PROVE  UnusedInv'
  BY <1>1, <1>4 DEF CallType, Read, Write, file_vars
<1>5. ASSUME NEW p \in Client, Return(p)
      PROVE  /\ \A b \in Client : pc'[b] = "opening" => pc[b] = "opening"
             /\ \A b, q \in Client : buf[q] # b => buf'[q] # b
  BY <1>1, <1>5 DEF CallType, Return
<1>6. ASSUME NEW p \in Client, Clip(p) \/ Load(p) \/ Start(p) PROVE UnusedInv'
  BY <1>1, <1>6 DEF CallType, Clip, Load, Start, file_vars
<1>7. ASSUME NEW p \in Client, Cut(p) PROVE UnusedInv'
  <2>1. UNCHANGED <<private, page, size>>
    BY <1>7 DEF Cut, file_vars, seen_vars
  <2>2. \/ Return(p)
        \/ pc' = [pc EXCEPT ![p] = "load"] /\ UNCHANGED buf
    BY <1>7 DEF Cut
  <2> QED
    BY <1>1, <1>5, <2>1, <2>2 DEF CallType
<1>8. ASSUME NEW p \in Client, ReadByte(p) \/ WriteByte(p) PROVE UnusedInv'
  BY <1>8 DEF ReadByte, WriteByte, file_vars
<1>9. ASSUME NEW p \in Client, ReadEnd(p) PROVE UnusedInv'
  <2>1. Return(p) /\ UNCHANGED <<private, page, size>>
    BY <1>9 DEF ReadEnd, file_vars, seen_vars
  <2> QED
    BY <1>5, <2>1
<1>10. ASSUME NEW p \in Client, Alloc(p) PROVE UnusedInv'
  <2>1. buf[p] \in Client
    BY <1>10 DEF BufInv, Alloc, WriterPc
  <2>2. \A b \in Client : buf[p] # b => page'[b] = page[b]
    BY <1>1, <1>10, <2>1 DEF FileType, Alloc
  <2>3. pc' = [pc EXCEPT ![p] = "check"] /\ UNCHANGED <<private, size, buf>>
    BY <1>10 DEF Alloc
  <2> QED
    BY <1>1, <2>2, <2>3 DEF CallType
<1>11. ASSUME NEW p \in Client, Check(p) PROVE UnusedInv'
  <2>1. UNCHANGED <<private, page, size>>
    BY <1>11 DEF Check, file_vars, seen_vars
  <2>2. Return(p) \/ (pc' = [pc EXCEPT ![p] = "start"] /\ UNCHANGED buf)
    BY <1>11 DEF Check
  <2> QED
    BY <1>1, <1>5, <2>1, <2>2 DEF CallType
<1>12. ASSUME NEW p \in Client, WriteFault(p) PROVE UnusedInv'
  <2>1. UNCHANGED <<private, page, size>> /\ (Return(p) \/ UNCHANGED <<pc, buf>>)
    BY <1>12 DEF WriteFault
  <2> QED
    BY <1>5, <2>1
<1>13. ASSUME NEW p \in Client, SetSize(p) PROVE UnusedInv'
  <2>1. /\ Return(p) /\ UNCHANGED <<private, page>>
        /\ size' = [size EXCEPT ![buf[p]] = len[p]]
    BY <1>13 DEF SetSize
  <2>2. \A b \in Client : buf[p] # b => size'[b] = size[b]
    BY <1>1, <2>1 DEF FileType
  <2> QED
    BY <1>5, <2>1, <2>2
<1>14. CASE UNCHANGED vars
  BY <1>14 DEF vars, call_vars, file_vars
<1> QED
  BY <1>2, <1>3, <1>4, <1>6, <1>7, <1>8, <1>9, <1>10, <1>11, <1>12, <1>13, <1>14
     DEF Next, ReadStep, WriteStep

\* A call that begins, ends or reads: nothing of the file and of who copies to
\* it changes.
QuietStep(p) ==
    /\ pc[p] # "copyin" /\ pc'[p] # "copyin"
    /\ \A q \in Client : q # p => UNCHANGED <<pc[q], buf[q], pg[q], k[q]>>
    /\ UNCHANGED <<private, size, page, mem, known, last, zeroed, solo, starved>>

LEMMA ReturnIsQuiet ==
    ASSUME CallType, NEW p \in Client, Return(p)
    PROVE  /\ pc'[p] = "open" /\ k'[p] = 0
           /\ \A q \in Client : q # p =>
                 UNCHANGED <<pc[q], off[q], len[q], buf[q], pg[q], seen[q], k[q], out[q]>>
BY DEF CallType, Return

LEMMA StepIsQuiet ==
    ASSUME TypeOK, NEW p \in Client,
           \/ OpenTest(p) \/ OpenFails(p) \/ Close(p) \/ ReadStep(p)
           \/ \E o \in Offset, n \in Count : Write(p, o, n)
           \/ Check(p)
    PROVE  QuietStep(p)
<1> USE DEF QuietStep
<1>1. CallType
  BY DEF TypeOK
<1>2. CASE OpenTest(p) \/ OpenFails(p) \/ Close(p)
  BY <1>1, <1>2 DEF CallType, OpenTest, OpenFails, Close, file_vars, seen_vars
<1>3. ASSUME NEW o \in Offset, NEW n \in Count, Read(p, o, n) \/ Write(p, o, n) PROVE QuietStep(p)
  BY <1>1, <1>3 DEF CallType, Read, Write, file_vars
<1>4. CASE Clip(p) \/ Load(p) \/ ReadByte(p)
  BY <1>1, <1>4 DEF CallType, Clip, Load, ReadByte, file_vars, seen_vars
<1>5. CASE Cut(p) \/ ReadEnd(p) \/ Check(p)
  <2>1. pc[p] # "copyin" /\ UNCHANGED <<private, size, page, mem, known, last, zeroed, solo, starved>>
    BY <1>5 DEF Cut, ReadEnd, Check, file_vars, seen_vars
  <2>2. \/ Return(p)
        \/ pc' = [pc EXCEPT ![p] = "load"] /\ UNCHANGED <<buf, pg, k>>
        \/ pc' = [pc EXCEPT ![p] = "start"] /\ UNCHANGED <<buf, pg, k>>
    BY <1>5 DEF Cut, ReadEnd, Check
  <2>3. CASE Return(p)
    BY <1>1, <2>1, <2>3, ReturnIsQuiet
  <2>4. CASE \/ pc' = [pc EXCEPT ![p] = "load"] /\ UNCHANGED <<buf, pg, k>>
             \/ pc' = [pc EXCEPT ![p] = "start"] /\ UNCHANGED <<buf, pg, k>>
    BY <1>1, <2>1, <2>4 DEF CallType
  <2> QED
    BY <2>2, <2>3, <2>4
<1> QED
  BY <1>2, <1>3, <1>4, <1>5 DEF ReadStep

\* Who neither copies nor finds others copying finds nobody alone.
LEMMA NobodySolo ==
    ASSUME SeenType, SoloInv, NEW p \in Client, pc[p] # "copyin", OthersCopying(p) = {}
    PROVE  solo = None /\ \A q \in Client : ~Copying(q)
BY DEF SeenType, SoloInv, OthersCopying, Copying

LEMMA StepFirstInv ==
    ASSUME TypeOK, FirstInv, [Next]_vars
    PROVE  FirstInv'
<1> USE DEF FirstInv
<1>1. CallType
  BY DEF TypeOK
<1>2. CASE LoadStep
  BY <1>2 DEF LoadStep, Register, Mount, MountFails, CreateFile, call_vars, seen_vars
<1>3. ASSUME NEW p \in Client, OpenStep(p) PROVE FirstInv'
  BY <1>1, <1>3 DEF CallType, OpenStep, OpenTest, OpenSet, OpenFails, Close, seen_vars
<1>4. ASSUME NEW p \in Client, NEW o \in Offset, NEW n \in Count, Read(p, o, n) \/ Write(p, o, n)
      PROVE  FirstInv'
  BY <1>1, <1>4 DEF CallType, Read, Write
<1>5. ASSUME NEW p \in Client, Return(p), UNCHANGED first PROVE FirstInv'
  BY <1>1, <1>5, ReturnIsQuiet
<1>6. ASSUME NEW p \in Client,
             \/ Clip(p) \/ Load(p) \/ ReadByte(p) \/ Start(p) \/ WriteByte(p) \/ Alloc(p)
      PROVE  FirstInv'
  BY <1>1, <1>6 DEF CallType, Clip, Load, ReadByte, Start, WriteByte, Alloc, seen_vars
<1>7. ASSUME NEW p \in Client, Cut(p) \/ Check(p) \/ ReadEnd(p) \/ WriteFault(p) \/ SetSize(p)
      PROVE  FirstInv'
  <2>1. UNCHANGED first
    BY <1>7 DEF Cut, Check, ReadEnd, WriteFault, SetSize, seen_vars
  <2>2. \/ Return(p) \/ UNCHANGED pc
        \/ pc' = [pc EXCEPT ![p] = "load"] \/ pc' = [pc EXCEPT ![p] = "start"]
    BY <1>7 DEF Cut, Check, ReadEnd, WriteFault, SetSize
  <2> QED
    BY <1>1, <1>5, <2>1, <2>2 DEF CallType
<1>8. CASE UNCHANGED vars
  BY <1>8 DEF vars, call_vars, seen_vars
<1> QED
  BY <1>2, <1>3, <1>4, <1>6, <1>7, <1>8 DEF Next, ReadStep, WriteStep

LEMMA StepSoloInv ==
    ASSUME TypeOK, BufInv, SoloInv, [Next]_vars
    PROVE  SoloInv'
<1> USE RlFsAssumption
<1>1. CallType /\ FileType /\ SeenType
  BY DEF TypeOK
<1>2. CASE LoadStep \/ UNCHANGED vars
  BY <1>2 DEF SoloInv, Copying, LoadStep, Register, Mount, MountFails, CreateFile, vars, call_vars,
     file_vars, seen_vars
<1>3. ASSUME NEW p \in Client, QuietStep(p) PROVE SoloInv'
  BY <1>3 DEF SoloInv, Copying, QuietStep
<1>4. ASSUME NEW p \in Client, OpenSet(p) PROVE SoloInv'
  BY <1>4 DEF SoloInv, OpenSet
<1>5. ASSUME NEW p \in Client, Alloc(p) PROVE SoloInv'
  <2>1. /\ pc[p] = "alloc" /\ pc' = [pc EXCEPT ![p] = "check"]
        /\ UNCHANGED <<private, buf, pg>> /\ buf[p] \in Client
    BY <1>5 DEF Alloc, BufInv, WriterPc
  <2>2. \A q \in Client : Copying(q)' <=> Copying(q)
    BY <1>1, <2>1 DEF CallType, Copying
  <2>3. CASE buf[p] # private
    <3>1. PICK w : page' = [page EXCEPT ![buf[p]] = w]
      BY <1>5 DEF Alloc
    <3>2. page'[private] = page[private]
      BY <1>1, <2>1, <2>3, <3>1 DEF FileType
    <3>3. UNCHANGED solo
      BY <1>5, <2>3 DEF Alloc
    <3> QED
      BY <2>1, <2>2, <3>2, <3>3 DEF SoloInv
  <2>4. CASE buf[p] = private
    <3>1. solo' = None
      BY <1>1, <1>5, <2>1, <2>4, NobodySolo DEF Alloc
    <3> QED
      BY <3>1 DEF SoloInv
  <2> QED
    BY <2>3, <2>4
<1>6. ASSUME NEW p \in Client, Start(p) PROVE SoloInv'
  <2>1. /\ pc[p] = "start" /\ UNCHANGED <<private, page, buf>>
        /\ pc' = [pc EXCEPT ![p] = IF page[buf[p]] = None THEN "oops" ELSE "copyin"]
        /\ pg' = [pg EXCEPT ![p] = page[buf[p]]]
    BY <1>6 DEF Start, file_vars
  <2>2. \A q \in Client : q # p => (Copying(q)' <=> Copying(q)) /\ pg'[q] = pg[q]
    BY <1>1, <2>1 DEF CallType, Copying
  <2>3. CASE buf[p] # private
    <3>1. UNCHANGED solo /\ ~Copying(p) /\ ~Copying(p)'
      BY <1>6, <2>1, <2>3 DEF Start, Copying
    <3> QED
      BY <2>1, <2>2, <3>1 DEF SoloInv
  <2>4. CASE buf[p] = private /\ OthersCopying(p) # {}
    BY <1>6, <2>4 DEF Start, SoloInv
  <2>5. CASE buf[p] = private /\ OthersCopying(p) = {}
    <3>1. solo = None /\ \A q \in Client : ~Copying(q)
      BY <1>1, <2>1, <2>5, NobodySolo
    <3>2. \A q \in Client : Copying(q)' => q = p
      BY <2>2, <3>1
    <3>3. solo' = IF page[private] = None THEN None ELSE p
      BY <1>6, <2>5, <3>1 DEF Start
    <3>4. CASE page[private] = None
      BY <3>3, <3>4 DEF SoloInv
    <3>5. CASE page[private] # None
      <4>1. pc'[p] = "copyin" /\ pg'[p] = page[private]
        BY <1>1, <2>1, <2>5, <3>5 DEF CallType
      <4> QED
        BY <2>1, <2>5, <3>2, <3>3, <3>5, <4>1 DEF SoloInv, Copying
    <3> QED
      BY <3>4, <3>5
  <2> QED
    BY <2>3, <2>4, <2>5
<1>7. ASSUME NEW p \in Client, WriteByte(p) PROVE SoloInv'
  BY <1>7 DEF SoloInv, Copying, WriteByte, seen_vars
<1>8. ASSUME NEW p \in Client, UNCHANGED <<private, page>>, Return(p),
             solo' = IF solo = p THEN None ELSE solo
      PROVE  SoloInv'
  BY <1>1, <1>8, ReturnIsQuiet DEF SoloInv, Copying
<1>9. ASSUME NEW p \in Client, WriteFault(p) \/ SetSize(p) PROVE SoloInv'
  <2>1. UNCHANGED <<private, page>>
    BY <1>9 DEF WriteFault, SetSize
  <2>2. \/ Return(p) /\ solo' = IF solo = p THEN None ELSE solo
        \/ UNCHANGED <<pc, buf, pg, solo>>
    BY <1>9 DEF WriteFault, SetSize
  <2>3. CASE UNCHANGED <<pc, buf, pg, solo>>
    BY <2>1, <2>3 DEF SoloInv, Copying
  <2> QED
    BY <1>8, <2>1, <2>2, <2>3
<1> QED
  BY <1>2, <1>3, <1>4, <1>5, <1>6, <1>7, <1>9, StepIsQuiet DEF Next, OpenStep, WriteStep

LEMMA StepPageInv ==
    ASSUME TypeOK, BufInv, CountInv, PageInv, [Next]_vars
    PROVE  PageInv'
<1> USE RlFsAssumption DEF PageInv
<1>1. CallType /\ FileType /\ SeenType
  BY DEF TypeOK
<1>2. CASE LoadStep
  BY <1>2 DEF LoadStep, Register, Mount, MountFails, CreateFile, call_vars, file_vars, seen_vars
<1>3. ASSUME NEW p \in Client, OpenStep(p) PROVE PageInv'
  BY <1>1, <1>3 DEF CallType, OpenStep, OpenTest, OpenSet, OpenFails, Close, file_vars, seen_vars
<1>4. ASSUME NEW p \in Client, NEW o \in Offset, NEW n \in Count, Read(p, o, n) PROVE PageInv'
  <2>1. private \in Client /\ size[private] > 0
    BY <1>1, <1>4 DEF FileType, Read
  <2> QED
    BY <1>1, <1>4, <2>1 DEF CallType, Read, file_vars
<1>5. ASSUME NEW p \in Client, NEW o \in Offset, NEW n \in Count, Write(p, o, n) PROVE PageInv'
  BY <1>1, <1>5 DEF CallType, Write, file_vars
<1>6. ASSUME NEW p \in Client, Return(p), UNCHANGED <<page, size, starved>> PROVE PageInv'
  BY <1>1, <1>6 DEF CallType, Return
<1>7. ASSUME NEW p \in Client, Clip(p) \/ Load(p) \/ Start(p) \/ ReadByte(p) \/ WriteByte(p)
      PROVE  PageInv'
  BY <1>1, <1>7 DEF CallType, Clip, Load, Start, ReadByte, WriteByte, file_vars, seen_vars
<1>8. ASSUME NEW p \in Client, Cut(p) PROVE PageInv'
  <2>1. pc[p] = "cut" /\ UNCHANGED <<page, size, starved>>
    BY <1>8 DEF Cut, file_vars, seen_vars
  <2>2. Return(p) \/ (pc' = [pc EXCEPT ![p] = "load"] /\ UNCHANGED buf)
    BY <1>8 DEF Cut
  <2> QED
    BY <1>1, <1>6, <2>1, <2>2 DEF CallType
<1>9. ASSUME NEW p \in Client, Alloc(p) PROVE PageInv'
  <2>1. PICK w \in Page \cup {None} :
          /\ page' = [page EXCEPT ![buf[p]] = w]
          /\ starved' = (starved \/ (w = None /\ page[buf[p]] # None))
    BY <1>9 DEF Alloc, FreePages
  <2>2. CASE starved'
    BY <2>2
  <2>3. CASE ~starved'
    <3>1. ~starved /\ (w = None => page[buf[p]] = None)
      BY <2>1, <2>3
    <3>2. \A b \in Client : page[b] # None => page'[b] # None
      BY <1>1, <2>1, <3>1 DEF FileType
    <3>3. pc' = [pc EXCEPT ![p] = "check"] /\ UNCHANGED <<buf, size>>
      BY <1>9 DEF Alloc
    <3>4. \A q \in Client : pc[q] \in {"start", "copyin", "clip", "cut", "load"} => buf[q] \in Client
      BY DEF BufInv, WriterPc, ReaderPc
    <3> QED
      BY <1>1, <3>1, <3>2, <3>3, <3>4 DEF CallType
  <2> QED
    BY <2>2, <2>3
<1>10. ASSUME NEW p \in Client, Check(p) PROVE PageInv'
  <2>1. UNCHANGED <<page, size, starved>>
    BY <1>10 DEF Check, file_vars, seen_vars
  <2>2. \/ Return(p)
        \/ page[buf[p]] # None /\ pc' = [pc EXCEPT ![p] = "start"] /\ UNCHANGED buf
    BY <1>10 DEF Check
  <2> QED
    BY <1>1, <1>6, <2>1, <2>2 DEF CallType
<1>11. ASSUME NEW p \in Client, WriteFault(p) \/ ReadEnd(p) PROVE PageInv'
  BY <1>6, <1>11 DEF WriteFault, ReadEnd, file_vars, seen_vars
<1>12. ASSUME NEW p \in Client, SetSize(p) PROVE PageInv'
  <2>1. /\ pc[p] = "copyin" /\ UNCHANGED <<page, starved>>
        /\ size' = [size EXCEPT ![buf[p]] = len[p]]
    BY <1>12 DEF SetSize
  <2>2. pc' = [pc EXCEPT ![p] = "open"] /\ buf' = [buf EXCEPT ![p] = None]
    BY <1>12 DEF SetSize, Return
  <2>3. CASE ~starved
    <3>1. \A b \in Client : b # buf[p] => size'[b] = size[b]
      BY <1>1, <2>1 DEF FileType
    <3>2. page[buf[p]] # None
      BY <2>1, <2>3
    <3>3. \A b \in Client : size'[b] > 0 => page[b] # None
      BY <2>3, <3>1, <3>2
    <3> QED
      BY <1>1, <2>1, <2>2, <2>3, <3>3 DEF CallType
  <2> QED
    BY <2>1, <2>3
<1>13. CASE UNCHANGED vars
  BY <1>13 DEF vars, call_vars, file_vars, seen_vars
<1> QED
  BY <1>2, <1>3, <1>4, <1>5, <1>7, <1>8, <1>9, <1>10, <1>11, <1>12, <1>13
     DEF Next, ReadStep, WriteStep

LEMMA StepQuietInv ==
    ASSUME TypeOK, BufInv, UnusedInv, FirstInv, SoloInv, QuietInv, [Next]_vars
    PROVE  QuietInv'
<1> USE RlFsAssumption
<1>1. CallType /\ FileType /\ SeenType
  BY DEF TypeOK
<1>2. CASE LoadStep \/ UNCHANGED vars
  BY <1>2 DEF QuietInv, Copying, LoadStep, Register, Mount, MountFails, CreateFile, vars, call_vars,
     file_vars, seen_vars
<1>3. ASSUME NEW p \in Client, QuietStep(p),
             \A q \in Client : stable'[q] =>
                 stable[q] \/ (q = p /\ known /\ OthersCopying(p) = {})
      PROVE  QuietInv'
  <2>1. \A q \in Client : Copying(q)' => Copying(q) /\ q # p
    BY <1>3 DEF QuietStep, Copying
  <2>2. \A q \in Client : stable'[q] => known /\ \A r \in Client : ~Copying(r)
    BY <1>1, <1>3, NobodySolo DEF QuietInv, QuietStep
  <2> QED
    BY <1>3, <2>1, <2>2 DEF QuietInv, QuietStep
<1>4. ASSUME NEW p \in Client, NEW o \in Offset, NEW n \in Count, Read(p, o, n)
      PROVE  \A q \in Client : stable'[q] =>
                 stable[q] \/ (q = p /\ known /\ OthersCopying(p) = {})
  <2> DEFINE quiet == known /\ OthersCopying(p) = {}
  <2>1. stable' = [stable EXCEPT ![p] = quiet]
    BY <1>4 DEF Read
  <2> HIDE DEF quiet
  <2>2. stable \in [Client -> BOOLEAN]
    BY <1>1 DEF SeenType
  <2>3. stable'[p] = quiet
    BY <2>1, <2>2
  <2>4. \A q \in Client : q # p => stable'[q] = stable[q]
    BY <2>1, <2>2
  <2>5. stable'[p] => quiet
    BY <2>3
  <2>6. \A q \in Client : stable'[q] => stable[q] \/ (q = p /\ quiet)
    BY <2>4, <2>5, Zenon
  <2> QED
    BY <2>6, Zenon DEF quiet
<1>5. ASSUME NEW p \in Client,
             \/ OpenTest(p) \/ OpenFails(p) \/ Close(p)
             \/ Clip(p) \/ Cut(p) \/ Load(p) \/ ReadByte(p) \/ ReadEnd(p)
             \/ \E o \in Offset, n \in Count : Write(p, o, n)
             \/ Check(p)
      PROVE  QuietInv'
  <2>1. UNCHANGED stable
    BY <1>5 DEF OpenTest, OpenFails, Close, Clip, Cut, Load, ReadByte, ReadEnd, Write, Check,
       seen_vars
  <2>2. QuietStep(p)
    BY <1>5, StepIsQuiet DEF ReadStep
  <2>3. \A q \in Client : stable'[q] =>
            stable[q] \/ (q = p /\ known /\ OthersCopying(p) = {})
    BY <2>1, Zenon
  <2> QED
    BY <1>3, <2>2, <2>3, Zenon
<1>6. ASSUME NEW p \in Client, NEW o \in Offset, NEW n \in Count, Read(p, o, n) PROVE QuietInv'
  BY <1>3, <1>4, <1>6, StepIsQuiet DEF ReadStep
<1>7. ASSUME NEW p \in Client, OpenSet(p) PROVE QuietInv'
  <2>1. private' = p /\ p # None /\ UNCHANGED buf /\ \A q \in Client : buf[q] # p
    BY <1>7 DEF OpenSet, UnusedInv
  <2>2. \A q \in Client : ~stable'[q] /\ ~Copying(q)'
    BY <1>7, <2>1 DEF OpenSet, NoneStable, Copying
  <2> QED
    BY <2>1, <2>2 DEF QuietInv
<1>8. ASSUME NEW p \in Client, Alloc(p) PROVE QuietInv'
  <2>1. /\ pc[p] = "alloc" /\ pc' = [pc EXCEPT ![p] = "check"]
        /\ UNCHANGED <<private, buf>> /\ buf[p] \in Client
    BY <1>8 DEF Alloc, BufInv, WriterPc
  <2>2. \A q \in Client : Copying(q)' <=> Copying(q)
    BY <1>1, <2>1 DEF CallType, Copying
  <2>3. CASE buf[p] # private
    BY <1>8, <2>1, <2>2, <2>3 DEF Alloc, QuietInv
  <2>4. CASE buf[p] = private /\ OthersCopying(p) # {}
    BY <1>8, <2>1, <2>4 DEF Alloc, Forget, NoneStable, QuietInv
  <2>5. CASE buf[p] = private /\ OthersCopying(p) = {}
    <3>1. UNCHANGED <<known, last, solo>> /\ NoneStable
      BY <1>8, <2>5 DEF Alloc
    <3> QED
      BY <2>1, <2>2, <3>1 DEF NoneStable, QuietInv
  <2> QED
    BY <2>3, <2>4, <2>5
<1>9. ASSUME NEW p \in Client, Start(p) PROVE QuietInv'
  <2>1. /\ pc[p] = "start" /\ UNCHANGED <<private, page, buf>>
        /\ pc' = [pc EXCEPT ![p] = IF page[buf[p]] = None THEN "oops" ELSE "copyin"]
        /\ buf[p] \in Client
    BY <1>9 DEF Start, BufInv, WriterPc, file_vars
  <2>2. \A q \in Client : q # p => (Copying(q)' <=> Copying(q))
    BY <1>1, <2>1 DEF CallType, Copying
  <2>3. CASE buf[p] # private
    <3>1. UNCHANGED <<known, last, solo, stable>> /\ ~Copying(p) /\ ~Copying(p)'
      BY <1>9, <2>1, <2>3 DEF Start, Copying
    <3> QED
      BY <2>1, <2>2, <3>1 DEF QuietInv
  <2>4. CASE buf[p] = private /\ OthersCopying(p) # {}
    BY <1>9, <2>1, <2>4 DEF Start, Forget, NoneStable, QuietInv
  <2>5. CASE buf[p] = private /\ OthersCopying(p) = {}
    <3>1. solo = None /\ \A q \in Client : ~Copying(q)
      BY <1>1, <2>1, <2>5, NobodySolo
    <3>2. /\ solo' = IF page[private] = None THEN solo ELSE p
          /\ NoneStable /\ UNCHANGED <<known, last>>
      BY <1>9, <2>5 DEF Start
    <3>3. \A q \in Client : Copying(q)' => q = p /\ page[private] # None
      <4>1. Copying(p)' => page[private] # None
        BY <1>1, <2>1, <2>5 DEF CallType, Copying
      <4> QED
        BY <2>2, <3>1, <4>1
    <3> QED
      BY <2>1, <3>2, <3>3 DEF NoneStable, QuietInv
  <2> QED
    BY <2>3, <2>4, <2>5
<1>10. ASSUME NEW p \in Client, WriteByte(p) PROVE QuietInv'
  BY <1>10 DEF QuietInv, Copying, WriteByte, seen_vars
<1>11. ASSUME NEW p \in Client, UNCHANGED <<private, known, last, stable>>, Return(p),
              solo' = IF solo = p THEN None ELSE solo
       PROVE  QuietInv'
  BY <1>1, <1>11, ReturnIsQuiet DEF QuietInv, Copying
<1>12. ASSUME NEW p \in Client, WriteFault(p) PROVE QuietInv'
  <2>1. UNCHANGED <<private, known, last, stable>>
    BY <1>12 DEF WriteFault
  <2>2. \/ Return(p) /\ solo' = IF solo = p THEN None ELSE solo
        \/ UNCHANGED <<pc, buf, solo>>
    BY <1>12 DEF WriteFault
  <2>3. CASE UNCHANGED <<pc, buf, solo>>
    BY <2>1, <2>3 DEF QuietInv, Copying
  <2> QED
    BY <1>11, <2>1, <2>2, <2>3
<1>13. ASSUME NEW p \in Client, SetSize(p) PROVE QuietInv'
  <2>1. CASE solo = p
    <3>1. known' = TRUE /\ UNCHANGED <<private, stable>> /\ Return(p)
      BY <1>13, <2>1 DEF SetSize
    <3>2. Copying(p) /\ \A q \in Client : Copying(q) => q = p
      BY <2>1 DEF SoloInv
    <3>3. \A q \in Client : ~Copying(q)' /\ ~stable'[q]
      BY <1>1, <3>1, <3>2, ReturnIsQuiet DEF Copying, QuietInv
    <3>4. private # None
      BY <3>2 DEF BufInv, Copying, WriterPc
    <3> QED
      BY <3>1, <3>3, <3>4 DEF QuietInv
  <2>2. CASE solo # p
    BY <1>11, <1>13, <2>2 DEF SetSize
  <2> QED
    BY <2>1, <2>2
<1> QED
  BY <1>2, <1>5, <1>6, <1>7, <1>8, <1>9, <1>10, <1>12, <1>13 DEF Next, OpenStep, ReadStep, WriteStep

LEMMA StepCopyInv ==
    ASSUME TypeOK, BufInv, CountInv, SoloInv, CopyInv, [Next]_vars
    PROVE  CopyInv'
<1> USE RlFsAssumption DEF CopyInv
<1>1. CallType /\ FileType /\ SeenType
  BY DEF TypeOK
<1>2. CASE LoadStep \/ UNCHANGED vars
  BY <1>2 DEF LoadStep, Register, Mount, MountFails, CreateFile, vars, call_vars, file_vars, seen_vars
<1>3. ASSUME NEW p \in Client, QuietStep(p) PROVE CopyInv'
  BY <1>3 DEF SoloInv, Copying, QuietStep
<1>4. ASSUME NEW p \in Client, OpenSet(p) PROVE CopyInv'
  BY <1>4 DEF OpenSet
<1>5. ASSUME NEW p \in Client, Alloc(p) PROVE CopyInv'
  <2>1. pc[p] # "copyin" /\ UNCHANGED <<private, k>> /\ buf[p] \in Client
    BY <1>5 DEF Alloc, BufInv, WriterPc
  <2>2. CASE buf[p] # private
    <3>1. PICK w \in Page \cup {None} :
            /\ page' = [page EXCEPT ![buf[p]] = w]
            /\ mem' = IF w = None THEN mem ELSE [mem EXCEPT ![buf[p]][w] = ZeroedPage]
      BY <1>5 DEF Alloc, FreePages
    <3>2. page'[private] = page[private] /\ mem'[private] = mem[private]
      BY <1>1, <2>1, <2>2, <3>1 DEF FileType
    <3> QED
      BY <1>5, <2>1, <2>2, <3>2 DEF Alloc
  <2>3. CASE buf[p] = private
    BY <1>1, <1>5, <2>1, <2>3, NobodySolo DEF Alloc
  <2> QED
    BY <2>2, <2>3
<1>6. ASSUME NEW p \in Client, Start(p) PROVE CopyInv'
  <2>1. pc[p] = "start" /\ k[p] = 0 /\ UNCHANGED <<private, page, mem, k>>
    BY <1>6 DEF Start, CountInv, file_vars
  <2>2. solo' \in {solo, p, None}
    BY <1>6 DEF Start
  <2>3. \A i \in Index : ~(i < 0)
    BY ZeroFacts DEF Index
  <2> QED
    BY <2>1, <2>2, <2>3
<1>7. ASSUME NEW p \in Client, WriteByte(p) PROVE CopyInv'
  <2>1. /\ UNCHANGED <<private, page, pg, solo>> /\ pc[p] = "copyin"
        /\ k' = [k EXCEPT ![p] = k[p] + 1]
        /\ mem' = [mem EXCEPT ![buf[p]][pg[p]][k[p]] = <<p, k[p]>>]
    BY <1>7 DEF WriteByte, seen_vars
  <2>2. buf[p] \in Client /\ pg[p] \in Page /\ k[p] \in Nat
    BY <1>1, <2>1, ZeroFacts DEF BufInv, WriterPc, CallType
  <2>3. ASSUME solo = p, NEW i \in Index, i < k[p] + 1
        PROVE  mem'[private][page[private]][i] = <<p, i>>
    <3>1. i \in Nat /\ buf[p] = private /\ pg[p] = page[private]
      BY <2>3, ZeroFacts DEF Index, SoloInv, Copying
    <3>2. CASE i = k[p]
      BY <1>1, <2>1, <2>2, <3>1, <3>2 DEF FileType
    <3>3. CASE i < k[p]
      <4>1. mem[private][page[private]][i] = <<p, i>>
        BY <2>3, <3>3
      <4>2. i # k[p]
        BY <2>2, <3>1, <3>3
      <4> QED
        BY <1>1, <2>1, <2>2, <3>1, <4>1, <4>2 DEF FileType
    <3> QED
      BY <2>2, <2>3, <3>1, <3>2, <3>3
  <2>4. k'[p] = k[p] + 1
    BY <1>1, <2>1 DEF CallType
  <2>5. ASSUME NEW q \in Client, solo = q, q # p
        PROVE  k'[q] = k[q] /\ mem'[private] = mem[private]
    <3>1. buf[p] # private
      BY <2>1, <2>5 DEF SoloInv, Copying
    <3> QED
      BY <1>1, <2>1, <2>2, <2>5, <3>1 DEF FileType, CallType
  <2> QED
    BY <2>1, <2>3, <2>4, <2>5
<1>8. ASSUME NEW p \in Client, WriteFault(p) PROVE CopyInv'
  <2>1. /\ UNCHANGED <<private, page>> /\ pc[p] = "copyin"
        /\ mem' = [mem EXCEPT ![buf[p]][pg[p]] =
                [i \in Index |-> IF k[p] <= i /\ i < len[p] THEN <<None, 0>> ELSE @[i]]]
    BY <1>8 DEF WriteFault
  <2>2. buf[p] \in Client /\ pg[p] \in Page /\ k[p] \in Nat
    BY <1>1, <2>1, ZeroFacts DEF BufInv, WriterPc, CallType
  <2>3. ASSUME NEW q \in Client, solo' = q PROVE solo = q /\ k'[q] = k[q]
    <3>1. CASE k[p] = 0
      BY <1>1, <1>8, <2>3, <3>1, ReturnIsQuiet DEF WriteFault
    <3>2. CASE k[p] # 0
      BY <1>8, <2>3, <3>2 DEF WriteFault
    <3> QED
      BY <3>1, <3>2
  <2>4. ASSUME NEW q \in Client, solo = q, NEW i \in Index, i < k[q]
        PROVE  mem'[private][page[private]][i] = mem[private][page[private]][i]
    <3>1. CASE q = p
      <4>1. buf[p] = private /\ pg[p] = page[private] /\ ~(k[p] <= i)
        BY <2>2, <2>4, <3>1, ZeroFacts DEF SoloInv, Copying, Index
      <4> QED
        BY <1>1, <2>1, <2>2, <4>1 DEF FileType
    <3>2. CASE q # p
      <4>1. buf[p] # private
        BY <2>1, <2>4, <3>2 DEF SoloInv, Copying
      <4> QED
        BY <1>1, <2>1, <2>2, <4>1 DEF FileType
    <3> QED
      BY <3>1, <3>2
  <2> QED
    BY <2>1, <2>3, <2>4
<1>9. ASSUME NEW p \in Client, SetSize(p) PROVE CopyInv'
  <2>1. UNCHANGED <<private, page, mem>> /\ Return(p) /\ solo' = IF solo = p THEN None ELSE solo
    BY <1>9 DEF SetSize
  <2> QED
    BY <1>1, <2>1, ReturnIsQuiet
<1> QED
  BY <1>2, <1>3, <1>4, <1>5, <1>6, <1>7, <1>8, <1>9, StepIsQuiet DEF Next, OpenStep, WriteStep

LEMMA StepFileHolds ==
    ASSUME TypeOK, BufInv, CountInv, UnusedInv, FirstInv, SoloInv, QuietInv, CopyInv,
           FileHoldsLastWrite, [Next]_vars
    PROVE  FileHoldsLastWrite'
<1> USE RlFsAssumption
<1>1. CallType /\ FileType /\ SeenType
  BY DEF TypeOK
<1>2. CASE UNCHANGED <<known, last, zeroed, solo, starved, private, size, page, mem>>
           /\ (solo # None => k'[solo] = k[solo])
  BY <1>2 DEF FileHoldsLastWrite, FileByte, HeldByte
<1>3. ASSUME \/ LoadStep
             \/ \E p \in Client : QuietStep(p)
             \/ UNCHANGED vars
      PROVE  FileHoldsLastWrite'
  <2>1. CASE LoadStep \/ UNCHANGED vars
    BY <1>2, <2>1 DEF LoadStep, Register, Mount, MountFails, CreateFile, vars, call_vars, file_vars,
       seen_vars
  <2>2. ASSUME NEW p \in Client, QuietStep(p) PROVE FileHoldsLastWrite'
    <3>1. solo # None => solo \in Client /\ solo # p
      BY <1>1, <2>2 DEF SeenType, SoloInv, Copying, QuietStep
    <3> QED
      BY <1>2, <2>2, <3>1 DEF QuietStep
  <2> QED
    BY <1>3, <2>1, <2>2
<1>4. ASSUME NEW p \in Client, OpenSet(p) PROVE FileHoldsLastWrite'
  <2>1. private' = p /\ last' = <<None, 0>> /\ size' = size /\ size[p] = 0
    BY <1>4 DEF OpenSet, FirstInv, UnusedInv
  <2>2. last'[2] = 0 /\ \A i \in Index : ~(i < 0)
    BY <2>1, ZeroFacts DEF Index
  <2> QED
    BY <2>1, <2>2 DEF FileHoldsLastWrite
<1>5. ASSUME NEW p \in Client, Alloc(p) PROVE FileHoldsLastWrite'
  <2>1. /\ pc[p] = "alloc" /\ p \in first /\ buf[p] \in Client /\ UNCHANGED <<private, size, k>>
    BY <1>5 DEF Alloc, BufInv, FirstInv, WriterPc
  <2>2. PICK w \in Page \cup {None} :
          /\ page' = [page EXCEPT ![buf[p]] = w]
          /\ mem' = IF w = None THEN mem ELSE [mem EXCEPT ![buf[p]][w] = ZeroedPage]
          /\ starved' = (starved \/ (w = None /\ page[buf[p]] # None))
    BY <1>5 DEF Alloc, FreePages
  <2>3. CASE buf[p] # private
    <3>1. page'[private] = page[private] /\ mem'[private] = mem[private]
      BY <1>1, <2>1, <2>2, <2>3 DEF FileType
    <3>2. UNCHANGED <<known, last, zeroed, solo>>
      BY <1>5, <2>3 DEF Alloc
    <3> QED
      BY <2>1, <2>2, <3>1, <3>2 DEF FileHoldsLastWrite, FileByte, HeldByte
  <2>4. CASE buf[p] = private /\ OthersCopying(p) # {}
    BY <1>5, <2>4 DEF Alloc, Forget, FileHoldsLastWrite
  <2>5. CASE buf[p] = private /\ OthersCopying(p) = {}
    <3>1. solo = None
      BY <1>1, <2>1, <2>5, NobodySolo
    <3>2. zeroed' = PageSize /\ UNCHANGED <<known, last, solo>>
      BY <1>5, <2>1, <2>5 DEF Alloc
    <3>3. page'[private] = w
      BY <1>1, <2>1, <2>2, <2>5 DEF FileType
    <3>4. ASSUME known, NEW i \in Index, i < last[2], w = None PROVE starved'
      BY <2>1, <2>2, <2>5, <3>4 DEF FileHoldsLastWrite
    <3>5. ASSUME NEW i \in Index, w # None PROVE mem'[private][w][i] = FileByte(i)'
      <4>1. i < PageSize
        BY ZeroFacts DEF Index
      <4>2. FileByte(i)' = <<None, 0>>
        BY <3>1, <3>2, <4>1 DEF FileByte, HeldByte
      <4>3. mem' = [mem EXCEPT ![private][w] = ZeroedPage] /\ w \in Page
        BY <2>2, <2>5, <3>5
      <4> QED
        BY <1>1, <2>1, <2>5, <4>2, <4>3 DEF FileType, ZeroedPage
    <3> QED
      BY <2>1, <2>5, <3>2, <3>3, <3>4, <3>5 DEF FileHoldsLastWrite
  <2> QED
    BY <2>3, <2>4, <2>5
<1>6. ASSUME NEW p \in Client, Start(p) PROVE FileHoldsLastWrite'
  <2>1. pc[p] = "start" /\ k[p] = 0 /\ UNCHANGED <<private, size, page, mem, k, starved>>
    BY <1>6 DEF Start, CountInv, file_vars
  <2>2. CASE buf[p] # private
    <3>1. UNCHANGED <<known, last, zeroed, solo>>
      BY <1>6, <2>2 DEF Start
    <3> QED
      BY <1>2, <2>1, <3>1
  <2>3. CASE buf[p] = private /\ OthersCopying(p) # {}
    BY <1>6, <2>3 DEF Start, Forget, FileHoldsLastWrite
  <2>4. CASE buf[p] = private /\ OthersCopying(p) = {}
    <3>1. solo = None
      BY <1>1, <2>1, <2>4, NobodySolo
    <3>2. UNCHANGED <<known, last, zeroed>> /\ (solo' = None \/ solo' = p)
      BY <1>6, <2>4, <3>1 DEF Start
    <3>3. \A i \in Index : FileByte(i)' = FileByte(i)
      <4>1. \A i \in Index : ~(i < 0)
        BY ZeroFacts DEF Index
      <4> QED
        BY <2>1, <3>1, <3>2, <4>1 DEF FileByte, HeldByte
    <3> QED
      BY <2>1, <3>2, <3>3 DEF FileHoldsLastWrite
  <2> QED
    BY <2>2, <2>3, <2>4
<1>7. ASSUME NEW p \in Client, pc[p] = "copyin", buf[p] # private,
             UNCHANGED <<known, last, zeroed, solo, starved, private, page>>,
             mem'[private] = mem[private], size'[private] = size[private],
             \A q \in Client : q # p => k'[q] = k[q]
      PROVE  FileHoldsLastWrite'
  <2>1. solo # None => solo \in Client /\ solo # p
    BY <1>1, <1>7 DEF SeenType, SoloInv, Copying
  <2>2. \A i \in Index : FileByte(i)' = FileByte(i)
    BY <1>7, <2>1 DEF FileByte, HeldByte
  <2> QED
    BY <1>7, <2>2 DEF FileHoldsLastWrite
<1>8. ASSUME NEW p \in Client, pc[p] = "copyin", ~(known /\ private # None /\ solo = p)
      PROVE  buf[p] \in Client /\ pg[p] \in Page
             /\ (known /\ private # None => buf[p] # private /\ solo # p)
  BY <1>8 DEF BufInv, WriterPc, QuietInv, Copying
<1>9. ASSUME NEW p \in Client, WriteByte(p) PROVE FileHoldsLastWrite'
  <2>1. /\ UNCHANGED <<known, last, zeroed, solo, starved, private, size, page>>
        /\ pc[p] = "copyin"
        /\ k' = [k EXCEPT ![p] = k[p] + 1]
        /\ mem' = [mem EXCEPT ![buf[p]][pg[p]][k[p]] = <<p, k[p]>>]
    BY <1>9 DEF WriteByte, seen_vars
  <2>2. CASE known /\ private # None /\ solo = p
    <3>1. buf[p] = private /\ pg[p] = page[private]
      BY <2>2 DEF SoloInv, Copying
    <3>2. private \in Client /\ page[private] \in Page /\ page[private] # None /\ k[p] \in Nat
      BY <1>1, <2>1, <3>1, ZeroFacts DEF BufInv, WriterPc, CallType
    <3>3. k'[p] = k[p] + 1
      BY <1>1, <2>1 DEF CallType
    <3>4. ASSUME NEW i \in Index, i < last[2]
          PROVE  mem'[private][page[private]][i] = FileByte(i)'
      <4>1. i \in Nat /\ solo # None
        BY <2>2, ZeroFacts DEF Index
      <4>2. CASE i = k[p]
        <5>1. FileByte(i)' = <<p, i>>
          BY <2>1, <2>2, <3>2, <3>3, <4>1, <4>2 DEF FileByte
        <5> QED
          BY <1>1, <2>1, <3>1, <3>2, <4>2, <5>1 DEF FileType
      <4>3. CASE i # k[p]
        <5>1. FileByte(i)' = FileByte(i)
          <6>1. i < k[p] + 1 <=> i < k[p]
            BY <3>2, <4>1, <4>3
          <6> QED
            BY <2>1, <2>2, <3>3, <6>1 DEF FileByte, HeldByte
        <5>2. mem'[private][page[private]][i] = mem[private][page[private]][i]
          BY <1>1, <2>1, <3>1, <3>2, <4>3 DEF FileType
        <5> QED
          BY <2>2, <3>2, <3>4, <5>1, <5>2 DEF FileHoldsLastWrite
      <4> QED
        BY <4>2, <4>3
    <3> QED
      BY <2>1, <2>2, <3>2, <3>4 DEF FileHoldsLastWrite
  <2>3. CASE ~(known /\ private # None /\ solo = p) /\ known /\ private # None
    <3>1. buf[p] \in Client /\ buf[p] # private
      BY <1>8, <2>1, <2>3
    <3>2. mem'[private] = mem[private] /\ \A q \in Client : q # p => k'[q] = k[q]
      BY <1>1, <2>1, <3>1 DEF FileType, CallType
    <3> QED
      BY <1>7, <2>1, <3>1, <3>2
  <2>4. CASE ~(known /\ private # None)
    BY <2>1, <2>4 DEF FileHoldsLastWrite
  <2> QED
    BY <2>2, <2>3, <2>4
<1>10. ASSUME NEW p \in Client, WriteFault(p) PROVE FileHoldsLastWrite'
  <2>1. /\ UNCHANGED <<known, last, starved, private, size, page>>
        /\ pc[p] = "copyin" /\ k[p] < len[p]
        /\ zeroed' = IF solo = p /\ len[p] > zeroed THEN len[p] ELSE zeroed
        /\ mem' = [mem EXCEPT ![buf[p]][pg[p]] =
                [i \in Index |-> IF k[p] <= i /\ i < len[p] THEN <<None, 0>> ELSE @[i]]]
    BY <1>10 DEF WriteFault
  <2>2. CASE known /\ private # None /\ solo = p
    <3>1. buf[p] = private /\ pg[p] = page[private]
      BY <2>2 DEF SoloInv, Copying
    <3>2. /\ private \in Client /\ page[private] \in Page /\ page[private] # None
          /\ k[p] \in Nat /\ len[p] \in Nat /\ zeroed \in Nat
      BY <1>1, <2>1, <3>1, ZeroFacts DEF BufInv, WriterPc, CallType, SeenType
    <3>3. ASSUME NEW i \in Index, i < last[2]
          PROVE  mem'[private][page[private]][i] = FileByte(i)'
      <4>1. i \in Nat /\ solo # None
        BY <2>2, ZeroFacts DEF Index
      <4>2. mem'[private][page[private]][i] =
              IF k[p] <= i /\ i < len[p] THEN <<None, 0>> ELSE mem[private][page[private]][i]
        BY <1>1, <2>1, <3>1, <3>2 DEF FileType
      <4>3. mem[private][page[private]][i] = FileByte(i)
        BY <2>2, <3>2, <3>3 DEF FileHoldsLastWrite
      <4>4. FileByte(i) = IF i < k[p] THEN <<p, i>> ELSE HeldByte(i)
        BY <2>2, <4>1 DEF FileByte
      <4>5. FileByte(i)' = IF i < k[p] THEN <<p, i>> ELSE HeldByte(i)'
        <5>1. CASE k[p] = 0
          <6>1. solo' = None /\ ~(i < k[p])
            BY <1>10, <2>2, <4>1, <5>1 DEF WriteFault
          <6> QED
            BY <6>1 DEF FileByte
        <5>2. CASE k[p] # 0
          <6>1. solo' = p /\ k' = k
            BY <1>10, <2>2, <5>2 DEF WriteFault
          <6> QED
            BY <2>2, <4>1, <6>1 DEF FileByte
        <5> QED
          BY <5>1, <5>2
      <4>6. HeldByte(i)' = IF i < len[p] THEN <<None, 0>> ELSE HeldByte(i)
        <5>1. i < zeroed' <=> i < len[p] \/ i < zeroed
          BY <2>1, <2>2, <3>2, <4>1
        <5> QED
          BY <2>1, <5>1 DEF HeldByte
      <4>7. CASE i < k[p]
        <5>1. ~(k[p] <= i)
          BY <3>2, <4>1, <4>7
        <5> QED
          BY <4>2, <4>3, <4>4, <4>5, <4>7, <5>1
      <4>8. CASE ~(i < k[p])
        <5>1. k[p] <= i
          BY <3>2, <4>1, <4>8
        <5> QED
          BY <4>2, <4>3, <4>4, <4>5, <4>6, <4>8, <5>1
      <4> QED
        BY <4>7, <4>8
    <3> QED
      BY <2>1, <2>2, <3>2, <3>3 DEF FileHoldsLastWrite
  <2>3. CASE ~(known /\ private # None /\ solo = p) /\ known /\ private # None
    <3>1. buf[p] \in Client /\ buf[p] # private /\ solo # p
      BY <1>8, <2>1, <2>3
    <3>2. mem'[private] = mem[private]
      BY <1>1, <2>1, <3>1 DEF FileType
    <3>3. UNCHANGED <<zeroed, solo>> /\ \A q \in Client : q # p => k'[q] = k[q]
      BY <1>1, <1>10, <2>1, <3>1, ReturnIsQuiet DEF WriteFault
    <3> QED
      BY <1>7, <2>1, <3>1, <3>2, <3>3
  <2>4. CASE ~(known /\ private # None)
    BY <2>1, <2>4 DEF FileHoldsLastWrite
  <2> QED
    BY <2>2, <2>3, <2>4
<1>11. ASSUME NEW p \in Client, SetSize(p) PROVE FileHoldsLastWrite'
  <2>1. /\ pc[p] = "copyin" /\ k[p] = len[p] /\ UNCHANGED <<private, page, mem, starved>>
        /\ size' = [size EXCEPT ![buf[p]] = len[p]] /\ Return(p)
    BY <1>11 DEF SetSize
  <2>2. buf[p] \in Client /\ pg[p] \in Page
    BY <2>1 DEF BufInv, WriterPc
  <2>3. CASE solo = p
    <3>1. buf[p] = private /\ pg[p] = page[private] /\ page[private] # None
      BY <2>2, <2>3 DEF SoloInv, Copying
    <3>2. last' = <<p, len[p]>> /\ zeroed' = 0 /\ solo' = None /\ size'[private] = len[p]
      BY <1>1, <1>11, <2>1, <2>2, <2>3, <3>1 DEF FileType, SetSize
    <3>3. ASSUME NEW i \in Index, i < len[p]
          PROVE  mem[private][page[private]][i] = FileByte(i)'
      <4>1. mem[private][page[private]][i] = <<p, i>>
        BY <2>1, <2>3, <3>3 DEF CopyInv
      <4>2. ~(i < 0)
        BY ZeroFacts DEF Index
      <4> QED
        BY <3>2, <4>1, <4>2 DEF FileByte, HeldByte
    <3>4. last'[2] = len[p]
      BY <3>2
    <3> QED
      BY <2>1, <3>1, <3>2, <3>3, <3>4 DEF FileHoldsLastWrite
  <2>4. CASE solo # p /\ known /\ private # None
    <3>1. UNCHANGED <<known, last, zeroed, solo>>
      BY <1>11, <2>4 DEF SetSize
    <3>2. buf[p] # private
      BY <1>8, <2>1, <2>4
    <3>3. size'[private] = size[private] /\ \A q \in Client : q # p => k'[q] = k[q]
      BY <1>1, <2>1, <2>2, <2>4, <3>2, ReturnIsQuiet DEF FileType
    <3> QED
      BY <1>7, <2>1, <3>1, <3>2, <3>3
  <2>5. CASE solo # p /\ ~(known /\ private # None)
    BY <1>11, <2>1, <2>5 DEF SetSize, FileHoldsLastWrite
  <2> QED
    BY <2>3, <2>4, <2>5
<1> QED
  BY <1>3, <1>4, <1>5, <1>6, <1>9, <1>10, <1>11, StepIsQuiet DEF Next, OpenStep, WriteStep

LEMMA StepReadInv ==
    ASSUME TypeOK, BufInv, CountInv, SoloInv, QuietInv, FileHoldsLastWrite, ReadInv, [Next]_vars
    PROVE  ReadInv'
<1> USE RlFsAssumption
<1>1. CallType /\ FileType /\ SeenType
  BY DEF TypeOK
<1>2. ASSUME NEW q \in Client, UNCHANGED <<private, page, last, zeroed, stable>>,
             UNCHANGED <<pc[q], buf[q], seen[q], off[q], len[q], pg[q], k[q], out[q]>>
      PROVE  Reading(q)'
  BY <1>2 DEF ReadInv, Reading, HeldByte
<1>3. ASSUME NEW p \in Client, UNCHANGED <<private, page, last, zeroed, stable>>,
             UNCHANGED <<buf, seen, off, len, pg, k, out>>,
             NEW s, s \notin ReaderPc, pc' = [pc EXCEPT ![p] = s]
      PROVE  ReadInv'
  BY <1>1, <1>3 DEF CallType, ReadInv, Reading, HeldByte
<1>4. ASSUME NEW p \in Client, UNCHANGED <<private, page, last, zeroed, stable>>, Return(p)
      PROVE  ReadInv'
  <2>1. pc'[p] \notin ReaderPc
    BY <1>1, <1>4 DEF CallType, Return, ReaderPc
  <2>2. ASSUME NEW q \in Client, q # p PROVE Reading(q)'
    BY <1>1, <1>2, <1>4, <2>2 DEF CallType, Return
  <2> QED
    BY <2>1, <2>2 DEF ReadInv, Reading
<1>5. CASE NoneStable
  BY <1>5 DEF NoneStable, ReadInv, Reading
<1>6. CASE LoadStep \/ UNCHANGED vars
  BY <1>2, <1>6 DEF ReadInv, LoadStep, Register, Mount, MountFails, CreateFile, vars, call_vars,
     file_vars, seen_vars
<1>7. ASSUME NEW p \in Client, OpenTest(p) \/ OpenFails(p) \/ Close(p) PROVE ReadInv'
  <2>1. PICK s \in {"opening", "open", "closed"} : pc' = [pc EXCEPT ![p] = s]
    BY <1>7 DEF OpenTest, OpenFails, Close
  <2>2. UNCHANGED <<private, page, last, zeroed, stable, buf, seen, off, len, pg, k, out>>
    BY <1>7 DEF OpenTest, OpenFails, Close, file_vars, seen_vars
  <2> QED
    BY <1>3, <2>1, <2>2 DEF ReaderPc
<1>8. ASSUME NEW p \in Client, OpenSet(p) PROVE ReadInv'
  BY <1>5, <1>8 DEF OpenSet
<1>9. ASSUME NEW p \in Client, NEW o \in Offset, NEW n \in Count, Read(p, o, n) PROVE ReadInv'
  <2>1. /\ pc' = [pc EXCEPT ![p] = "clip"] /\ off' = [off EXCEPT ![p] = o]
        /\ len' = [len EXCEPT ![p] = n] /\ buf' = [buf EXCEPT ![p] = private]
        /\ seen' = [seen EXCEPT ![p] = size[private]]
        /\ stable' = [stable EXCEPT ![p] = known /\ OthersCopying(p) = {}]
        /\ UNCHANGED <<private, page, last, zeroed, pg, k, out>>
        /\ private # None /\ o < size[private]
    BY <1>9 DEF Read, file_vars
  <2>2. ASSUME NEW q \in Client, q # p PROVE Reading(q)'
    <3>1. stable'[q] = stable[q]
      BY <1>1, <2>1, <2>2 DEF SeenType
    <3>2. UNCHANGED <<pc[q], buf[q], seen[q], off[q], len[q], pg[q], k[q], out[q]>>
      BY <1>1, <2>1, <2>2 DEF CallType
    <3>3. Reading(q)
      BY DEF ReadInv
    <3> QED
      BY <2>1, <3>1, <3>2, <3>3 DEF Reading, HeldByte
  <2>3. Reading(p)'
    <3>1. stable'[p] => known
      BY <1>1, <2>1 DEF SeenType
    <3>2. known => size[private] = last[2]
      BY <2>1 DEF FileHoldsLastWrite
    <3>3. pc'[p] = "clip" /\ buf'[p] = private /\ seen'[p] = size[private] /\ off'[p] = o
      BY <1>1, <2>1 DEF CallType
    <3> QED
      BY <2>1, <3>1, <3>2, <3>3 DEF Reading
  <2> QED
    BY <2>2, <2>3 DEF ReadInv
<1>10. ASSUME NEW p \in Client, pc[p] \in {"clip", "cut"}, stable[p], NEW s \in Sizes(p)
       PROVE  s = last[2] /\ off[p] < s
  <2>1. buf[p] = private /\ seen[p] = last[2] /\ off[p] < last[2]
    BY <1>10 DEF ReadInv, Reading, ReaderPc
  <2>2. buf[p] \in Client /\ known
    BY <1>10 DEF BufInv, QuietInv, ReaderPc
  <2>3. size[private] = last[2]
    BY <2>1, <2>2 DEF FileHoldsLastWrite
  <2> QED
    BY <1>10, <2>1, <2>3 DEF Sizes
<1>11. ASSUME NEW p \in Client, Clip(p) PROVE ReadInv'
  <2>1. PICK s \in Sizes(p) :
          IF off[p] + len[p] > s
          THEN pc' = [pc EXCEPT ![p] = "cut"] /\ seen' = [seen EXCEPT ![p] = s]
          ELSE pc' = [pc EXCEPT ![p] = "load"] /\ seen' = [seen EXCEPT ![p] = 0]
    BY <1>11 DEF Clip
  <2>2. pc[p] = "clip" /\ UNCHANGED <<private, page, last, zeroed, stable, off, len, buf, pg, k, out>>
    BY <1>11 DEF Clip, file_vars, seen_vars
  <2>3. ASSUME NEW q \in Client, q # p PROVE Reading(q)'
    <3>1. UNCHANGED <<pc[q], seen[q]>>
      BY <1>1, <2>1, <2>3 DEF CallType
    <3> QED
      BY <1>2, <2>2, <3>1
  <2>4. Reading(p)'
    <3> SUFFICES ASSUME stable[p]
        PROVE  Reading(p)'
      BY <2>2 DEF Reading
    <3>1. s = last[2] /\ off[p] < s /\ buf[p] = private
      BY <1>10, <2>2 DEF ReadInv, Reading, ReaderPc
    <3>2. CASE off[p] + len[p] > s
      <4>1. pc'[p] = "cut" /\ seen'[p] = s
        BY <1>1, <2>1, <3>2 DEF CallType
      <4> QED
        BY <2>2, <3>1, <4>1 DEF Reading
    <3>3. CASE ~(off[p] + len[p] > s)
      <4>1. pc'[p] = "load"
        BY <1>1, <2>1, <3>3 DEF CallType
      <4>2. off[p] \in Nat /\ len[p] \in Nat /\ last[2] \in Nat
        BY <1>1, ZeroFacts DEF CallType, SeenType
      <4>3. off[p] + len[p] <= last[2]
        BY <3>1, <3>3, <4>2
      <4> QED
        BY <2>2, <3>1, <4>1, <4>3 DEF Reading
    <3> QED
      BY <3>2, <3>3
  <2> QED
    BY <2>3, <2>4 DEF ReadInv
<1>12. ASSUME NEW p \in Client, Cut(p) PROVE ReadInv'
  <2>1. PICK s \in Sizes(p) :
          IF s <= off[p]
          THEN Return(p)
          ELSE /\ len' = [len EXCEPT ![p] = s - off[p]]
               /\ pc' = [pc EXCEPT ![p] = "load"]
               /\ seen' = [seen EXCEPT ![p] = 0]
               /\ UNCHANGED <<off, buf, pg, k, out>>
    BY <1>12 DEF Cut
  <2>2. pc[p] = "cut" /\ UNCHANGED <<private, page, last, zeroed, stable>>
    BY <1>12 DEF Cut, file_vars, seen_vars
  <2>3. CASE s <= off[p]
    BY <1>4, <2>1, <2>2, <2>3
  <2>4. CASE ~(s <= off[p])
    <3>1. /\ len' = [len EXCEPT ![p] = s - off[p]]
          /\ pc' = [pc EXCEPT ![p] = "load"]
          /\ seen' = [seen EXCEPT ![p] = 0]
          /\ UNCHANGED <<off, buf, pg, k, out>>
      BY <2>1, <2>4
    <3>2. ASSUME NEW q \in Client, q # p PROVE Reading(q)'
      <4>1. UNCHANGED <<pc[q], seen[q], len[q]>>
        BY <1>1, <3>1, <3>2 DEF CallType
      <4> QED
        BY <1>2, <2>2, <3>1, <4>1
    <3>3. Reading(p)'
      <4> SUFFICES ASSUME stable[p]
          PROVE  Reading(p)'
        BY <2>2 DEF Reading
      <4>1. s = last[2] /\ off[p] < s /\ buf[p] = private
        BY <1>10, <2>2 DEF ReadInv, Reading, ReaderPc
      <4>2. pc'[p] = "load" /\ len'[p] = s - off[p]
        BY <1>1, <3>1 DEF CallType
      <4>3. off[p] \in Nat /\ last[2] \in Nat
        BY <1>1, ZeroFacts DEF CallType, SeenType
      <4>4. off[p] + (s - off[p]) <= last[2]
        BY <4>1, <4>3
      <4> QED
        BY <2>2, <3>1, <4>1, <4>2, <4>4 DEF Reading
    <3> QED
      BY <3>2, <3>3 DEF ReadInv
  <2> QED
    BY <2>3, <2>4
<1>13. ASSUME NEW p \in Client, Load(p) PROVE ReadInv'
  <2>1. /\ pc[p] = "load" /\ k[p] = 0
        /\ pg' = [pg EXCEPT ![p] = page[buf[p]]]
        /\ pc' = [pc EXCEPT ![p] = IF page[buf[p]] = None THEN "oops" ELSE "copyout"]
        /\ UNCHANGED <<private, page, last, zeroed, stable, off, len, buf, seen, k, out>>
    BY <1>13 DEF Load, CountInv, file_vars, seen_vars
  <2>2. ASSUME NEW q \in Client, q # p PROVE Reading(q)'
    <3>1. UNCHANGED <<pc[q], pg[q]>>
      BY <1>1, <2>1, <2>2 DEF CallType
    <3> QED
      BY <1>2, <2>1, <3>1
  <2>3. Reading(p)'
    <3> SUFFICES ASSUME stable[p], pc'[p] \in ReaderPc
        PROVE  Reading(p)'
      BY <2>1 DEF Reading
    <3>1. pc'[p] = "copyout" /\ pg'[p] = page[buf[p]]
      BY <1>1, <2>1 DEF CallType, ReaderPc
    <3>2. buf[p] = private /\ off[p] + len[p] <= last[2] /\ off[p] < last[2]
      BY <2>1 DEF ReadInv, Reading, ReaderPc
    <3>3. \A i \in Index : ~(i < 0)
      BY ZeroFacts DEF Index
    <3> QED
      BY <2>1, <3>1, <3>2, <3>3 DEF Reading
  <2> QED
    BY <2>2, <2>3 DEF ReadInv
<1>14. ASSUME NEW p \in Client, ReadByte(p) PROVE ReadInv'
  <2>1. /\ pc[p] = "copyout" /\ k[p] < len[p]
        /\ out' = [out EXCEPT ![p][k[p]] = mem[buf[p]][pg[p]][off[p] + k[p]]]
        /\ k' = [k EXCEPT ![p] = k[p] + 1]
        /\ UNCHANGED <<private, page, last, zeroed, stable, pc, off, len, buf, pg, seen>>
    BY <1>14 DEF ReadByte, file_vars, seen_vars
  <2>2. ASSUME NEW q \in Client, q # p PROVE Reading(q)'
    <3>1. UNCHANGED <<k[q], out[q]>>
      BY <1>1, <2>1, <2>2 DEF CallType
    <3> QED
      BY <1>2, <2>1, <3>1
  <2>3. Reading(p)'
    <3> SUFFICES ASSUME stable[p]
        PROVE  Reading(p)'
      BY <2>1 DEF Reading
    <3>1. /\ buf[p] = private /\ off[p] + len[p] <= last[2] /\ off[p] < last[2]
          /\ pg[p] = page[private]
          /\ \A i \in Index : i < k[p] => out[p][i] = HeldByte(off[p] + i)
      BY <2>1 DEF ReadInv, Reading, ReaderPc
    <3>2. /\ k[p] \in Nat /\ off[p] \in Nat /\ len[p] \in Nat /\ PageSize \in Nat
          /\ last[2] \in 0..PageSize
      BY <1>1, ZeroFacts DEF CallType, SeenType
    <3>3. k[p] \in Index /\ off[p] + k[p] \in Index /\ off[p] + k[p] < last[2]
      BY <2>1, <3>1, <3>2 DEF Index
    <3>4. known /\ private # None
      <4>1. buf[p] \in Client /\ known
        BY <2>1 DEF BufInv, QuietInv, ReaderPc
      <4> QED
        BY <3>1, <4>1
    <3>5. mem[private][page[private]][off[p] + k[p]] = FileByte(off[p] + k[p])
      <4>1. pg[p] # None
        BY <2>1 DEF BufInv
      <4> QED
        BY <3>1, <3>3, <3>4, <4>1 DEF FileHoldsLastWrite
    <3>6. mem[buf[p]][pg[p]][off[p] + k[p]] = HeldByte(off[p] + k[p])
      <4>1. solo = None
        BY <1>1 DEF SeenType, SoloInv, QuietInv
      <4> QED
        BY <3>1, <3>5, <4>1 DEF FileByte
    <3>7. k'[p] = k[p] + 1
      BY <1>1, <2>1 DEF CallType
    <3>8. ASSUME NEW i \in Index, i < k[p] + 1
          PROVE  out'[p][i] = HeldByte(off[p] + i)
      <4>1. i \in Nat
        BY ZeroFacts DEF Index
      <4>2. CASE i = k[p]
        BY <1>1, <2>1, <3>3, <3>6, <4>2 DEF CallType
      <4>3. CASE i < k[p]
        <5>1. i # k[p]
          BY <3>2, <4>1, <4>3
        <5>2. out'[p][i] = out[p][i]
          BY <1>1, <2>1, <5>1 DEF CallType
        <5> QED
          BY <3>1, <4>3, <5>2
      <4> QED
        BY <3>2, <3>8, <4>1, <4>2, <4>3
    <3> QED
      BY <2>1, <3>1, <3>7, <3>8 DEF Reading, HeldByte
  <2> QED
    BY <2>2, <2>3 DEF ReadInv
<1>15. ASSUME NEW p \in Client, ReadEnd(p) PROVE ReadInv'
  <2>1. Return(p) /\ UNCHANGED <<private, page, last, zeroed, stable>>
    BY <1>15 DEF ReadEnd, file_vars, seen_vars
  <2> QED
    BY <1>4, <2>1
<1>16. ASSUME NEW p \in Client, NEW o \in Offset, NEW n \in Count, Write(p, o, n) PROVE ReadInv'
  <2>1. UNCHANGED <<private, page, last, zeroed, stable, seen, pg, k, out>>
    BY <1>16 DEF Write, file_vars
  <2>2. pc'[p] \notin ReaderPc
    BY <1>1, <1>16 DEF Write, CallType, ReaderPc
  <2>3. ASSUME NEW q \in Client, q # p PROVE Reading(q)'
    <3>1. UNCHANGED <<pc[q], off[q], len[q], buf[q]>>
      BY <1>1, <1>16, <2>3 DEF Write, CallType
    <3> QED
      BY <1>2, <2>1, <3>1
  <2> QED
    BY <2>2, <2>3 DEF ReadInv, Reading
<1>17. ASSUME NEW p \in Client, Alloc(p) PROVE ReadInv'
  <2>1. CASE buf[p] = private
    BY <1>5, <1>17, <2>1 DEF Alloc
  <2>2. CASE buf[p] # private
    <3>1. /\ pc' = [pc EXCEPT ![p] = "check"] /\ buf[p] \in Client
          /\ UNCHANGED <<private, last, zeroed, stable, off, len, buf, pg, seen, k, out>>
      BY <1>17, <2>2 DEF Alloc, BufInv, WriterPc
    <3>2. PICK w : page' = [page EXCEPT ![buf[p]] = w]
      BY <1>17 DEF Alloc
    <3>3. page'[private] = page[private]
      BY <1>1, <2>2, <3>1, <3>2 DEF FileType
    <3>4. ASSUME NEW q \in Client, pc'[q] \in ReaderPc PROVE pc'[q] = pc[q]
      BY <1>1, <3>1, <3>4 DEF CallType, ReaderPc
    <3> QED
      BY <3>1, <3>3, <3>4 DEF ReadInv, Reading, HeldByte
  <2> QED
    BY <2>1, <2>2
<1>18. ASSUME NEW p \in Client, Check(p) PROVE ReadInv'
  <2>1. UNCHANGED <<private, page, last, zeroed, stable>>
    BY <1>18 DEF Check, file_vars, seen_vars
  <2>2. CASE Return(p)
    BY <1>4, <2>1, <2>2
  <2>3. CASE ~Return(p)
    <3>1. /\ pc' = [pc EXCEPT ![p] = "start"]
          /\ UNCHANGED <<buf, pg, seen, k, out>>
      BY <1>18, <2>3 DEF Check
    <3>2. pc'[p] \notin ReaderPc
      BY <1>1, <3>1 DEF CallType, ReaderPc
    <3>3. ASSUME NEW q \in Client, q # p PROVE Reading(q)'
      <4>1. UNCHANGED <<pc[q], off[q], len[q]>>
        BY <1>1, <1>18, <2>3, <3>3 DEF Check, CallType
      <4> QED
        BY <1>2, <2>1, <3>1, <4>1
    <3> QED
      BY <3>2, <3>3 DEF ReadInv, Reading
  <2> QED
    BY <2>2, <2>3
<1>19. ASSUME NEW p \in Client, Start(p) PROVE ReadInv'
  <2>1. CASE buf[p] = private
    BY <1>5, <1>19, <2>1 DEF Start
  <2>2. CASE buf[p] # private
    <3>1. /\ pc' = [pc EXCEPT ![p] = IF page[buf[p]] = None THEN "oops" ELSE "copyin"]
          /\ pg' = [pg EXCEPT ![p] = page[buf[p]]]
          /\ UNCHANGED <<private, page, last, zeroed, stable, off, len, buf, seen, k, out>>
      BY <1>19, <2>2 DEF Start, file_vars
    <3>2. pc'[p] \notin ReaderPc
      BY <1>1, <3>1 DEF CallType, ReaderPc
    <3>3. ASSUME NEW q \in Client, q # p PROVE Reading(q)'
      <4>1. UNCHANGED <<pc[q], pg[q]>>
        BY <1>1, <3>1, <3>3 DEF CallType
      <4> QED
        BY <1>2, <3>1, <4>1
    <3> QED
      BY <3>2, <3>3 DEF ReadInv, Reading
  <2> QED
    BY <2>1, <2>2
<1>20. ASSUME NEW p \in Client, WriteByte(p) PROVE ReadInv'
  <2>1. /\ pc[p] = "copyin" /\ k' = [k EXCEPT ![p] = k[p] + 1]
        /\ UNCHANGED <<private, page, last, zeroed, stable, pc, off, len, buf, pg, seen, out>>
    BY <1>20 DEF WriteByte, seen_vars
  <2>2. ASSUME NEW q \in Client, q # p PROVE Reading(q)'
    <3>1. UNCHANGED k[q]
      BY <1>1, <2>1, <2>2 DEF CallType
    <3> QED
      BY <1>2, <2>1, <3>1
  <2> QED
    BY <2>1, <2>2 DEF ReadInv, Reading, ReaderPc
<1>21. ASSUME NEW p \in Client, WriteFault(p) PROVE ReadInv'
  <2>1. pc[p] = "copyin" /\ UNCHANGED <<private, page, last, stable>>
    BY <1>21 DEF WriteFault
  <2>2. CASE solo = p
    BY <2>1, <2>2 DEF SoloInv, QuietInv, ReadInv, Reading
  <2>3. CASE solo # p
    <3>1. UNCHANGED zeroed
      BY <1>21, <2>3 DEF WriteFault
    <3>2. CASE k[p] = 0
      BY <1>4, <1>21, <2>1, <3>1, <3>2 DEF WriteFault
    <3>3. CASE k[p] # 0
      <4>1. len' = [len EXCEPT ![p] = k[p]] /\ UNCHANGED <<pc, off, buf, pg, seen, k, out>>
        BY <1>21, <3>3 DEF WriteFault
      <4>2. ASSUME NEW q \in Client, q # p PROVE Reading(q)'
        <5>1. UNCHANGED len[q]
          BY <1>1, <4>1, <4>2 DEF CallType
        <5> QED
          BY <1>2, <2>1, <3>1, <4>1, <5>1
      <4> QED
        BY <2>1, <4>1, <4>2 DEF ReadInv, Reading, ReaderPc
    <3> QED
      BY <3>2, <3>3
  <2> QED
    BY <2>2, <2>3
<1>22. ASSUME NEW p \in Client, SetSize(p) PROVE ReadInv'
  <2>1. Return(p) /\ UNCHANGED <<private, page, stable>>
    BY <1>22 DEF SetSize
  <2>2. CASE solo = p
    BY <2>1, <2>2 DEF SoloInv, QuietInv, ReadInv, Reading
  <2>3. CASE solo # p
    BY <1>4, <1>22, <2>1, <2>3 DEF SetSize
  <2> QED
    BY <2>2, <2>3
<1> QED
  BY <1>6, <1>7, <1>8, <1>9, <1>11, <1>12, <1>13, <1>14, <1>15, <1>16, <1>17, <1>18, <1>19, <1>20,
     <1>21, <1>22 DEF Next, OpenStep, ReadStep, WriteStep

-----------------------------------------------------------------------------

LEMMA StepIInv == IInv /\ [Next]_vars => IInv'
<1> SUFFICES ASSUME IInv, [Next]_vars PROVE IInv'
  OBVIOUS
<1>1. TypeOK' /\ BufInv' /\ CountInv'
  BY StepTypeOK, StepBufInv, StepCountInv DEF IInv
<1>2. UnusedInv' /\ FirstInv' /\ SoloInv' /\ PageInv'
  BY StepUnusedInv, StepFirstInv, StepSoloInv, StepPageInv DEF IInv
<1>3. QuietInv' /\ CopyInv' /\ FileHoldsLastWrite'
  BY StepQuietInv, StepCopyInv, StepFileHolds DEF IInv
<1>4. ReadInv'
  BY StepReadInv DEF IInv
<1> QED
  BY <1>1, <1>2, <1>3, <1>4 DEF IInv

\* What every reachable state satisfies.
THEOREM Invariance == Spec => []IInv
BY InitIInv, StepIInv, PTL DEF Spec

\* Every step of init, open, read and write leaves every variable of RlFs in
\* its type: no copy leaves its page.
THEOREM TypeCorrect == Spec => []TypeOK
<1>1. IInv => TypeOK
  BY DEF IInv
<1> QED
  BY <1>1, Invariance, PTL

\* rlfs_write: unless two writes copy to the file at once, or one allocates a
\* page for it under another's copy, its size and bytes are those of the last
\* write, whatever opens, reads and failed writes come in between; and what
\* those may take from it is only this: all of it, where an open began before
\* there was a buffer or a write before there was a page, and the bytes that a
\* faulting write could not copy.
THEOREM HoldsLastWrite == Spec => []FileHoldsLastWrite
<1>1. IInv => FileHoldsLastWrite
  BY DEF IInv
<1> QED
  BY <1>1, Invariance, PTL

\* rlfs_read: a read beside which nobody copies to the file, allocates its page
\* or stores a buffer has copied the file's bytes from its offset on, and goes no
\* further than the file, although it reads the size again and again.
THEOREM ReadsSeeTheFile == Spec => []ReadSeesFile
<1>1. IInv => ReadSeesFile
  BY DEF IInv, ReadInv, Reading, ReadSeesFile, ReaderPc
<1> QED
  BY <1>1, Invariance, PTL

\* rlfs_write and rlfs_read: the page NULL is copied from or to only after a
\* failed get_zeroed_page has been stored over another writer's page.
THEOREM OopsNeedsStarvation == Spec => []OopsOnlyWhenStarved
<1>1. IInv => OopsOnlyWhenStarved
  BY DEF IInv, PageInv, OopsOnlyWhenStarved
<1> QED
  BY <1>1, Invariance, PTL
=============================================================================
