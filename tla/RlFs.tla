-------------------------------- MODULE RlFs --------------------------------
(***************************************************************************)
(* The file system rlfs (rlfs_18 and rlfs_32, which differ in the name of  *)
(* one field): it is registered and mounted by its init function, which    *)
(* creates one file, "rocklee".  The inode of the file points to a buffer, *)
(* which the first open allocates, and the buffer to one page, which the   *)
(* first write allocates.  open, read and write take no lock, and a copy   *)
(* from or to a user may sleep after every byte.                           *)
(*                                                                         *)
(* A write copies to the start of the page, whatever its offset, and sets  *)
(* the size to what it copied.  The offset of a call is any the client     *)
(* seeks to; a call that returns at once with nothing changed is no step.  *)
(***************************************************************************)
EXTENDS Integers

CONSTANTS
    Client,     \* tasks that have the file system mounted
    Page,       \* names for the pages of a buffer
    PageSize,   \* PAGE_SIZE
    Offset,     \* the offsets clients call with,
    Count,      \* and the numbers of bytes
    None        \* NULL, and the writer of a zeroed byte

ASSUME RlFsAssumption ==
    /\ PageSize \in Nat \ {0}
    /\ None \notin Client \cup Page
    /\ Offset \subseteq Nat /\ Count \subseteq Nat

Index == 0..(PageSize - 1)

\* A byte is known by the client that wrote it and its index in that write.
Byte == (Client \cup {None}) \X Index
ZeroedPage == [i \in Index |-> <<None, 0>>]

WriterPc == {"alloc", "check", "start", "copyin"}
ReaderPc == {"clip", "cut", "load", "copyout"}

-----------------------------------------------------------------------------

VARIABLES
    fs,         \* what rlfs_init has done
    file,       \* "rocklee" exists
    private,    \* inode->i_private: a buffer, named by who allocated it
    size,       \* size[b], of buffer b
    page,       \* page[b]
    mem,        \* mem[b][w], the bytes of the page w allocated for b
    pc,         \* where a client is in open, read or write
    off, len,   \* *off and size of its call
    buf, pg,    \* the buffer and the page it has loaded
    seen,       \* the buffer's size it has loaded
    k,          \* bytes it has copied
    out,        \* bytes its read has copied
    (***********************************************************************)
    (* What the properties compare with: the last write that was alone in  *)
    (* copying to the file, and what has been zeroed since.                *)
    (***********************************************************************)
    known,      \* no two have copied at the same time since
    last,       \* <<writer, length>> of that write
    zeroed,     \* the bytes below have been zeroed since
    solo,       \* who is copying to the file, alone so far
    stable,     \* nothing has changed since the client's read began
    first,      \* whose call began when there was no buffer, or no page
    starved     \* a failed allocation has overwritten another one's page

file_vars == <<private, size, page, mem>>
call_vars == <<pc, off, len, buf, pg, seen, k, out>>
seen_vars == <<known, last, zeroed, solo, stable, first, starved>>
vars == <<fs, file, file_vars, call_vars, seen_vars>>

FileType ==
    /\ fs \in {"out", "registered", "mounted", "loaded", "failed"}
    /\ file \in BOOLEAN
    /\ private \in Client \cup {None}
    /\ size \in [Client -> 0..PageSize]
    /\ page \in [Client -> Page \cup {None}]
    /\ mem \in [Client -> [Page -> [Index -> Byte]]]

CallType ==
    /\ pc \in [Client -> {"closed", "opening", "open", "oops"} \cup WriterPc \cup ReaderPc]
    /\ off \in [Client -> Nat] /\ len \in [Client -> Nat]
    /\ buf \in [Client -> Client \cup {None}]
    /\ pg \in [Client -> Page \cup {None}]
    /\ seen \in [Client -> 0..PageSize]
    /\ k \in [Client -> 0..PageSize]
    /\ out \in [Client -> [Index -> Byte]]

SeenType ==
    /\ known \in BOOLEAN /\ starved \in BOOLEAN
    /\ last \in (Client \cup {None}) \X (0..PageSize)
    /\ zeroed \in 0..PageSize
    /\ solo \in Client \cup {None}
    /\ stable \in [Client -> BOOLEAN]
    /\ first \subseteq Client

TypeOK == FileType /\ CallType /\ SeenType

Init ==
    /\ fs = "out" /\ file = FALSE
    /\ private = None
    /\ size = [b \in Client |-> 0]
    /\ page = [b \in Client |-> None]
    /\ mem = [b \in Client |-> [w \in Page |-> ZeroedPage]]
    /\ pc = [p \in Client |-> "closed"]
    /\ off = [p \in Client |-> 0] /\ len = [p \in Client |-> 0]
    /\ buf = [p \in Client |-> None] /\ pg = [p \in Client |-> None]
    /\ seen = [p \in Client |-> 0] /\ k = [p \in Client |-> 0]
    /\ out = [p \in Client |-> ZeroedPage]
    /\ known = TRUE /\ last = <<None, 0>> /\ zeroed = 0
    /\ solo = None
    /\ stable = [p \in Client |-> FALSE]
    /\ first = {} /\ starved = FALSE

-----------------------------------------------------------------------------
(* rlfs_init.  kern_mount fills the super block, with a root inode and its *)
(* dentry, and fails if one of them cannot be had.                         *)

Register ==
    /\ fs = "out" /\ fs' = "registered"
    /\ UNCHANGED <<file, file_vars, call_vars, seen_vars>>

Mount ==
    /\ fs = "registered" /\ fs' = "mounted"
    /\ UNCHANGED <<file, file_vars, call_vars, seen_vars>>

MountFails ==
    /\ fs = "registered" /\ fs' = "failed"
    /\ UNCHANGED <<file, file_vars, call_vars, seen_vars>>

\* The result of rl_create_file is not tested: without a dentry or an inode
\* the module is loaded with an empty directory.
CreateFile ==
    /\ fs = "mounted" /\ fs' = "loaded"
    /\ file' \in BOOLEAN
    /\ UNCHANGED <<file_vars, call_vars, seen_vars>>

LoadStep == Register \/ Mount \/ MountFails \/ CreateFile

-----------------------------------------------------------------------------
(* The end of a call: the locals are gone.                                 *)
Return(p) ==
    /\ pc' = [pc EXCEPT ![p] = "open"]
    /\ off' = [off EXCEPT ![p] = 0] /\ len' = [len EXCEPT ![p] = 0]
    /\ buf' = [buf EXCEPT ![p] = None] /\ pg' = [pg EXCEPT ![p] = None]
    /\ seen' = [seen EXCEPT ![p] = 0] /\ k' = [k EXCEPT ![p] = 0]
    /\ out' = [out EXCEPT ![p] = ZeroedPage]

\* Inside copy_from_user, to the page of the file.
Copying(p) == pc[p] = "copyin" /\ buf[p] = private
OthersCopying(p) == {q \in Client \ {p} : Copying(q)}

\* What the file holds is no longer that of a write that was alone.
Forget == known' = FALSE /\ last' = <<None, 0>> /\ zeroed' = 0
NoneStable == stable' = [p \in Client |-> FALSE]

-----------------------------------------------------------------------------
(* rlfs_open.  The file's mode, 0755, lets everybody in.                   *)

\* Mutant: without the test of i_private.
OpenUntested(p) ==
    /\ pc[p] = "closed" /\ file
    /\ pc' = [pc EXCEPT ![p] = "opening"]
    /\ first' = IF private = None THEN first \cup {p} ELSE first
    /\ UNCHANGED <<fs, file, file_vars, off, len, buf, pg, seen, k, out,
                   known, last, zeroed, solo, stable, starved>>

OpenTest(p) ==
    /\ pc[p] = "closed" /\ file
    /\ pc' = [pc EXCEPT ![p] = IF private = None THEN "opening" ELSE "open"]
    /\ first' = IF private = None THEN first \cup {p} ELSE first
    /\ UNCHANGED <<fs, file, file_vars, off, len, buf, pg, seen, k, out,
                   known, last, zeroed, solo, stable, starved>>

\* What is not tested again: i_private may no longer be NULL.
OpenSet(p) ==
    /\ pc[p] = "opening"
    /\ private' = p
    /\ pc' = [pc EXCEPT ![p] = "open"]
    /\ IF p \in first
       THEN known' = TRUE /\ last' = <<None, 0>> /\ zeroed' = 0
       ELSE UNCHANGED <<known, last, zeroed>>
    /\ solo' = None /\ NoneStable
    /\ first' = first \ {p}
    /\ UNCHANGED <<fs, file, size, page, mem, off, len, buf, pg, seen, k, out, starved>>

OpenFails(p) ==
    /\ pc[p] = "opening"
    /\ pc' = [pc EXCEPT ![p] = "closed"]
    /\ first' = first \ {p}
    /\ UNCHANGED <<fs, file, file_vars, off, len, buf, pg, seen, k, out,
                   known, last, zeroed, solo, stable, starved>>

Close(p) ==
    /\ pc[p] = "open"
    /\ pc' = [pc EXCEPT ![p] = "closed"]
    /\ UNCHANGED <<fs, file, file_vars, off, len, buf, pg, seen, k, out, seen_vars>>

OpenStep(p) == OpenTest(p) \/ OpenSet(p) \/ OpenFails(p) \/ Close(p)

-----------------------------------------------------------------------------
(* rlfs_read.  The size is read up to three times, by a compiler that may  *)
(* also use again what it has read, and another client writes it at any    *)
(* time.                                                                   *)

Sizes(p) == {seen[p], size[buf[p]]}

Read(p, o, n) ==
    /\ pc[p] = "open" /\ private # None
    /\ o < size[private] /\ n > 0
    /\ pc' = [pc EXCEPT ![p] = "clip"]
    /\ off' = [off EXCEPT ![p] = o] /\ len' = [len EXCEPT ![p] = n]
    /\ buf' = [buf EXCEPT ![p] = private]
    /\ seen' = [seen EXCEPT ![p] = size[private]]
    /\ stable' = [stable EXCEPT ![p] = known /\ OthersCopying(p) = {}]
    /\ UNCHANGED <<fs, file, file_vars, pg, k, out, known, last, zeroed, solo, first, starved>>

\* if (*off + size > buffer->size)
Clip(p) ==
    /\ pc[p] = "clip"
    /\ \E s \in Sizes(p) :
          IF off[p] + len[p] > s
          THEN pc' = [pc EXCEPT ![p] = "cut"] /\ seen' = [seen EXCEPT ![p] = s]
          ELSE pc' = [pc EXCEPT ![p] = "load"] /\ seen' = [seen EXCEPT ![p] = 0]
    /\ UNCHANGED <<fs, file, file_vars, off, len, buf, pg, k, out, seen_vars>>

\* Mutant: without the test for what does not fit in.
CutUntested(p) ==
    /\ pc[p] = "cut"
    /\ \E s \in Sizes(p) :
          /\ len' = [len EXCEPT ![p] = s - off[p]]
          /\ pc' = [pc EXCEPT ![p] = "load"]
    /\ UNCHANGED <<fs, file, file_vars, off, buf, pg, seen, k, out, seen_vars>>

\* size = buffer->size - *off.  Zero bytes are all that were asked for, and
\* a size that has wrapped is refused by copy_to_user: -EINVAL.
Cut(p) ==
    /\ pc[p] = "cut"
    /\ \E s \in Sizes(p) :
          IF s <= off[p]
          THEN Return(p)
          ELSE /\ len' = [len EXCEPT ![p] = s - off[p]]
               /\ pc' = [pc EXCEPT ![p] = "load"]
               /\ seen' = [seen EXCEPT ![p] = 0]
               /\ UNCHANGED <<off, buf, pg, k, out>>
    /\ UNCHANGED <<fs, file, file_vars, seen_vars>>

\* Copying from the page NULL is an oops.
Load(p) ==
    /\ pc[p] = "load"
    /\ pg' = [pg EXCEPT ![p] = page[buf[p]]]
    /\ pc' = [pc EXCEPT ![p] = IF page[buf[p]] = None THEN "oops" ELSE "copyout"]
    /\ UNCHANGED <<fs, file, file_vars, off, len, buf, seen, k, out, seen_vars>>

\* Mutant: from the start of the page.
ReadByteUnshifted(p) ==
    /\ pc[p] = "copyout" /\ k[p] < len[p]
    /\ out' = [out EXCEPT ![p][k[p]] = mem[buf[p]][pg[p]][k[p]]]
    /\ k' = [k EXCEPT ![p] = k[p] + 1]
    /\ UNCHANGED <<fs, file, file_vars, pc, off, len, buf, pg, seen, seen_vars>>

\* From page + *off.
ReadByte(p) ==
    /\ pc[p] = "copyout" /\ k[p] < len[p]
    /\ out' = [out EXCEPT ![p][k[p]] = mem[buf[p]][pg[p]][off[p] + k[p]]]
    /\ k' = [k EXCEPT ![p] = k[p] + 1]
    /\ UNCHANGED <<fs, file, file_vars, pc, off, len, buf, pg, seen, seen_vars>>

\* At the end, or wherever the user's memory ends: a short read, or -EINVAL.
ReadEnd(p) ==
    /\ pc[p] = "copyout" /\ Return(p)
    /\ UNCHANGED <<fs, file, file_vars, seen_vars>>

ReadStep(p) ==
    \/ \E o \in Offset, n \in Count : Read(p, o, n)
    \/ Clip(p) \/ Cut(p) \/ Load(p) \/ ReadByte(p) \/ ReadEnd(p)

-----------------------------------------------------------------------------
(* rlfs_write.                                                             *)

Write(p, o, n) ==
    /\ pc[p] = "open" /\ private # None
    /\ pc' = [pc EXCEPT ![p] = IF page[private] = None THEN "alloc" ELSE "check"]
    /\ off' = [off EXCEPT ![p] = o] /\ len' = [len EXCEPT ![p] = n]
    /\ buf' = [buf EXCEPT ![p] = private]
    /\ first' = IF page[private] = None THEN first \cup {p} ELSE first
    /\ UNCHANGED <<fs, file, file_vars, pg, seen, k, out,
                   known, last, zeroed, solo, stable, starved>>

\* A page for the buffer b that it does not have and nobody copies from or to.
FreePages(b) == Page \ ({page[b]} \cup {pg[q] : q \in Client})

\* get_zeroed_page: its result is stored before it is looked at.
Alloc(p) ==
    /\ pc[p] = "alloc"
    /\ \E w \in FreePages(buf[p]) \cup {None} :
          /\ page' = [page EXCEPT ![buf[p]] = w]
          /\ mem' = IF w = None THEN mem ELSE [mem EXCEPT ![buf[p]][w] = ZeroedPage]
          /\ starved' = (starved \/ (w = None /\ page[buf[p]] # None))
    /\ \/ buf[p] # private /\ UNCHANGED <<known, last, zeroed, solo, stable>>
       \/ buf[p] = private /\ OthersCopying(p) # {} /\ Forget /\ solo' = None /\ NoneStable
       \/ /\ buf[p] = private /\ OthersCopying(p) = {}
          /\ zeroed' = IF p \in first THEN PageSize ELSE zeroed
          /\ NoneStable /\ UNCHANGED <<known, last, solo>>
    /\ pc' = [pc EXCEPT ![p] = "check"]
    /\ first' = first \ {p}
    /\ UNCHANGED <<fs, file, private, size, off, len, buf, pg, seen, k, out>>

\* Mutant: without the test of the page.
CheckNoPage(p) ==
    /\ pc[p] = "check"
    /\ IF off[p] >= PageSize \/ len[p] = 0
       THEN Return(p)
       ELSE /\ len' = [len EXCEPT ![p] = IF off[p] + @ > PageSize THEN PageSize - off[p] ELSE @]
            /\ off' = [off EXCEPT ![p] = 0]
            /\ pc' = [pc EXCEPT ![p] = "start"]
            /\ UNCHANGED <<buf, pg, seen, k, out>>
    /\ UNCHANGED <<fs, file, file_vars, seen_vars>>

\* -ENOMEM without a page; nothing to do past the page or for no bytes;
\* and where *off is PAGE_SIZE, no byte is left and -EINVAL is returned.
Check(p) ==
    /\ pc[p] = "check"
    /\ IF page[buf[p]] = None \/ off[p] >= PageSize \/ len[p] = 0
       THEN Return(p)
       ELSE /\ len' = [len EXCEPT ![p] = IF off[p] + @ > PageSize THEN PageSize - off[p] ELSE @]
            /\ off' = [off EXCEPT ![p] = 0]
            /\ pc' = [pc EXCEPT ![p] = "start"]
            /\ UNCHANGED <<buf, pg, seen, k, out>>
    /\ UNCHANGED <<fs, file, file_vars, seen_vars>>

Start(p) ==
    /\ pc[p] = "start"
    /\ pg' = [pg EXCEPT ![p] = page[buf[p]]]
    /\ pc' = [pc EXCEPT ![p] = IF page[buf[p]] = None THEN "oops" ELSE "copyin"]
    /\ \/ buf[p] # private /\ UNCHANGED <<known, last, zeroed, solo, stable>>
       \/ buf[p] = private /\ OthersCopying(p) # {} /\ Forget /\ solo' = None /\ NoneStable
       \/ /\ buf[p] = private /\ OthersCopying(p) = {}
          /\ solo' = IF page[private] = None THEN solo ELSE p
          /\ NoneStable /\ UNCHANGED <<known, last, zeroed>>
    /\ UNCHANGED <<fs, file, file_vars, off, len, buf, seen, k, out, first, starved>>

\* To the start of the page, whatever *off is.
WriteByte(p) ==
    /\ pc[p] = "copyin" /\ k[p] < len[p]
    /\ mem' = [mem EXCEPT ![buf[p]][pg[p]][k[p]] = <<p, k[p]>>]
    /\ k' = [k EXCEPT ![p] = k[p] + 1]
    /\ UNCHANGED <<fs, file, private, size, page, pc, off, len, buf, pg, seen, out, seen_vars>>

\* The user's memory ends: copy_from_user zeroes what it could not copy.
\* Nothing copied is -EINVAL, with the size as it was.
WriteFault(p) ==
    /\ pc[p] = "copyin" /\ k[p] < len[p]
    /\ mem' = [mem EXCEPT ![buf[p]][pg[p]] =
                  [i \in Index |-> IF k[p] <= i /\ i < len[p] THEN <<None, 0>> ELSE @[i]]]
    /\ zeroed' = IF solo = p /\ len[p] > zeroed THEN len[p] ELSE zeroed
    /\ IF k[p] = 0
       THEN Return(p) /\ solo' = IF solo = p THEN None ELSE solo
       ELSE /\ len' = [len EXCEPT ![p] = k[p]]
            /\ UNCHANGED <<pc, off, buf, pg, seen, k, out, solo>>
    /\ UNCHANGED <<fs, file, private, size, page, known, last, stable, first, starved>>

SetSize(p) ==
    /\ pc[p] = "copyin" /\ k[p] = len[p]
    /\ size' = [size EXCEPT ![buf[p]] = len[p]]
    /\ IF solo = p
       THEN known' = TRUE /\ last' = <<p, len[p]>> /\ zeroed' = 0 /\ solo' = None
       ELSE UNCHANGED <<known, last, zeroed, solo>>
    /\ Return(p)
    /\ UNCHANGED <<fs, file, private, page, mem, stable, first, starved>>

WriteStep(p) ==
    \/ \E o \in Offset, n \in Count : Write(p, o, n)
    \/ Alloc(p) \/ Check(p) \/ Start(p) \/ WriteByte(p) \/ WriteFault(p) \/ SetSize(p)

-----------------------------------------------------------------------------

Next == LoadStep \/ \E p \in Client : OpenStep(p) \/ ReadStep(p) \/ WriteStep(p)

Spec == Init /\ [][Next]_vars

-----------------------------------------------------------------------------
\* What is left of the last write that was alone, and what the file holds of
\* it and of the one that is copying.
HeldByte(i) == IF i < zeroed THEN <<None, 0>> ELSE <<last[1], i>>
FileByte(i) == IF solo # None /\ i < k[solo] THEN <<solo, i>> ELSE HeldByte(i)

(* The file has the size and the bytes of the last write that was alone in *)
(* copying to it, from the first on and whatever its offset was, under     *)
(* what a write going on alone has copied so far.  That is not known only  *)
(* from where two writes copy at the same time, or one allocates the page  *)
(* while another copies, until the next write that copies alone.  Four     *)
(* things take from it, and nothing else, no other open, no read and no    *)
(* call refused before it copies: an open that began when there was no     *)
(* buffer empties the file; the allocation of a write that began when      *)
(* there was no page zeroes all of it, or takes the page away if it fails; *)
(* a write that faults zeroes what it should have copied; and the next     *)
(* write that copies at least one byte replaces it.                        *)
FileHoldsLastWrite ==
    known /\ private # None =>
        /\ size[private] = last[2]
        /\ \A i \in Index : i < last[2] =>
              IF page[private] = None THEN starved
              ELSE mem[private][page[private]][i] = FileByte(i)

(* A read during which nothing of this happens and no write copies returns *)
(* those bytes of the file that the client asked for, and no more than     *)
(* there are, although the size is read again and again.                   *)
ReadSeesFile ==
    \A p \in Client : stable[p] /\ pc[p] = "copyout" =>
        /\ off[p] + len[p] <= last[2]
        /\ \A i \in Index : i < k[p] => out[p][i] = HeldByte(off[p] + i)

(* The page NULL is only ever copied from or to where an allocation failed *)
(* while another writer had made the page: of two writers that both find   *)
(* no page, the one whose allocation fails takes the page away.            *)
OopsOnlyWhenStarved == (\E p \in Client : pc[p] = "oops") => starved
=============================================================================
