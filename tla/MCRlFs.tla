------------------------------- MODULE MCRlFs -------------------------------
(***************************************************************************)
(* Clients are alike, and nothing about them is checked but safety.  Bytes *)
(* nobody can reach any more, those of a buffer or a page that was lost,   *)
(* and the bytes of a read whose file has changed, tell no states apart.   *)
(***************************************************************************)
EXTENDS RlFs, TLC

Symmetry == Permutations(Client) \cup Permutations(Page)

LiveBuffers == ({private} \cup {buf[p] : p \in Client}) \ {None}
LivePages == {<<b, page[b]>> : b \in LiveBuffers} \cup {<<buf[p], pg[p]>> : p \in Client}

View ==
    <<fs, file, private, known, last, zeroed, solo, first, starved,
      pc, off, len, buf, pg, seen, k,
      [b \in LiveBuffers |-> <<size[b], page[b]>>],
      [x \in LivePages \cap (Client \X Page) |-> mem[x[1]][x[2]]],
      [p \in Client |-> IF pc[p] \notin ReaderPc THEN <<>>
                        ELSE IF stable[p] THEN <<out[p]>> ELSE <<0>>]>>
=============================================================================
