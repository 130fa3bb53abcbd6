------------------------------ MODULE FlashMap ------------------------------
(***************************************************************************)
(* Flash images and the two searches for their flash map: find_fmap() of    *)
(* scripts/make-capsule.py and parse_fmap() of scripts/transfer-settings.py. *)
(*                                                                         *)
(* An image is `len` cells of one flash block each.  A cell in which the    *)
(* signature __FMAP__ is found carries what follows it as a head: the major *)
(* version, the number of areas and the table of areas by name.             *)
(***************************************************************************)
EXTENDS Integers

CONSTANT NoHead   \* a cell without the signature

\* The header is in the cell of the signature, the table ends in the next one.
MapCells == 2

NoMap == <<>>

-----------------------------------------------------------------------------
(* Python's slices, which are cut at the end of the data                     *)

Clip(b, p) == IF p < b.len THEN p ELSE b.len

Slice(b, off, size) ==
  LET n == Clip(b, off + size) - Clip(b, off)
  IN  [len |-> n, at |-> [k \in 0 .. n - 1 |-> b.at[off + k]]]

Concat(b, c) ==
  [len |-> b.len + c.len,
   at  |-> [k \in 0 .. (b.len + c.len) - 1 |->
              IF k < b.len THEN b.at[k] ELSE c.at[k - b.len]]]

\* b[off : off + size] = c on a bytearray, which may change its length.
Splice(b, off, size, c) ==
  Concat(Concat(Slice(b, 0, off), c), Slice(b, off + size, b.len))

-----------------------------------------------------------------------------

Hits(b) == {p \in 0 .. b.len - 1 : b.at[p].head # NoHead}

\* A version and an area count that make sense, and a table inside the file.
Plausible(b, p, maxAreas) ==
  LET h == b.at[p].head
  IN  h.major = 1 /\ h.nareas \in 1 .. maxAreas /\ p + MapCells <= b.len

\* Mutant: the area FMAP does not have to point back.
ParsesAnywhere(b, p) == Plausible(b, p, 64)

\* parse_fmap_at(): the area FMAP points back at the candidate.
ParsesAt(b, p) ==
  LET areas == b.at[p].head.areas
  IN  /\ Plausible(b, p, 64)
      /\ "FMAP" \in DOMAIN areas
      /\ areas["FMAP"].off = p

\* find_fmap(): the only valid map, or an error.
FindFmap(b) ==
  LET found == {p \in Hits(b) : ParsesAt(b, p)}
  IN  IF \E p \in found : found = {p}
      THEN b.at[CHOOSE p \in found : TRUE].head.areas
      ELSE NoMap

\* parse_fmap(): the first plausible one, or an error.
FirstFmap(b) ==
  LET found == {p \in Hits(b) : Plausible(b, p, 1024)}
  IN  IF found = {}
      THEN NoMap
      ELSE b.at[CHOOSE p \in found : \A q \in found : p <= q].head.areas
=============================================================================
