---------------------------- MODULE MCDfuSession ----------------------------
(* The update session with images of a few chunks; a sector is two chunks. *)
EXTENDS DfuSession

\* A full sector, and an odd rest, smaller than a chunk, in the second one.
MCSizes == {5}

\* A little more than half the bank, with a sector to spare.
MCFits == {13}
=============================================================================
