---------------------------- MODULE MCNvdsFlash ----------------------------
(* Instances of the NVDS store: values "s", "t" are SMALL, "m" is MIDDLE.   *)
EXTENDS NvdsFlash, TLC

MCMixed == {"s", "m"}
MCDataLen == [v \in Values |-> IF v = "m" THEN 1 ELSE 0]
MCJunkLen == [v \in Values |-> IF v = "m" THEN 1 ELSE 0]

\* Keys and, when all have the same length, values are interchangeable.
MCSymmetry == Permutations(Keys) \cup Permutations(Values)
MCKeySymmetry == Permutations(Keys)
=============================================================================
