------------------------------- MODULE KvStore -------------------------------
(***************************************************************************)
(* What the calls of nvds_flash.h promise while power stays on: a map from *)
(* keys to values.  A put that does not fit is reported, and costs the key *)
(* its previous value.                                                     *)
(***************************************************************************)
CONSTANTS Keys, Values, NoVal

VARIABLES kv, res

Init ==
    /\ kv = [k \in Keys |-> NoVal]
    /\ res = "OK"

Put(k, v) ==
    /\ kv' = [kv EXCEPT ![k] = v]
    /\ res' = "OK"

PutNoSpace(k, v) ==
    /\ kv[k] # v
    /\ kv' = [kv EXCEPT ![k] = NoVal]
    /\ res' = "NO_SPACE"

Del(k) ==
    /\ kv[k] # NoVal
    /\ kv' = [kv EXCEPT ![k] = NoVal]
    /\ res' = "OK"

DelMissing(k) ==
    /\ kv[k] = NoVal
    /\ kv' = kv
    /\ res' = "NOT_FOUND"

Clean ==
    /\ kv' = [k \in Keys |-> NoVal]
    /\ res' = "OK"

Next ==
    \/ \E k \in Keys : Del(k) \/ DelMissing(k)
    \/ \E k \in Keys, v \in Values : Put(k, v) \/ PutNoSpace(k, v)
    \/ Clean

Spec == Init /\ [][Next]_<<kv, res>>
=============================================================================
