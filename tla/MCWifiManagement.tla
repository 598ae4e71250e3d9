-------------------------- MODULE MCWifiManagement --------------------------
(* WifiManagement for TLC: two tasks and each kind of call.  The connect of    *)
(* MCRequests does not wait, because waiting changes nothing but the wait queue *)
(* that the other calls share; MCConnect is the connect that waits.  The script *)
(* of connect_with_bssid is that of connect.                                    *)
EXTENDS WifiManagement, TLC

Req(op, b) == [op |-> op, blocked |-> b, k |-> 0]
MCRequests ==
    {Req("connect", FALSE), Req("disconnect", TRUE), Req("scan", TRUE),
     Req("ap_start", TRUE), Req("monitor_start", TRUE),
     Req("sta_start", FALSE)}
MCSymmetry == Permutations(Tasks)
MCConnect == {Req("connect", TRUE)}
=============================================================================
