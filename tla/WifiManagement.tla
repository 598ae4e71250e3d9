--------------------------- MODULE WifiManagement ---------------------------
(***************************************************************************)
(* The Wi-Fi management task of one interface: the event queue of its       *)
(* event loop, the station state machine MAINTAIN_CONNECTION with its       *)
(* timers, the small SoftAP and monitor machines, and the blocking calls    *)
(* that other tasks make (connect, disconnect, scan, ap_start,              *)
(* monitor_start), which wait for their answer on mgmt_wait_queue.          *)
(*                                                                          *)
(* A handler runs in the management task and is one step: only the two      *)
(* queues, scan_blocked and wvif_type are shared with other tasks.  The     *)
(* exception is the SCAN_DONE handler of state CONNECTED, which posts twice *)
(* and can be preempted in between (field "fall").                          *)
(* Timers have no times: a registered one may fire at any moment.           *)
(***************************************************************************)
EXTENDS Integers, Sequences, FiniteSets

CONSTANTS
    Tasks,      \* tasks that call wifi_management_*
    Requests,   \* the calls they make: a set of records like NoCall
    QSize,      \* MGMT_TASK_QUEUE_SIZE
    WaitSize,   \* MGMT_WAIT_QUEUE_MSG_SIZE
    RetryLimit, \* WIFI_MGMT_CONNECT_RETRY_LIMIT and WIFI_MGMT_ROAMING_RETRY_LIMIT
    PollLimit,  \* WIFI_MGMT_DHCP_POLLING_LIMIT
    MaxOutside  \* bound: calls made, links dropped and roamings begun in a behaviour

ASSUME SizeAssumption == QSize \in Nat \ {0} /\ WaitSize \in Nat \ {0}
ASSUME LimitAssumption == RetryLimit \in Nat \ {0, 1} /\ PollLimit \in Nat \ {0}
ASSUME BoundAssumption == MaxOutside \in Nat

Ops == {"connect", "connect_with_bssid", "disconnect", "scan", "ap_start",
        "monitor_start", "sta_start"}
ASSUME RequestAssumption == Requests \subseteq [op : Ops, blocked : BOOLEAN, k : {0}]

VARIABLES
    sm,     \* wifi_sm_data[0], wifi_vif_tab[0].sta, the two queues and the timers
    mac,    \* the MAC library: a scan under way, the state of the link
    task,   \* the call each task is in
    outside \* calls, lost links and roamings so far

vars == <<sm, mac, task, outside>>

StaStates == {"IDLE", "SCAN", "CONNECT", "HANDSHAKE", "DHCP", "CONNECTED"}
Attempt == {"SCAN", "CONNECT", "HANDSHAKE", "DHCP"}
Up == Attempt \cup {"CONNECTED"}
Modes == {"STA", "AP", "MONITOR"}
Connects == {"connect", "connect_with_bssid"}

\* eloop_message_t: "arg" is the reason or the parameter.  Reason 0 is "zero";
\* "lost" stands for the reasons after which a connected station connects again.
\* Of a sta_cfg conn_blocked is kept: roaming sends CONNECT_CMD without one.
Msg(ev, arg) == [ev |-> ev, arg |-> arg]
ConnectMsg(blocked) == Msg("CONNECT_CMD", IF blocked THEN "blocked" ELSE "free")
RoamMsg == Msg("CONNECT_CMD", "zero")

-----------------------------------------------------------------------------
(* Helpers: from the state s of the task to the next.                       *)

\* eloop_event_send and eloop_message_send of the task itself and of the MAC:
\* a message for a full queue is lost.
SendUnchecked(s, m) == [s EXCEPT !.queue = Append(@, m)]
Send(s, m) ==
    IF Len(s.queue) < QSize THEN [s EXCEPT !.queue = Append(@, m)]
                            ELSE [s EXCEPT !.lost = TRUE]

\* sys_queue_post on mgmt_wait_queue: a full queue refuses the event, and
\* nobody looks at the result.  Ghost "up": the station was connected then.
Post(s, evt, reason) ==
    IF Len(s.waitq) < WaitSize
    THEN [s EXCEPT !.waitq = Append(@, [evt |-> evt, reason |-> reason,
                                        up |-> s.st = "CONNECTED"])]
    ELSE s

PostConnDone(s, reason) ==
    IF s.connBlocked THEN Post([s EXCEPT !.connBlocked = FALSE], "CONN_DONE", reason)
                     ELSE s

PostScanDone(s, reason) ==
    IF s.scanBlocked THEN Post([s EXCEPT !.scanBlocked = FALSE], "SCAN_DONE", reason)
                     ELSE s

RetryParamSet(s) == [s EXCEPT !.retry = RetryLimit - 1]

\* eloop_timeout_register: it fails when there is no memory, and no caller looks at
\* the result.  Ghost "lacks": what would end the state was not started, since the
\* flag delayed_connect_retry suppressed the scan, or a timer was not registered.
Register(s, timer, ok) ==
    IF ok THEN [s EXCEPT !.timers = @ \cup {timer}, !.lacks = "nothing"]
          ELSE [s EXCEPT !.lacks = "timer"]

\* mgmt_register_delayed_connect_retry: one such timer at most.
RegisterRetry(s, ok) ==
    IF "retry" \in s.timers THEN [s EXCEPT !.lacks = "nothing"]
                            ELSE Register(s, "retry", ok)

\* mgmt_preroam_rollback: back to the network the station roamed from.
Rollback(s) ==
    IF s.preroam THEN Send([s EXCEPT !.preroam = FALSE], RoamMsg)
                 ELSE s

-----------------------------------------------------------------------------
(* State entries.  "ok" is the result of the request made to the MAC.       *)

EnterIdleKeepsRetry(s) ==
    Post([s EXCEPT !.st = "IDLE", !.delayed = FALSE, !.timers = @ \ {"dhcp"}, !.links = 0,
                   !.lacks = "nothing"],
         "DISCONN_DONE", "zero")
EnterIdle(s) ==
    Post([s EXCEPT !.st = "IDLE", !.delayed = FALSE, !.timers = {}, !.links = 0,
                   !.lacks = "nothing"],
         "DISCONN_DONE", "zero")

EnterScanKeepsPolling(s, ok) ==
    LET e == [s EXCEPT !.st = "SCAN", !.links = 0,
                       !.lacks = IF s.delayed THEN "scan" ELSE "nothing"]
    IN  IF e.delayed \/ ok THEN e ELSE Send(e, Msg("SCAN_FAIL", "zero"))
EnterScanSilent(s, ok) ==
    [s EXCEPT !.st = "SCAN", !.timers = @ \ {"dhcp"}, !.links = 0,
              !.lacks = IF s.delayed THEN "scan" ELSE "nothing"]
EnterScan(s, ok) ==
    LET e == [s EXCEPT !.st = "SCAN", !.timers = @ \ {"dhcp"}, !.links = 0,
                       !.lacks = IF s.delayed THEN "scan" ELSE "nothing"]
    IN  IF e.delayed \/ ok THEN e ELSE Send(e, Msg("SCAN_FAIL", "zero"))

EnterConnect(s, ok) ==
    LET e == [s EXCEPT !.st = "CONNECT", !.lacks = "nothing"]
    IN  IF ok THEN e ELSE Send(e, Msg("CONNECT_FAIL", "fail"))

EnterDhcp(s, ok) ==
    Register([s EXCEPT !.st = "DHCP", !.polls = PollLimit], "dhcp", ok)

EnterConnected(s) ==
    LET e == [s EXCEPT !.st = "CONNECTED"]
        d == IF e.connBlocked THEN PostConnDone(e, "zero")
                              ELSE Send(e, Msg("CONNECT_SUCCESS", "zero"))
    IN  [d EXCEPT !.preroam = FALSE]

-----------------------------------------------------------------------------
(* The MAC library (external), as the requests and events in src/ use it:   *)
(* one scan at a time; a connection is accepted when there is no link; a    *)
(* link that the host closes is reported gone later.                        *)

ScanStarts(ok) == ok => ~mac.scan
MacScan(ok) == [mac EXCEPT !.scan = @ \/ ok]
ConnectStarts(ok) == ok => mac.link = "none"
MacConnect(ok) == [mac EXCEPT !.link = IF ok THEN "joining" ELSE @]
\* wifi_netlink_disconnect_req; that the MAC takes the request is assumed.
Disconnected(m) == [m EXCEPT !.link = IF @ = "none" THEN "none" ELSE "leaving"]

-----------------------------------------------------------------------------
(* The state machines: wifi_mgmt_cb_run_state_machine takes the message at  *)
(* the head of the queue.  One action per row of the switch statements; the *)
(* three machines share one state field, a union in the code.               *)

msg == Head(sm.queue)
Rest == [sm EXCEPT !.queue = Tail(@)]
Quiet == UNCHANGED <<task, outside>>
Event(evs, states) ==
    /\ Quiet
    /\ ~sm.fall
    /\ sm.queue # <<>>
    /\ msg.ev \in evs
    /\ sm.st \in states

\* sys_memcpy of the message's sta_cfg; roaming sends no parameter.
SetCfg(s) == IF msg.arg = "zero" THEN s
             ELSE [s EXCEPT !.connBlocked = (msg.arg = "blocked")]

ScanCmd ==
    /\ Event({"SCAN_CMD"}, {"IDLE", "CONNECTED", "STARTED"})
    /\ \E ok \in BOOLEAN :
         /\ ScanStarts(ok)
         /\ mac' = MacScan(ok)
         /\ sm' = IF ok THEN Rest ELSE PostScanDone(Rest, "fail")

ConnectCmdIdle ==
    /\ Event({"CONNECT_CMD"}, {"IDLE"})
    /\ \E ok \in BOOLEAN :
         /\ ScanStarts(ok)
         /\ mac' = MacScan(ok)
         /\ sm' = EnterScan(RetryParamSet(SetCfg(Rest)), ok)

ConnectCmdConnected ==
    /\ Event({"CONNECT_CMD"}, {"CONNECTED"})
    /\ \E ok \in BOOLEAN :
         /\ ScanStarts(ok)
         /\ mac' = Disconnected(MacScan(ok))
         /\ sm' = EnterScan(RetryParamSet(EnterIdle(SetCfg(Rest))), ok)

\* wifi_netlink_joined_ap_load may find no network to connect to.
AutoConnectCmd ==
    /\ Event({"AUTO_CONNECT_CMD"}, {"IDLE"})
    /\ \/ /\ mac' = Disconnected(mac)
          /\ sm' = EnterIdle(Rest)
       \/ \E ok \in BOOLEAN :
            /\ ScanStarts(ok)
            /\ mac' = MacScan(ok)
            /\ sm' = EnterScan(RetryParamSet(Rest), ok)

\* mgmt_link_is_ongoing
LinkIsOngoing ==
    /\ Event({"SCAN_CMD", "CONNECT_CMD"}, Attempt)
    /\ sm' = PostConnDone([Rest EXCEPT !.connBlocked = TRUE], "fail")
    /\ UNCHANGED mac

DisconnectCmdLeavesLink ==
    /\ Event({"DISCONNECT_CMD"}, StaStates)
    /\ sm' = EnterIdle(Rest)
    /\ UNCHANGED mac
DisconnectCmd ==
    \/ /\ Event({"DISCONNECT_CMD"}, {"IDLE"})
       /\ sm' = Post(Rest, "DISCONN_DONE", "zero")
       /\ UNCHANGED mac
    \/ /\ Event({"DISCONNECT_CMD"}, Attempt \cup {"CONNECTED"})
       /\ sm' = EnterIdle(Rest)
       /\ mac' = Disconnected(mac)

\* A failure of an earlier attempt that arrives during the next scan.
ConnectFailScan ==
    /\ Event({"CONNECT_FAIL"}, {"SCAN"})
    /\ sm' = EnterIdle(Rest)
    /\ mac' = Disconnected(mac)

ScanDoneScan ==
    /\ Event({"SCAN_DONE"}, {"SCAN"})
    /\ \E ok \in BOOLEAN :
         /\ ConnectStarts(ok)
         /\ mac' = MacConnect(ok)
         /\ sm' = EnterConnect(Rest, ok)

\* The last retry is used up.
GiveUp(s) == EnterIdle(PostConnDone(Rollback(s), msg.arg))

ScanFailRetriesAlways ==
    /\ Event({"SCAN_FAIL"}, {"SCAN"})
    /\ \E ok \in BOOLEAN : sm' = RegisterRetry(Rest, ok)
    /\ UNCHANGED mac
ScanFailScan ==
    /\ Event({"SCAN_FAIL"}, {"SCAN"})
    /\ IF sm.retry > 0
       THEN (\E ok \in BOOLEAN : sm' = RegisterRetry(Rest, ok)) /\ UNCHANGED mac
       ELSE sm' = GiveUp(Rest) /\ mac' = Disconnected(mac)

\* The failure rows of CONNECT, HANDSHAKE and DHCP: the next scan waits for the
\* retry timer.
HostCloses == \/ sm.st = "HANDSHAKE" /\ msg.ev = "CONNECT_FAIL"
              \/ sm.st = "DHCP" /\ msg.ev \in {"CONNECT_FAIL", "DHCP_FAIL"}

AttemptFailsNotInDhcp ==
    /\ \/ Event({"CONNECT_FAIL", "DISCONNECT"}, {"CONNECT", "HANDSHAKE", "DHCP"})
       \/ Event({"DHCP_FAIL"}, {"DHCP"})
    /\ IF sm.st = "DHCP" THEN sm' = Rest /\ UNCHANGED mac
       ELSE IF sm.retry > 0
       THEN /\ \E ok \in BOOLEAN :
                  sm' = RegisterRetry(EnterScan([Rest EXCEPT !.delayed = TRUE], FALSE), ok)
            /\ mac' = IF HostCloses THEN Disconnected(mac) ELSE mac
       ELSE /\ sm' = GiveUp(Rest)
            /\ mac' = Disconnected(mac)
AttemptFails ==
    /\ \/ Event({"CONNECT_FAIL", "DISCONNECT"}, {"CONNECT", "HANDSHAKE", "DHCP"})
       \/ Event({"DHCP_FAIL"}, {"DHCP"})
    /\ IF sm.retry > 0
       THEN /\ \E ok \in BOOLEAN :
                  sm' = RegisterRetry(EnterScan([Rest EXCEPT !.delayed = TRUE], FALSE), ok)
            /\ mac' = IF HostCloses THEN Disconnected(mac) ELSE mac
       ELSE /\ sm' = GiveUp(Rest)
            /\ mac' = Disconnected(mac)

AssocSuccess ==
    /\ Event({"ASSOC_SUCCESS"}, {"CONNECT"})
    /\ sm' = [Rest EXCEPT !.st = "HANDSHAKE"]
    /\ UNCHANGED mac

DhcpStart ==
    /\ Event({"DHCP_START"}, {"HANDSHAKE"})
    /\ \E ok \in BOOLEAN : sm' = EnterDhcp(Rest, ok)
    /\ UNCHANGED mac

DhcpSuccess ==
    /\ Event({"DHCP_SUCCESS"}, {"DHCP"})
    /\ sm' = [EnterConnected(Rest) EXCEPT !.timers = @ \ {"retry"}]
    /\ UNCHANGED mac

\* Outside an attempt SCAN_DONE answers a blocked scan call.
ScanDone ==
    /\ Event({"SCAN_DONE"}, {"IDLE", "STARTED"})
    /\ sm' = PostScanDone(Rest, "zero")
    /\ UNCHANGED mac

\* mgmt_connected_scan_done may find a better AP; the case then falls through
\* into SCAN_FAIL.
ScanDoneConnected ==
    /\ Event({"SCAN_DONE"}, {"CONNECTED"})
    /\ \E better \in {FALSE, sm.pollScan} :
         LET s == [Rest EXCEPT !.pollScan = FALSE, !.fall = TRUE]
         IN  sm' = PostScanDone(IF better THEN Send(s, RoamMsg)
                                          ELSE s, "zero")
    /\ UNCHANGED mac

ScanDoneFallThrough ==
    /\ Quiet
    /\ sm.fall
    /\ sm' = PostScanDone([sm EXCEPT !.fall = FALSE], "fail")
    /\ UNCHANGED mac

ScanFail ==
    /\ Event({"SCAN_FAIL"}, {"CONNECTED", "STARTED"})
    /\ sm' = PostScanDone(Rest, "fail")
    /\ UNCHANGED mac

LinkLost ==
    /\ Event({"DISCONNECT"}, {"CONNECTED"})
    /\ \/ /\ msg.arg \in {"lost", "saquery"}
          /\ \E ok \in BOOLEAN :
               /\ ScanStarts(ok /\ ~sm.delayed)
               /\ mac' = LET m == MacScan(ok /\ ~sm.delayed)
                         IN  IF msg.arg = "saquery" THEN Disconnected(m) ELSE m
               /\ sm' = EnterScan(RetryParamSet(Rest), ok)
       \/ /\ msg.arg \notin {"lost", "saquery"}
          /\ sm' = EnterIdle(Rest)
          /\ mac' = Disconnected(mac)

RoamingStart ==
    /\ Event({"ROAMING_START"}, {"CONNECTED"})
    /\ \E new \in {0, 1} : sm' = [Rest EXCEPT !.preroam = TRUE, !.links = @ + new]
    /\ UNCHANGED mac

\* wifi_netlink_ap_start and wifi_netlink_monitor_start may fail.
StartCmd(ev, mode, evt) ==
    /\ Event({ev}, {"INIT"})
    /\ sm.type = mode
    /\ \/ sm' = Post([Rest EXCEPT !.st = "STARTED"], evt, "zero")
       \/ sm' = Post(Rest, evt, "fail")
    /\ UNCHANGED mac

\* mgmt_switch_mode; wifi_vif_reset clears the configuration of the mode left,
\* and when the MAC refuses the new type the machine's data is not reset.
SwitchMode ==
    /\ Event({"SWITCH_MODE_CMD"}, StaStates \cup {"INIT", "STARTED"})
    /\ \/ msg.arg = sm.type /\ sm' = Rest /\ UNCHANGED mac
       \/ /\ msg.arg # sm.type
          /\ LET old == IF sm.type = "STA"
                        THEN [EnterIdle(Rest) EXCEPT !.connBlocked = FALSE]
                        ELSE Rest
                 new == [old EXCEPT !.type = msg.arg,
                            !.st = IF msg.arg = "STA" THEN "IDLE" ELSE "INIT"]
             IN  \/ sm' = new
                 \/ msg.arg = "STA"
                    /\ sm' = RetryParamSet([new EXCEPT !.pollScan = FALSE])
          /\ mac' = IF sm.type = "STA" THEN Disconnected(mac) ELSE mac

\* All other events: an empty case, or unexpected_events.
Handled(st) ==
    LET onAir == {"SCAN_CMD", "CONNECT_CMD", "DISCONNECT_CMD"}
        fails == {"CONNECT_FAIL", "DISCONNECT"}
    IN  CASE st = "IDLE" -> onAir \cup {"AUTO_CONNECT_CMD", "SCAN_DONE"}
          [] st = "SCAN" -> onAir \cup {"CONNECT_FAIL", "SCAN_DONE", "SCAN_FAIL"}
          [] st = "CONNECT" -> onAir \cup fails \cup {"ASSOC_SUCCESS"}
          [] st = "HANDSHAKE" -> onAir \cup fails \cup {"DHCP_START"}
          [] st = "DHCP" -> onAir \cup fails \cup {"DHCP_SUCCESS", "DHCP_FAIL"}
          [] st = "CONNECTED" -> onAir \cup {"SCAN_DONE", "SCAN_FAIL", "DISCONNECT",
                                             "ROAMING_START"}
          [] st = "STARTED" -> {"SCAN_CMD", "SCAN_DONE", "SCAN_FAIL"}
          [] st = "INIT" -> {IF sm.type = "AP" THEN "START_AP_CMD"
                                               ELSE "MONITOR_START_CMD"}

Ignored ==
    /\ Quiet
    /\ ~sm.fall
    /\ sm.queue # <<>>
    /\ msg.ev \notin Handled(sm.st) \cup {"SWITCH_MODE_CMD"}
    /\ sm' = Rest
    /\ UNCHANGED mac

Dispatch ==
    \/ ScanCmd \/ ConnectCmdIdle \/ ConnectCmdConnected \/ AutoConnectCmd
    \/ LinkIsOngoing \/ DisconnectCmd \/ ConnectFailScan \/ ScanDoneScan
    \/ ScanFailScan \/ AttemptFails \/ AssocSuccess \/ DhcpStart \/ DhcpSuccess
    \/ ScanDone \/ ScanDoneConnected \/ ScanDoneFallThrough \/ ScanFail
    \/ LinkLost \/ RoamingStart \/ SwitchMode
    \/ StartCmd("START_AP_CMD", "AP", "AP_START_DONE")
    \/ StartCmd("MONITOR_START_CMD", "MONITOR", "MONITOR_START_DONE")
    \/ Ignored

-----------------------------------------------------------------------------
(* Timeouts of the event loop, run by the same task.                        *)

\* mgmt_dhcp_polling: both events carry reason 0; the reason written to
\* sm->reason is overwritten when the event is dispatched.
DhcpPolling ==
    /\ Quiet
    /\ ~sm.fall
    /\ "dhcp" \in sm.timers
    /\ LET s == [sm EXCEPT !.timers = @ \ {"dhcp"}]
           d == [s EXCEPT !.polls = @ - 1]
       IN  \/ sm' = Send(s, Msg("DHCP_SUCCESS", "zero"))
           \/ d.polls # 0 /\ \E ok \in BOOLEAN : sm' = Register(d, "dhcp", ok)
           \/ d.polls = 0 /\ sm' = Send(d, Msg("DHCP_FAIL", "zero"))
    /\ UNCHANGED mac

\* mgmt_link_status_polling; polling_scan_count only decides which of the
\* polls start a scan.
LinkStatusPolling ==
    /\ Quiet
    /\ ~sm.fall
    /\ sm.links > 0
    /\ LET s == [sm EXCEPT !.links = @ - 1]
       IN  \/ ~sm.preroam /\ sm' = s /\ UNCHANGED mac
           \/ sm.preroam /\ sm' = [s EXCEPT !.preroam = FALSE] /\ UNCHANGED mac
           \/ sm.preroam /\ sm' \in {s, sm} /\ UNCHANGED mac
           \/ /\ sm.preroam
              /\ \E again \in {s, sm} : sm' = [again EXCEPT !.pollScan = TRUE]
              /\ \E ok \in BOOLEAN : ScanStarts(ok) /\ mac' = MacScan(ok)

\* mgmt_connect_retry
ConnectRetry ==
    /\ Quiet
    /\ ~sm.fall
    /\ "retry" \in sm.timers
    /\ \E ok \in BOOLEAN :
         /\ ScanStarts(ok)
         /\ mac' = MacScan(ok)
         /\ sm' = EnterScan([sm EXCEPT !.timers = @ \ {"retry"}, !.retry = @ - 1,
                                       !.delayed = FALSE], ok)

Mgmt == Dispatch \/ DhcpPolling \/ LinkStatusPolling \/ ConnectRetry

-----------------------------------------------------------------------------
(* Events of the MAC library, forwarded by wifi_netlink_msg_forward.        *)

Outside == outside < MaxOutside /\ outside' = outside + 1

MacScanEnd ==
    /\ Quiet
    /\ mac.scan
    /\ mac' = [mac EXCEPT !.scan = FALSE]
    /\ \/ sm' = Send(sm, Msg("SCAN_DONE", "zero"))
       \/ sm' = Send(sm, Msg("SCAN_FAIL", "fail"))

MacJoin ==
    /\ Quiet
    /\ mac.link = "joining"
    /\ \/ mac' = [mac EXCEPT !.link = "joined"] /\ sm' = Send(sm, Msg("ASSOC_SUCCESS", "zero"))
       \/ mac' = [mac EXCEPT !.link = "none"] /\ sm' = Send(sm, Msg("CONNECT_FAIL", "fail"))

\* The keys are set.
MacHandshake ==
    /\ Quiet
    /\ mac.link = "joined"
    /\ mac' = [mac EXCEPT !.link = "open"]
    /\ sm' = Send(sm, Msg("DHCP_START", "zero"))

\* The supplicant gives the handshake up.
HandshakeFails ==
    /\ Quiet
    /\ mac.link = "joined"
    /\ mac' = [mac EXCEPT !.link = "failed"]
    /\ sm' = Send(sm, Msg("CONNECT_FAIL", "fail"))

\* A link the host has closed is gone.
MacLeft ==
    /\ Quiet
    /\ mac.link = "leaving"
    /\ mac' = [mac EXCEPT !.link = "none"]
    /\ sm' = Send(sm, Msg("DISCONNECT", "other"))

\* The AP or the air ends the link.
MacDrop ==
    /\ UNCHANGED task
    /\ Outside
    /\ mac.link \in {"joining", "joined", "failed", "open"}
    /\ mac' = [mac EXCEPT !.link = "none"]
    /\ \E r \in {"lost", "other"} : sm' = Send(sm, Msg("DISCONNECT", r))

\* A failed SA query leaves it to the host to end the link.
SaQueryFails ==
    /\ UNCHANGED <<task, mac>>
    /\ Outside
    /\ mac.link = "open"
    /\ sm' = Send(sm, Msg("DISCONNECT", "saquery"))

\* The signal of the current AP has become weak.
MacRoam ==
    /\ UNCHANGED <<task, mac>>
    /\ Outside
    /\ mac.link = "open"
    /\ sm' = Send(sm, Msg("ROAMING_START", "zero"))

Mac == \/ MacScanEnd \/ MacJoin \/ MacHandshake \/ HandshakeFails
       \/ MacLeft \/ MacDrop \/ SaQueryFails \/ MacRoam

-----------------------------------------------------------------------------
(* The calls of other tasks: what each function sends, when it empties      *)
(* mgmt_wait_queue, and what it waits for.                                  *)

Do(what, m) == [do |-> what, msg |-> m, alloc |-> FALSE]
\* Memory was allocated since the step before.
AfterAlloc(step) == [step EXCEPT !.alloc = TRUE]
SendOrFail(m) == Do("send", m)
SendAnyway(m) == Do("try", m)
Switch(mode) == Msg("SWITCH_MODE_CMD", mode)
Flush == Do("flush", Msg("none", "zero"))
Block == Do("block", Msg("none", "zero"))
WaitFor(evt) == Do("wait", Msg(evt, "zero"))
IfBlocked(c, step) == IF c.blocked THEN <<step>> ELSE <<>>

\* wifi_management_connect and, but for what follows a timeout,
\* wifi_management_connect_with_bssid.
ConnectScript(c) ==
    <<SendOrFail(Switch("STA")), AfterAlloc(Flush), SendOrFail(ConnectMsg(c.blocked))>>
    \o IfBlocked(c, WaitFor("CONN_DONE"))

DisconnectScript ==
    <<Flush, SendOrFail(Msg("DISCONNECT_CMD", "zero")), WaitFor("DISCONN_DONE")>>

ScanScript(c) ==
    <<AfterAlloc(SendOrFail(Msg("SCAN_CMD", "zero"))), Flush, Block>>
    \o IfBlocked(c, WaitFor("SCAN_DONE"))

\* It begins with wifi_management_ap_stop, whose result it ignores.
ApStartScript ==
    <<SendAnyway(Switch("STA")), SendOrFail(Switch("AP")), AfterAlloc(Flush),
      SendOrFail(Msg("START_AP_CMD", "zero")), WaitFor("AP_START_DONE")>>

\* Alone among the calls that wait, this one and scan empty the queue after
\* they have sent their command.
MonitorStartScript ==
    <<SendOrFail(Switch("MONITOR")), AfterAlloc(SendOrFail(Msg("MONITOR_START_CMD", "zero"))),
      Flush, WaitFor("MONITOR_START_DONE")>>

Script(c) ==
    CASE c.op \in Connects -> ConnectScript(c)
      [] c.op = "disconnect" -> DisconnectScript
      [] c.op = "scan" -> ScanScript(c)
      [] c.op = "ap_start" -> ApStartScript
      [] c.op = "monitor_start" -> MonitorStartScript
      [] c.op = "monitor_restart" -> <<SendOrFail(Switch("STA"))>> \o MonitorStartScript
      [] c.op = "sta_start" -> <<SendOrFail(Switch("STA"))>>

NoCall == [op |-> "none", blocked |-> FALSE, k |-> 0]
InCall(t) == task[t].op # "none"
Step(t) == Script(task[t])[task[t].k]

\* One more step done; after the last one the call returns.
Advance(t) ==
    LET c == task[t]
    IN  task' = [task EXCEPT ![t] = IF c.k = Len(Script(c)) THEN NoCall
                                                           ELSE [c EXCEPT !.k = @ + 1]]
Return(t) == task' = [task EXCEPT ![t] = NoCall]

\* A call begins.  disconnect does nothing outside station mode, and
\* monitor_start leaves monitor mode first.
Begins(r) ==
    [r EXCEPT !.op = IF @ = "monitor_start" /\ sm.type = "MONITOR"
                     THEN "monitor_restart" ELSE @]

Call(t, r) ==
    /\ ~InCall(t)
    /\ Outside
    /\ r.op = "disconnect" => sm.type = "STA"
    /\ task' = [task EXCEPT ![t] = [Begins(r) EXCEPT !.k = 1]]
    /\ UNCHANGED <<sm, mac>>

At(t, what) == InCall(t) /\ Step(t).do \in what

CallSend(t) ==
    /\ At(t, {"send", "try"})
    /\ \/ /\ Len(sm.queue) < QSize
          /\ sm' = [sm EXCEPT !.queue = Append(@, Step(t).msg)]
          /\ Advance(t)
       \/ /\ Len(sm.queue) = QSize
          /\ IF Step(t).do = "send" THEN Return(t) ELSE Advance(t)
          /\ UNCHANGED sm
    /\ UNCHANGED <<mac, outside>>

CallNoMemory(t) ==
    /\ InCall(t)
    /\ Step(t).alloc
    /\ Return(t)
    /\ UNCHANGED <<sm, mac, outside>>

\* mgmt_wait_queue_flush
CallFlush(t) ==
    /\ At(t, {"flush"})
    /\ sm' = [sm EXCEPT !.waitq = <<>>]
    /\ Advance(t)
    /\ UNCHANGED <<mac, outside>>

CallBlock(t) ==
    /\ At(t, {"block"})
    /\ sm' = [sm EXCEPT !.scanBlocked = task[t].blocked]
    /\ Advance(t)
    /\ UNCHANGED <<mac, outside>>

\* mgmt_wait_queue_fetch: an event that is not the awaited one is dropped,
\* whoever it was for.
CallFetch(t) ==
    /\ At(t, {"wait"})
    /\ sm.waitq # <<>>
    /\ sm' = [sm EXCEPT !.waitq = Tail(@)]
    /\ IF Head(sm.waitq).evt = Step(t).msg.ev
       THEN Return(t)
       ELSE UNCHANGED task
    /\ UNCHANGED <<mac, outside>>

\* A connect call that has waited in vain disconnects.
CallTimeout(t) ==
    /\ At(t, {"wait"})
    /\ sm.waitq = <<>>
    /\ IF task[t].op = "connect" /\ sm.type = "STA"
       THEN task' = [task EXCEPT ![t] = [NoCall EXCEPT !.op = "disconnect", !.k = 1]]
       ELSE Return(t)
    /\ UNCHANGED <<sm, mac, outside>>

CallStep(t) == CallSend(t) \/ CallNoMemory(t) \/ CallFlush(t) \/ CallBlock(t)
               \/ CallFetch(t) \/ CallTimeout(t)

-----------------------------------------------------------------------------
\* After WIFI_MGMT_EVENT_INIT, which enters IDLE, and with or without a network
\* to connect to automatically.
Init ==
    /\ \E auto \in BOOLEAN :
         sm = [type |-> "STA", st |-> "IDLE", retry |-> RetryLimit - 1,
                  delayed |-> FALSE, scanBlocked |-> FALSE, connBlocked |-> FALSE,
                  preroam |-> FALSE, pollScan |-> FALSE, polls |-> 0,
                  timers |-> {}, links |-> 0, lost |-> FALSE,
                  fall |-> FALSE, lacks |-> "nothing",
                  waitq |-> <<[evt |-> "DISCONN_DONE", reason |-> "zero", up |-> FALSE]>>,
                  queue |-> IF auto THEN <<Msg("AUTO_CONNECT_CMD", "zero")>> ELSE <<>>]
    /\ mac = [scan |-> FALSE, link |-> "none"]
    /\ task = [t \in Tasks |-> NoCall]
    /\ outside = 0

Next ==
    \/ Mgmt
    \/ Mac
    \/ \E t \in Tasks : CallStep(t) \/ \E r \in Requests : Call(t, r)

Spec == Init /\ [][Next]_vars

-----------------------------------------------------------------------------
(* Properties                                                               *)

Events == {"SCAN_CMD", "CONNECT_CMD", "AUTO_CONNECT_CMD", "DISCONNECT_CMD",
           "START_AP_CMD", "MONITOR_START_CMD", "SWITCH_MODE_CMD", "SCAN_DONE",
           "SCAN_FAIL", "CONNECT_FAIL", "ASSOC_SUCCESS", "DHCP_START",
           "DHCP_SUCCESS", "DHCP_FAIL", "CONNECT_SUCCESS", "DISCONNECT",
           "ROAMING_START"}
Args == {"zero", "fail", "lost", "other", "saquery", "blocked", "free"} \cup Modes
Answers == {"CONN_DONE", "DISCONN_DONE", "SCAN_DONE", "AP_START_DONE",
            "MONITOR_START_DONE"}

Messages == {m \in [ev : Events, arg : Args] :
                m.ev = "SWITCH_MODE_CMD" => m.arg \in Modes}
Machines ==
    [type : Modes, st : StaStates \cup {"INIT", "STARTED"}, retry : Int, delayed : BOOLEAN,
     scanBlocked : BOOLEAN, connBlocked : BOOLEAN, preroam : BOOLEAN, pollScan : BOOLEAN,
     polls : Int, timers : SUBSET {"dhcp", "retry"}, links : Nat,
     waitq : Seq([evt : Answers, reason : Args, up : BOOLEAN]),
     lost : BOOLEAN, fall : BOOLEAN, lacks : {"nothing", "scan", "timer"}, queue : Seq(Messages)]
MacStates == [scan : BOOLEAN,
              link : {"none", "joining", "joined", "failed", "open", "leaving"}]
Calls == [op : Ops \cup {"monitor_restart", "none"}, blocked : BOOLEAN, k : Nat]

\* The machine's data, the MAC and the calls have their types, neither queue holds
\* more than its size, and a task in a call is at a step of it.
TypeOK ==
    /\ sm \in Machines /\ Len(sm.queue) <= QSize /\ Len(sm.waitq) <= WaitSize
    /\ mac \in MacStates
    /\ task \in [Tasks -> Calls]
    /\ \A t \in Tasks : InCall(t) => task[t].k \in 1..Len(Script(task[t]))

\* mgmt_connect_retry decrements the unsigned retry_count without a test: the
\* retry timer is only ever pending while there is a retry left, through stale
\* events, link losses, roaming and mode switches, so the count never wraps.
RetryBacked == sm.retry >= 0 /\ ("retry" \in sm.timers => sm.retry > 0)

\* The polling timeouts die with the states that use them, whichever of the many
\* exits is taken: no link poll outside CONNECTED, and no DHCP poll outside DHCP
\* and CONNECTED.  A poll may outlive DHCP: nothing cancels it when DHCP_SUCCESS of
\* an earlier link ends the state, and CONNECTED ignores what it sends.
PollsEndWithState ==
    /\ "dhcp" \in sm.timers => sm.st \in {"DHCP", "CONNECTED"}
    /\ sm.links > 0 => sm.st = "CONNECTED"

\* A station that is idle, or an interface that has become an access point or a
\* monitor, has left nothing behind: no timer that would wake the station up, and
\* no link in the MAC that the host has not closed.
DownIsQuiet ==
    sm.st \notin Up => sm.timers = {} /\ sm.links = 0 /\ mac.link \in {"none", "leaving"}

Queued(evs) == \E i \in 1..Len(sm.queue) : sm.queue[i].ev \in evs

\* In each state of an attempt something is still to come that ends the state.
Driven ==
    /\ sm.st = "SCAN" => \/ mac.scan
                         \/ Queued({"SCAN_DONE", "SCAN_FAIL"})
                         \/ "retry" \in sm.timers
    /\ sm.st = "CONNECT" => \/ mac.link = "joining"
                            \/ Queued({"CONNECT_FAIL", "DISCONNECT", "ASSOC_SUCCESS"})
                            \/ "retry" \in sm.timers
    /\ sm.st = "HANDSHAKE" => \/ mac.link = "joined"
                              \/ Queued({"CONNECT_FAIL", "DISCONNECT", "DHCP_START"})
                              \/ "retry" \in sm.timers
    /\ sm.st = "DHCP" => "dhcp" \in sm.timers \/ Queued({"DHCP_SUCCESS", "DHCP_FAIL"})

\* An attempt never waits for something that will not come, whatever stale events
\* of an earlier attempt arrive in it, unless the event queue overflowed.  The two
\* exceptions are real.  The flag delayed_connect_retry outlives a retry that a
\* stale SCAN_DONE overtakes, and after the next loss of the link SCAN is entered
\* with neither a scan nor a timer.  And a retry or a DHCP poll that could not be
\* registered for lack of memory leaves SCAN or DHCP with nothing to end it.
StrandedOnlyDelayed ==
    \/ sm.lost
    \/ Driven
    \/ sm.st = "SCAN" /\ sm.lacks # "nothing"
    \/ sm.st = "DHCP" /\ sm.lacks = "timer"

\* The station believes it is connected only while the MAC has a link, or the
\* news that it is gone is in the queue or still to come: a DHCP result of an
\* attempt that has failed meanwhile never makes it CONNECTED for good.
ConnectedMeansLink ==
    sm.st = "CONNECTED" => \/ sm.lost
                           \/ mac.link \in {"open", "leaving"}
                           \/ Queued({"DISCONNECT"})

\* A station that is down goes up only because the message handled asks for it:
\* no leftover timer, scan result or link event of an attempt that was given up
\* or cancelled by a disconnect starts a connection.
OnlyCommandsConnect ==
    [][sm.st \notin Up /\ sm'.st \in Up
       => sm.queue # <<>> /\ msg.ev \in {"CONNECT_CMD", "AUTO_CONNECT_CMD"}]_vars

\* wifi_management_connect and wifi_management_connect_with_bssid: "0 on success
\* and != 0 if error occured."  The answer 0 that a blocked call takes from the
\* queue was posted by a station that had connected.
ConnectOkIsTrue ==
    [][\A t \in Tasks :
         At(t, {"wait"}) /\ task[t].op \in Connects /\ task'[t] = NoCall /\ sm.waitq # <<>>
         => Head(sm.waitq).reason # "zero" \/ Head(sm.waitq).up]_vars
=============================================================================
