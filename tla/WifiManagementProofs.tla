------------------------ MODULE WifiManagementProofs ------------------------
(***************************************************************************)
(* For every queue size, limit and set of tasks and calls: the types hold,  *)
(* the retry counter never wraps, the polling timeouts die with their       *)
(* states, a station that is down has left nothing behind and only a        *)
(* command takes it up, and one that is up has a link or will hear of its   *)
(* loss.                                                                     *)
(***************************************************************************)
EXTENDS WifiManagement, TLAPS

\* What the counter, the timers and the state say of each other.
Good(s) ==
    /\ s \in Machines
    /\ Len(s.queue) <= QSize /\ Len(s.waitq) <= WaitSize
    /\ s.st \in StaStates => s.type = "STA"
    /\ s.retry >= 0
    /\ "retry" \in s.timers => s.retry > 0
    /\ "dhcp" \in s.timers => s.st \in {"DHCP", "CONNECTED"}
    /\ s.links > 0 => s.st = "CONNECTED"
    /\ s.st \notin Up => s.timers = {}

\* The link is there, or its loss is in the queue after position i.
Told(q, i, link) ==
    \/ link \in {"open", "leaving"}
    \/ \E j \in (i + 1)..Len(q) : q[j].ev = "DISCONNECT"

\* No DHCP_START in the queue is about a link whose loss would go unnoticed.
QueueTold(q, link) ==
    \A i \in 1..Len(q) : q[i].ev = "DHCP_START" => Told(q, i, link)

\* The same of the state that DHCP_START leads to.
StateTold(s, link) == s.st \in {"DHCP", "CONNECTED"} => Told(s.queue, 0, link)

\* The invariant before the station enters a state, and in it.
Half(s, m) ==
    /\ Good(s)
    /\ m \in MacStates
    /\ s.st \notin Up => m.link \in {"none", "leaving"}
    /\ s.lost \/ QueueTold(s.queue, m.link)

Full(s, m) == Half(s, m) /\ (s.lost \/ StateTold(s, m.link))

CallsOK ==
    /\ task \in [Tasks -> Calls]
    /\ \A t \in Tasks : InCall(t) => task[t].k \in 1..Len(Script(task[t]))

WifiInv == Full(sm, mac) /\ CallsOK

\* The step from s to u leaves state, counter and timers alone, and the news of a
\* lost link in the queue.
Same(s, u) ==
    /\ u \in Machines
    /\ Len(u.queue) <= QSize /\ Len(u.waitq) <= WaitSize
    /\ u.st = s.st /\ u.retry = s.retry /\ u.timers = s.timers /\ u.links = s.links
    /\ u.type = s.type
    /\ \A link : /\ s.lost \/ QueueTold(s.queue, link) => u.lost \/ QueueTold(u.queue, link)
                 /\ s.lost \/ StateTold(s, link) => u.lost \/ StateTold(u, link)

-----------------------------------------------------------------------------
(* Queues                                                                   *)

\* A message at the end of the queue takes no news from those before it.
LEMMA AppendTold ==
  ASSUME NEW q \in Seq(Messages), NEW m \in Messages, NEW i \in Nat, NEW link,
         Told(q, i, link)
  PROVE  Told(Append(q, m), i, link)
BY DEF Told, Messages

LEMMA AppendQueueTold ==
  ASSUME NEW q \in Seq(Messages), NEW m \in Messages, NEW link,
         QueueTold(q, link),
         m.ev = "DHCP_START" => link \in {"open", "leaving"}
  PROVE  QueueTold(Append(q, m), link)
<1> SUFFICES ASSUME NEW i \in 1..Len(Append(q, m)), Append(q, m)[i].ev = "DHCP_START"
             PROVE  Told(Append(q, m), i, link)
  BY DEF QueueTold
<1>1. CASE i = Len(q) + 1
  BY <1>1 DEF Told
<1>2. CASE i \in 1..Len(q)
  BY <1>2, AppendTold DEF QueueTold
<1>. QED
  BY <1>1, <1>2

\* The message at the head of the queue carries news for none but the state.
LEMMA TailTold ==
  ASSUME NEW q \in Seq(Messages), q # <<>>, NEW i \in Nat, NEW link,
         Told(q, i, link), i > 0 \/ Head(q).ev # "DISCONNECT"
  PROVE  Told(Tail(q), IF i = 0 THEN 0 ELSE i - 1, link)
<1>1. CASE link \in {"open", "leaving"}
  BY <1>1 DEF Told
<1>2. CASE link \notin {"open", "leaving"}
  <2>1. PICK j \in (i + 1)..Len(q) : q[j].ev = "DISCONNECT"
    BY <1>2 DEF Told
  <2>2. j # 1 \/ i > 0
    BY <2>1
  <2>3. j - 1 \in 1..Len(Tail(q)) /\ Tail(q)[j - 1] = q[j]
    BY <2>2
  <2>. QED
    BY <2>1, <2>3 DEF Told
<1>. QED
  BY <1>1, <1>2

LEMMA TailQueueTold ==
  ASSUME NEW q \in Seq(Messages), q # <<>>, NEW link, QueueTold(q, link)
  PROVE  /\ QueueTold(Tail(q), link)
         /\ Head(q).ev = "DHCP_START" => Told(Tail(q), 0, link)
<1>1. ASSUME NEW i \in 1..Len(Tail(q)), Tail(q)[i].ev = "DHCP_START"
      PROVE  Told(Tail(q), i, link)
  <2>1. i + 1 \in 1..Len(q) /\ q[i + 1].ev = "DHCP_START"
    BY <1>1
  <2>2. Told(q, i + 1, link)
    BY <2>1 DEF QueueTold
  <2>. QED
    BY <2>2, TailTold
<1>2. Head(q).ev = "DHCP_START" => Told(Tail(q), 0, link)
  <2> HAVE Head(q).ev = "DHCP_START"
  <2>1. 1 \in 1..Len(q) /\ q[1].ev = "DHCP_START"
    OBVIOUS
  <2>2. Told(q, 1, link)
    BY <2>1 DEF QueueTold
  <2>. QED
    BY <2>2, TailTold
<1>. QED
  BY <1>1, <1>2 DEF QueueTold

-----------------------------------------------------------------------------
(* Helpers of the state machine                                             *)

LEMMA SameTrans ==
  ASSUME NEW s, NEW u, NEW v, Same(s, u), Same(u, v)
  PROVE  Same(s, v)
BY DEF Same

LEMMA SameFull ==
  ASSUME NEW s, NEW u, NEW m, Same(s, u)
  PROVE  /\ Good(s) => Good(u)
         /\ Half(s, m) => Half(u, m)
         /\ Full(s, m) => Full(u, m)
<1>1. Good(s) => Good(u)
  BY DEF Good, Same
<1>2. Half(s, m) => Half(u, m)
  BY <1>1 DEF Half, Same
<1>. QED
  BY <1>1, <1>2 DEF Full, Same

\* A flag of the machine's data is no part of the invariant.
LEMMA FlagSame ==
  ASSUME NEW s, Good(s), NEW b \in BOOLEAN
  PROVE  /\ Same(s, s)
         /\ Same(s, [s EXCEPT !.connBlocked = b])
         /\ Same(s, [s EXCEPT !.scanBlocked = b])
         /\ Same(s, [s EXCEPT !.preroam = b])
         /\ Same(s, [s EXCEPT !.pollScan = b])
         /\ Same(s, [s EXCEPT !.delayed = b])
         /\ Same(s, [s EXCEPT !.fall = b])
<1> USE DEF Good, Same, Machines, QueueTold, StateTold, Told
<1>1. Same(s, s)
  OBVIOUS
<1>2. Same(s, [s EXCEPT !.connBlocked = b])
  OBVIOUS
<1>3. Same(s, [s EXCEPT !.scanBlocked = b])
  OBVIOUS
<1>4. Same(s, [s EXCEPT !.preroam = b])
  OBVIOUS
<1>5. Same(s, [s EXCEPT !.pollScan = b])
  OBVIOUS
<1>6. Same(s, [s EXCEPT !.delayed = b])
  OBVIOUS
<1>7. Same(s, [s EXCEPT !.fall = b])
  OBVIOUS
<1>. QED
  BY <1>1, <1>2, <1>3, <1>4, <1>5, <1>6, <1>7

LEMMA LacksSame ==
  ASSUME NEW s, Good(s), NEW l \in {"nothing", "scan", "timer"}
  PROVE  Same(s, [s EXCEPT !.lacks = l])
BY DEF Good, Same, Machines, QueueTold, StateTold, Told

\* Sending an event, also to a full queue.
LEMMA SendSame ==
  ASSUME NEW s, Good(s), NEW m \in Messages, m.ev # "DHCP_START"
  PROVE  Same(s, Send(s, m))
<1>1. CASE Len(s.queue) < QSize
  <2> DEFINE q == Append(s.queue, m)
             u == [s EXCEPT !.queue = q]
  <2>1. q \in Seq(Messages) /\ Len(q) <= QSize
    BY <1>1, SizeAssumption DEF Good, Machines
  <2>. HIDE DEF q
  <2>2. u \in Machines /\ u.queue = q
    BY <2>1 DEF Good, Machines
  <2>3. /\ u.st = s.st /\ u.retry = s.retry /\ u.timers = s.timers /\ u.links = s.links
        /\ u.type = s.type /\ u.waitq = s.waitq /\ u.lost = s.lost
    BY DEF Good, Machines
  <2>4. s.queue \in Seq(Messages)
    BY DEF Good, Machines
  <2>. HIDE DEF u
  <2>5. ASSUME NEW link
        PROVE  /\ QueueTold(s.queue, link) => QueueTold(u.queue, link)
               /\ StateTold(s, link) => StateTold(u, link)
    BY <2>2, <2>3, <2>4, AppendQueueTold, AppendTold DEF StateTold, q
  <2>6. Same(s, u)
    BY <2>1, <2>2, <2>3, <2>5 DEF Same, Good
  <2>. QED
    BY <1>1, <2>6 DEF Send, u, q
<1>2. CASE ~(Len(s.queue) < QSize)
  BY <1>2 DEF Send, Same, Good, Machines
<1>. QED
  BY <1>1, <1>2

\* Posting an answer, also to a full queue.
LEMMA PostSame ==
  ASSUME NEW s, Good(s), NEW evt \in Answers, NEW reason \in Args
  PROVE  Same(s, Post(s, evt, reason))
<1>1. CASE Len(s.waitq) < WaitSize
  <2> DEFINE a == [evt |-> evt, reason |-> reason, up |-> s.st = "CONNECTED"]
             w == Append(s.waitq, a)
             u == [s EXCEPT !.waitq = w]
  <2>1. a \in [evt : Answers, reason : Args, up : BOOLEAN]
    OBVIOUS
  <2>. HIDE DEF a
  <2>2. w \in Seq([evt : Answers, reason : Args, up : BOOLEAN]) /\ Len(w) <= WaitSize
    BY <1>1, <2>1, SizeAssumption DEF Good, Machines
  <2>. HIDE DEF w
  <2>3. u \in Machines /\ Len(u.waitq) <= WaitSize
    BY <2>2 DEF Good, Machines
  <2>4. /\ u.st = s.st /\ u.retry = s.retry /\ u.timers = s.timers /\ u.links = s.links
        /\ u.type = s.type /\ u.queue = s.queue /\ u.lost = s.lost
    BY DEF Good, Machines
  <2>. HIDE DEF u
  <2>5. Same(s, u)
    BY <2>3, <2>4 DEF Same, Good, StateTold
  <2>. QED
    BY <1>1, <2>5 DEF Post, u, w, a
<1>2. CASE ~(Len(s.waitq) < WaitSize)
  BY <1>2, FlagSame DEF Post
<1>. QED
  BY <1>1, <1>2

\* The answers to a blocked connect and a blocked scan.
LEMMA DoneSame ==
  ASSUME NEW s, Good(s), NEW reason \in Args
  PROVE  Same(s, PostConnDone(s, reason)) /\ Same(s, PostScanDone(s, reason))
<1> DEFINE c == [s EXCEPT !.connBlocked = FALSE]
           d == [s EXCEPT !.scanBlocked = FALSE]
<1>1. Same(s, c) /\ Same(s, d) /\ Same(s, s)
  BY FlagSame
<1>2. Good(c) /\ Good(d)
  BY <1>1, SameFull
<1>3. {"CONN_DONE", "SCAN_DONE"} \subseteq Answers
  BY DEF Answers
<1>. HIDE DEF c, d
<1>4. Same(c, Post(c, "CONN_DONE", reason)) /\ Same(d, Post(d, "SCAN_DONE", reason))
  BY <1>2, <1>3, PostSame
<1>5. Same(s, Post(c, "CONN_DONE", reason)) /\ Same(s, Post(d, "SCAN_DONE", reason))
  BY <1>1, <1>4, SameTrans
<1>. QED
  BY <1>1, <1>5 DEF PostConnDone, PostScanDone, c, d

\* The messages the machine sends itself.
LEMMA OwnMessages ==
  /\ RoamMsg \in Messages /\ RoamMsg.ev # "DHCP_START"
  /\ \A ev \in {"SCAN_FAIL", "CONNECT_FAIL", "CONNECT_SUCCESS", "DHCP_SUCCESS", "DHCP_FAIL"},
        arg \in {"zero", "fail"} :
       Msg(ev, arg) \in Messages /\ Msg(ev, arg).ev # "DHCP_START"
BY DEF RoamMsg, Msg, Messages, Events, Args

\* Going back to the network the station roamed from is a message to itself.
LEMMA RollbackSame ==
  ASSUME NEW s, Good(s)
  PROVE  Same(s, Rollback(s))
<1> DEFINE c == [s EXCEPT !.preroam = FALSE]
<1>1. Same(s, c) /\ Same(s, s)
  BY FlagSame
<1>2. Good(c)
  BY <1>1, SameFull
<1>. HIDE DEF c
<1>3. Same(s, Send(c, RoamMsg))
  BY <1>1, <1>2, SendSame, SameTrans, OwnMessages
<1>. QED
  BY <1>1, <1>3 DEF Rollback, c

-----------------------------------------------------------------------------
(* State entries                                                            *)

\* Nothing the host asks of the MAC makes a link vanish unheard.
LEMMA MacSteps ==
  ASSUME NEW s, NEW m, m \in MacStates
  PROVE  /\ Disconnected(m) \in MacStates
         /\ Disconnected(m).link \in {"none", "leaving"}
         /\ Half(s, m) => Half(s, Disconnected(m))
         /\ Full(s, m) => Full(s, Disconnected(m))
<1>1. /\ Disconnected(m) \in MacStates
      /\ Disconnected(m).link \in {"none", "leaving"}
      /\ m.link \in {"open", "leaving"} => Disconnected(m).link = "leaving"
  BY DEF Disconnected, MacStates
<1>2. \A q, i : Told(q, i, m.link) => Told(q, i, Disconnected(m).link)
  BY <1>1 DEF Told
<1>. QED
  BY <1>1, <1>2 DEF Half, Full, QueueTold, StateTold

LEMMA MacScanSame ==
  ASSUME NEW s, NEW ok \in BOOLEAN, mac \in MacStates
  PROVE  /\ MacScan(ok) \in MacStates
         /\ Half(s, mac) => Half(s, MacScan(ok))
         /\ Full(s, mac) => Full(s, MacScan(ok))
<1>1. MacScan(ok) \in MacStates /\ MacScan(ok).link = mac.link
  BY DEF MacScan, MacStates
<1>. QED
  BY <1>1 DEF Half, Full

\* Entering IDLE, from any state.
LEMMA EnterIdleFull ==
  ASSUME NEW s, NEW m, Half(s, m), s.type = "STA", m.link \in {"none", "leaving"}
  PROVE  Full(EnterIdle(s), m) /\ EnterIdle(s).st = "IDLE"
<1> DEFINE e == [s EXCEPT !.st = "IDLE", !.delayed = FALSE, !.timers = {}, !.links = 0,
                          !.lacks = "nothing"]
<1>1. /\ e \in Machines /\ e.st = "IDLE" /\ e.retry = s.retry /\ e.timers = {}
      /\ e.links = 0 /\ e.queue = s.queue /\ e.waitq = s.waitq /\ e.lost = s.lost
      /\ e.type = s.type
  BY DEF Half, Good, Machines, StaStates
<1>. HIDE DEF e
<1>2. Good(e)
  BY <1>1 DEF Half, Good
<1>3. Full(e, m)
  BY <1>1, <1>2 DEF Half, Full, StateTold
<1>4. Same(e, Post(e, "DISCONN_DONE", "zero"))
  BY <1>2, PostSame DEF Answers, Args
<1>5. Full(Post(e, "DISCONN_DONE", "zero"), m) /\ Post(e, "DISCONN_DONE", "zero").st = "IDLE"
  BY <1>1, <1>3, <1>4, SameFull DEF Same
<1>. QED
  BY <1>5 DEF EnterIdle, e

\* Entering SCAN, with a scan, a delay, or the event SCAN_FAIL.
LEMMA EnterScanFull ==
  ASSUME NEW s, NEW m, NEW ok, Half(s, m), s.type = "STA"
  PROVE  /\ Full(EnterScan(s, ok), m)
         /\ EnterScan(s, ok).st = "SCAN"
         /\ EnterScan(s, ok).retry = s.retry
<1> DEFINE e == [s EXCEPT !.st = "SCAN", !.timers = @ \ {"dhcp"}, !.links = 0,
                          !.lacks = IF s.delayed THEN "scan" ELSE "nothing"]
           f == Send(e, Msg("SCAN_FAIL", "zero"))
<1>1. /\ e \in Machines /\ e.st = "SCAN" /\ e.retry = s.retry /\ e.links = 0
      /\ e.timers = s.timers \ {"dhcp"} /\ e.queue = s.queue /\ e.waitq = s.waitq
      /\ e.lost = s.lost /\ e.type = s.type
  BY DEF Half, Good, Machines, StaStates
<1>. HIDE DEF e
<1>2. Good(e)
  BY <1>1 DEF Half, Good, Up, Attempt
<1>3. Full(e, m)
  BY <1>1, <1>2 DEF Half, Full, StateTold, Up, Attempt
<1>4. Same(e, f)
  BY <1>2, SendSame, OwnMessages
<1>. HIDE DEF f
<1>5. Full(f, m) /\ f.st = "SCAN" /\ f.retry = s.retry
  BY <1>1, <1>3, <1>4, SameFull DEF Same
<1>6. EnterScan(s, ok) \in {e, f}
  BY DEF EnterScan, e, f
<1>. QED
  BY <1>1, <1>3, <1>5, <1>6

\* Entering CONNECT or HANDSHAKE from a state of the attempt before it.
LEMMA EnterAttemptFull ==
  ASSUME NEW s, NEW m, NEW st, Half(s, m), s.type = "STA",
         s.st \in {"SCAN", "CONNECT"}, st \in {"CONNECT", "HANDSHAKE"}
  PROVE  Full([s EXCEPT !.st = st], m)
<1> DEFINE e == [s EXCEPT !.st = st]
<1>1. /\ e \in Machines /\ e.st = st /\ e.retry = s.retry /\ e.timers = s.timers
      /\ e.links = s.links /\ e.queue = s.queue /\ e.waitq = s.waitq /\ e.lost = s.lost
      /\ e.type = s.type
  BY DEF Half, Good, Machines, StaStates
<1>. HIDE DEF e
<1>2. Good(e)
  BY <1>1 DEF Half, Good, Up, Attempt
<1>3. Full(e, m)
  BY <1>1, <1>2 DEF Half, Full, StateTold, Up, Attempt
<1>. QED
  BY <1>3 DEF e

LEMMA EnterConnectFull ==
  ASSUME NEW s, NEW m, NEW ok, Half(s, m), s.type = "STA", s.st = "SCAN"
  PROVE  Full(EnterConnect(s, ok), m)
<1> DEFINE c == [s EXCEPT !.lacks = "nothing"]
           e == [s EXCEPT !.st = "CONNECT", !.lacks = "nothing"]
<1>1. Full(e, m)
  <2>1. Same(s, c)
    BY LacksSame DEF Half
  <2>2. Half(c, m) /\ c.type = "STA" /\ c.st = "SCAN"
    BY <2>1, SameFull DEF Same
  <2>3. e = [c EXCEPT !.st = "CONNECT"]
    BY DEF Half, Good, Machines
  <2>. HIDE DEF c, e
  <2>. QED
    BY <2>2, <2>3, EnterAttemptFull
<1>. HIDE DEF e
<1>2. Full(Send(e, Msg("CONNECT_FAIL", "fail")), m)
  BY <1>1, SendSame, SameFull, OwnMessages DEF Full, Half
<1>. QED
  BY <1>1, <1>2 DEF EnterConnect, e

\* A registration that succeeds adds a timer, one that fails only leaves its mark.
LEMMA RegisterKeeps ==
  ASSUME NEW s \in Machines, NEW timer \in {"dhcp", "retry"}, NEW ok \in BOOLEAN
  PROVE  /\ Register(s, timer, ok) \in Machines
         /\ Register(s, timer, ok).st = s.st
         /\ Register(s, timer, ok).retry = s.retry
         /\ Register(s, timer, ok).type = s.type
         /\ Register(s, timer, ok).links = s.links
         /\ Register(s, timer, ok).queue = s.queue
         /\ Register(s, timer, ok).waitq = s.waitq
         /\ Register(s, timer, ok).lost = s.lost
         /\ Register(s, timer, ok).delayed = s.delayed
         /\ Register(s, timer, ok).timers \subseteq s.timers \cup {timer}
         /\ \/ timer \in Register(s, timer, ok).timers
            \/ Register(s, timer, ok).lacks = "timer"
<1> DEFINE a == [s EXCEPT !.timers = @ \cup {timer}, !.lacks = "nothing"]
           b == [s EXCEPT !.lacks = "timer"]
<1>1. /\ a \in Machines /\ a.st = s.st /\ a.retry = s.retry /\ a.type = s.type
      /\ a.links = s.links /\ a.queue = s.queue /\ a.waitq = s.waitq /\ a.lost = s.lost
      /\ a.delayed = s.delayed /\ a.timers = s.timers \cup {timer}
  BY DEF Machines
<1>2. /\ b \in Machines /\ b.st = s.st /\ b.retry = s.retry /\ b.type = s.type
      /\ b.links = s.links /\ b.queue = s.queue /\ b.waitq = s.waitq /\ b.lost = s.lost
      /\ b.delayed = s.delayed /\ b.timers = s.timers /\ b.lacks = "timer"
  BY DEF Machines
<1>3. Register(s, timer, ok) = IF ok THEN a ELSE b
  BY DEF Register
<1>. HIDE DEF a, b
<1>. QED
  BY <1>1, <1>2, <1>3

\* Entering DHCP: DHCP_START has left the queue, with the news behind it.
LEMMA EnterDhcpFull ==
  ASSUME NEW s, NEW m, Half(s, m), s.type = "STA", s.st = "HANDSHAKE",
         s.lost \/ Told(s.queue, 0, m.link)
  PROVE  \A ok \in BOOLEAN : Full(EnterDhcp(s, ok), m)
<1> SUFFICES ASSUME NEW ok \in BOOLEAN PROVE Full(EnterDhcp(s, ok), m)
  OBVIOUS
<1> DEFINE d == [s EXCEPT !.st = "DHCP", !.polls = PollLimit]
           e == EnterDhcp(s, ok)
<1>1. /\ e \in Machines /\ e.st = "DHCP" /\ e.retry = s.retry
      /\ e.timers \subseteq s.timers \cup {"dhcp"}
      /\ e.links = s.links /\ e.queue = s.queue /\ e.waitq = s.waitq /\ e.lost = s.lost
      /\ e.type = s.type
  <2>1. PollLimit \in Int
    BY LimitAssumption
  <2>2. /\ d \in Machines /\ d.st = "DHCP" /\ d.retry = s.retry /\ d.timers = s.timers
        /\ d.links = s.links /\ d.queue = s.queue /\ d.waitq = s.waitq /\ d.lost = s.lost
        /\ d.type = s.type
    BY <2>1 DEF Half, Good, Machines, StaStates
  <2>3. e = Register(d, "dhcp", ok)
    BY DEF EnterDhcp
  <2>. HIDE DEF d, e
  <2>. QED
    BY <2>2, <2>3, RegisterKeeps
<1>. HIDE DEF e
<1>2. Good(e)
  BY <1>1 DEF Half, Good, Up, Attempt
<1>3. Full(e, m)
  BY <1>1, <1>2 DEF Half, Full, StateTold, Up, Attempt
<1>. QED
  BY <1>3 DEF e

\* Entering CONNECTED from DHCP.
LEMMA EnterConnectedFull ==
  ASSUME NEW s, NEW m, Full(s, m), s.type = "STA", s.st = "DHCP"
  PROVE  Full(EnterConnected(s), m) /\ EnterConnected(s).st = "CONNECTED"
<1> DEFINE e == [s EXCEPT !.st = "CONNECTED"]
           d == IF e.connBlocked THEN PostConnDone(e, "zero")
                                 ELSE Send(e, Msg("CONNECT_SUCCESS", "zero"))
<1>1. /\ e \in Machines /\ e.st = "CONNECTED" /\ e.retry = s.retry
      /\ e.timers = s.timers /\ e.links = s.links /\ e.queue = s.queue
      /\ e.waitq = s.waitq /\ e.lost = s.lost /\ e.type = s.type
  BY DEF Full, Half, Good, Machines, StaStates
<1>. HIDE DEF e
<1>2. Good(e)
  BY <1>1 DEF Full, Half, Good, Up, Attempt
<1>3. Full(e, m)
  BY <1>1, <1>2 DEF Half, Full, StateTold, Up, Attempt
<1>4. Same(e, PostConnDone(e, "zero"))
  BY <1>2, DoneSame DEF Args
<1>5. Same(e, Send(e, Msg("CONNECT_SUCCESS", "zero")))
  BY <1>2, SendSame, OwnMessages
<1>6. Same(e, d)
  BY <1>4, <1>5
<1>. HIDE DEF d
<1>7. Full(d, m) /\ d.st = "CONNECTED"
  BY <1>1, <1>3, <1>6, SameFull DEF Same
<1>8. Same(d, [d EXCEPT !.preroam = FALSE])
  BY <1>7, FlagSame DEF Full, Half
<1>9. Full([d EXCEPT !.preroam = FALSE], m) /\ [d EXCEPT !.preroam = FALSE].st = "CONNECTED"
  BY <1>7, <1>8, SameFull DEF Same
<1>. QED
  BY <1>9 DEF EnterConnected, d, e

\* Giving an attempt up.
LEMMA GiveUpFull ==
  ASSUME NEW s, NEW m, Half(s, m), s.type = "STA", m.link \in {"none", "leaving"},
         msg.arg \in Args
  PROVE  Full(GiveUp(s), m) /\ GiveUp(s).st = "IDLE"
<1> DEFINE r == Rollback(s)
           p == PostConnDone(r, msg.arg)
<1>1. Half(r, m) /\ r.type = "STA"
  BY RollbackSame, SameFull DEF Same, Half
<1>. HIDE DEF r
<1>2. Half(p, m) /\ p.type = "STA"
  BY <1>1, DoneSame, SameFull DEF Same, Half
<1>. HIDE DEF p
<1>3. Full(EnterIdle(p), m) /\ EnterIdle(p).st = "IDLE"
  BY <1>2, EnterIdleFull
<1>. QED
  BY <1>3 DEF GiveUp, p, r

\* A new attempt starts with all its retries.
LEMMA RetryParamHalf ==
  ASSUME NEW s, NEW m, Half(s, m)
  PROVE  Half(RetryParamSet(s), m) /\ RetryParamSet(s).type = s.type
         /\ RetryParamSet(s).st = s.st
<1> DEFINE e == RetryParamSet(s)
<1>1. RetryLimit - 1 \in Int /\ RetryLimit - 1 > 0
  BY LimitAssumption
<1>2. /\ e \in Machines /\ e.st = s.st /\ e.retry = RetryLimit - 1 /\ e.timers = s.timers
      /\ e.links = s.links /\ e.queue = s.queue /\ e.waitq = s.waitq /\ e.lost = s.lost
      /\ e.type = s.type
  BY <1>1 DEF RetryParamSet, Half, Good, Machines
<1>. HIDE DEF e
<1>3. Half(e, m)
  BY <1>1, <1>2 DEF Half, Good
<1>. QED
  BY <1>2, <1>3 DEF e

\* A retry timer may be set while a retry is left and the station is up.
LEMMA RegisterRetryFull ==
  ASSUME NEW s, NEW m, Full(s, m), s.retry > 0, s.st \in Up
  PROVE  \A ok \in BOOLEAN : Full(RegisterRetry(s, ok), m)
<1> SUFFICES ASSUME NEW ok \in BOOLEAN PROVE Full(RegisterRetry(s, ok), m)
  OBVIOUS
<1> DEFINE e == RegisterRetry(s, ok)
<1>1. /\ e \in Machines /\ e.st = s.st /\ e.retry = s.retry
      /\ e.timers \subseteq s.timers \cup {"retry"}
      /\ e.links = s.links /\ e.queue = s.queue /\ e.waitq = s.waitq /\ e.lost = s.lost
      /\ e.type = s.type
  <2>1. s \in Machines
    BY DEF Full, Half, Good
  <2>2. CASE "retry" \in s.timers
    BY <2>1, <2>2 DEF RegisterRetry, Machines
  <2>3. CASE "retry" \notin s.timers
    BY <2>1, <2>3, RegisterKeeps DEF RegisterRetry
  <2>. QED
    BY <2>2, <2>3
<1>. HIDE DEF e
<1>2. Good(e)
  BY <1>1 DEF Full, Half, Good
<1>. QED
  BY <1>1, <1>2 DEF Full, Half, StateTold, e

-----------------------------------------------------------------------------
(* The actions                                                              *)

\* A step down to up is the work of a command.
Commanded ==
    sm.st \notin Up /\ sm'.st \in Up
    => sm.queue # <<>> /\ msg.ev \in {"CONNECT_CMD", "AUTO_CONNECT_CMD"}

StepOK == Full(sm', mac') /\ Commanded

\* The message taken from the queue.
LEMMA RestHalf ==
  ASSUME Full(sm, mac), sm.queue # <<>>
  PROVE  /\ msg \in Messages
         /\ Half(Rest, mac)
         /\ Rest.st = sm.st /\ Rest.retry = sm.retry /\ Rest.timers = sm.timers
         /\ Rest.type = sm.type /\ Rest.links = sm.links /\ Rest.lost = sm.lost
         /\ msg.ev # "DISCONNECT" => Full(Rest, mac)
         /\ msg.ev = "DHCP_START" => Rest.lost \/ Told(Rest.queue, 0, mac.link)
<1> DEFINE q == sm.queue
<1>1. q \in Seq(Messages) /\ Len(q) <= QSize
  BY DEF Full, Half, Good, Machines
<1>2. msg \in Messages /\ Tail(q) \in Seq(Messages) /\ Len(Tail(q)) <= QSize
  BY <1>1, SizeAssumption DEF msg
<1>3. /\ Rest \in Machines /\ Rest.queue = Tail(q) /\ Rest.waitq = sm.waitq
      /\ Rest.st = sm.st /\ Rest.retry = sm.retry /\ Rest.timers = sm.timers
      /\ Rest.type = sm.type /\ Rest.links = sm.links /\ Rest.lost = sm.lost
  BY <1>2 DEF Rest, Full, Half, Good, Machines
<1>4. Good(Rest)
  BY <1>2, <1>3 DEF Full, Half, Good
<1>5. /\ QueueTold(q, mac.link) => QueueTold(Tail(q), mac.link)
      /\ msg.ev = "DHCP_START" /\ QueueTold(q, mac.link) => Told(Tail(q), 0, mac.link)
  BY <1>1, TailQueueTold DEF msg
<1>6. msg.ev # "DISCONNECT" /\ Told(q, 0, mac.link) => Told(Tail(q), 0, mac.link)
  BY <1>1, TailTold DEF msg
<1>7. Half(Rest, mac)
  BY <1>3, <1>4, <1>5 DEF Full, Half
<1>8. msg.ev # "DISCONNECT" => Full(Rest, mac)
  BY <1>3, <1>6, <1>7 DEF Full, StateTold
<1>. QED
  BY <1>2, <1>3, <1>5, <1>7, <1>8 DEF Full, Half

\* The configuration that comes with a connect command.
LEMMA SetCfgHalf ==
  ASSUME Full(sm, mac), sm.queue # <<>>
  PROVE  Half(SetCfg(Rest), mac) /\ SetCfg(Rest).type = sm.type
<1>1. Half(Rest, mac) /\ Rest.type = sm.type
  BY RestHalf
<1>2. Same(Rest, SetCfg(Rest))
  BY <1>1, FlagSame DEF SetCfg, Half
<1>. QED
  BY <1>1, <1>2, SameFull DEF Same

\* Commands to the station.
LEMMA CommandStep ==
  ASSUME Full(sm, mac),
         ScanCmd \/ ConnectCmdIdle \/ ConnectCmdConnected \/ AutoConnectCmd
         \/ LinkIsOngoing \/ DisconnectCmd
  PROVE  StepOK
<1>1. sm.queue # <<>> /\ mac \in MacStates /\ Good(sm)
  BY DEF ScanCmd, ConnectCmdIdle, ConnectCmdConnected, AutoConnectCmd, LinkIsOngoing,
         DisconnectCmd, Event, Full, Half
<1>2. Half(Rest, mac) /\ Rest.type = sm.type /\ Rest.st = sm.st
  BY <1>1, RestHalf
<1>3. msg.ev # "DISCONNECT" => Full(Rest, mac)
  BY <1>1, RestHalf
<1>4. sm.st \in StaStates => sm.type = "STA"
  BY <1>1 DEF Good
<1>. {"zero", "fail"} \subseteq Args /\ "DISCONN_DONE" \in Answers
  BY DEF Args, Answers
<1>5. CASE ScanCmd
  <2>1. PICK ok \in BOOLEAN : mac' = MacScan(ok)
                              /\ sm' = IF ok THEN Rest ELSE PostScanDone(Rest, "fail")
    BY <1>5 DEF ScanCmd
  <2>2. Full(Rest, MacScan(ok))
    BY <1>1, <1>3, <1>5, MacScanSame DEF ScanCmd, Event
  <2>3. Same(Rest, PostScanDone(Rest, "fail"))
    BY <1>2, DoneSame DEF Half
  <2>. QED
    BY <1>2, <2>1, <2>2, <2>3, SameFull DEF StepOK, Commanded, Same
<1>6. CASE ConnectCmdIdle
  <2> DEFINE s == RetryParamSet(SetCfg(Rest))
  <2>1. PICK ok \in BOOLEAN : mac' = MacScan(ok) /\ sm' = EnterScan(s, ok)
    BY <1>6 DEF ConnectCmdIdle
  <2>2. Half(SetCfg(Rest), mac) /\ SetCfg(Rest).type = "STA"
    BY <1>1, <1>4, <1>6, SetCfgHalf DEF ConnectCmdIdle, Event, StaStates
  <2>3. Half(s, mac) /\ s.type = "STA"
    BY <2>2, RetryParamHalf
  <2>. HIDE DEF s
  <2>4. Full(EnterScan(s, ok), MacScan(ok))
    BY <1>1, <2>3, MacScanSame, EnterScanFull
  <2>. QED
    BY <1>1, <1>6, <2>1, <2>4 DEF StepOK, Commanded, ConnectCmdIdle, Event
<1>7. CASE ConnectCmdConnected
  <2> DEFINE i == EnterIdle(SetCfg(Rest))
             s == RetryParamSet(i)
  <2>1. PICK ok \in BOOLEAN : mac' = Disconnected(MacScan(ok)) /\ sm' = EnterScan(s, ok)
    BY <1>7 DEF ConnectCmdConnected
  <2>2. Half(SetCfg(Rest), mac) /\ SetCfg(Rest).type = "STA"
    BY <1>1, <1>4, <1>7, SetCfgHalf DEF ConnectCmdConnected, Event, StaStates
  <2> DEFINE m == Disconnected(MacScan(ok))
  <2>3. MacScan(ok) \in MacStates /\ Half(SetCfg(Rest), MacScan(ok))
    BY <1>1, <2>2, MacScanSame
  <2>4. Half(SetCfg(Rest), m) /\ m.link \in {"none", "leaving"}
    BY <2>3, MacSteps
  <2>. HIDE DEF m
  <2>5. Full(i, m) /\ i.st = "IDLE"
    BY <2>2, <2>4, EnterIdleFull
  <2>. HIDE DEF i
  <2>6. i.type = "STA" /\ Half(i, m)
    BY <2>5 DEF Full, Half, Good, StaStates
  <2>7. Half(s, m) /\ s.type = "STA"
    BY <2>6, RetryParamHalf
  <2>. HIDE DEF s
  <2>8. Full(EnterScan(s, ok), m)
    BY <2>7, EnterScanFull
  <2>. QED
    BY <1>1, <1>7, <2>1, <2>8 DEF StepOK, Commanded, ConnectCmdConnected, Event, m
<1>8. CASE AutoConnectCmd
  <2>1. Rest.type = "STA"
    BY <1>2, <1>4, <1>8 DEF AutoConnectCmd, Event, StaStates
  <2>2. Half(Rest, Disconnected(mac)) /\ Disconnected(mac).link \in {"none", "leaving"}
    BY <1>1, <1>2, MacSteps
  <2>3. Full(EnterIdle(Rest), Disconnected(mac))
    BY <2>1, <2>2, EnterIdleFull
  <2>4. ASSUME NEW ok \in BOOLEAN
        PROVE  Full(EnterScan(RetryParamSet(Rest), ok), MacScan(ok))
    <3>1. Half(RetryParamSet(Rest), mac) /\ RetryParamSet(Rest).type = "STA"
      BY <1>2, <2>1, RetryParamHalf
    <3>. QED
      BY <1>1, <3>1, MacScanSame, EnterScanFull
  <2>. QED
    BY <1>1, <1>8, <2>3, <2>4 DEF StepOK, Commanded, AutoConnectCmd, Event
<1>9. CASE LinkIsOngoing
  <2> DEFINE s == [Rest EXCEPT !.connBlocked = TRUE]
  <2>1. Full(s, mac) /\ s.st = sm.st
    <3>1. Full(Rest, mac)
      BY <1>3, <1>9 DEF LinkIsOngoing, Event
    <3>2. Same(Rest, s)
      BY <1>2, FlagSame DEF Half
    <3>. QED
      BY <1>2, <3>1, <3>2, SameFull DEF Same
  <2>2. sm' = PostConnDone(s, "fail") /\ mac' = mac
    BY <1>9 DEF LinkIsOngoing
  <2>. HIDE DEF s
  <2>3. Same(s, sm')
    BY <2>1, <2>2, DoneSame DEF Full, Half
  <2>. QED
    BY <2>1, <2>2, <2>3, SameFull DEF StepOK, Commanded, Same
<1>10. CASE DisconnectCmd
  <2>1. CASE /\ Event({"DISCONNECT_CMD"}, {"IDLE"})
             /\ sm' = Post(Rest, "DISCONN_DONE", "zero")
             /\ UNCHANGED mac
    <3>1. Full(Rest, mac)
      BY <1>3, <2>1 DEF Event
    <3>2. Same(Rest, sm')
      BY <1>2, <2>1, PostSame DEF Half
    <3>. QED
      BY <1>2, <2>1, <3>1, <3>2, SameFull DEF StepOK, Commanded, Same
  <2>2. CASE /\ Event({"DISCONNECT_CMD"}, Attempt \cup {"CONNECTED"})
             /\ sm' = EnterIdle(Rest)
             /\ mac' = Disconnected(mac)
    <3>1. Rest.type = "STA"
      BY <1>2, <1>4, <2>2 DEF Event, Attempt, StaStates
    <3>2. Half(Rest, Disconnected(mac)) /\ Disconnected(mac).link \in {"none", "leaving"}
      BY <1>1, <1>2, MacSteps
    <3>3. Full(EnterIdle(Rest), Disconnected(mac))
      BY <3>1, <3>2, EnterIdleFull
    <3>. QED
      BY <2>2, <3>3 DEF StepOK, Commanded, Event, Up, Attempt
  <2>. QED
    BY <1>10, <2>1, <2>2 DEF DisconnectCmd
<1>. QED
  BY <1>5, <1>6, <1>7, <1>8, <1>9, <1>10

\* The events of an attempt.
LEMMA AttemptStep ==
  ASSUME Full(sm, mac),
         ConnectFailScan \/ ScanDoneScan \/ ScanFailScan \/ AttemptFails
         \/ AssocSuccess \/ DhcpStart \/ DhcpSuccess
  PROVE  StepOK
<1>1. /\ sm.queue # <<>> /\ mac \in MacStates /\ Good(sm)
      /\ sm.st \in Attempt
  BY DEF ConnectFailScan, ScanDoneScan, ScanFailScan, AttemptFails, AssocSuccess, DhcpStart,
         DhcpSuccess, Event, Full, Half, Attempt
<1>2. /\ Half(Rest, mac) /\ Rest.type = sm.type /\ Rest.st = sm.st /\ Rest.retry = sm.retry
      /\ msg \in Messages
  BY <1>1, RestHalf
<1>3. msg.ev # "DISCONNECT" => Full(Rest, mac)
  BY <1>1, RestHalf
<1>4. Rest.type = "STA" /\ Commanded
  BY <1>1, <1>2 DEF Good, StaStates, Attempt, Commanded, Up
<1>5. Half(Rest, Disconnected(mac)) /\ Disconnected(mac).link \in {"none", "leaving"}
  BY <1>1, <1>2, MacSteps
<1>6. msg.arg \in Args
  BY <1>2 DEF Messages
<1>7. Full(GiveUp(Rest), Disconnected(mac))
  BY <1>4, <1>5, <1>6, GiveUpFull
<1>8. CASE ConnectFailScan
  BY <1>4, <1>5, <1>8, EnterIdleFull DEF ConnectFailScan, StepOK
<1>9. CASE ScanDoneScan
  <2>1. PICK ok \in BOOLEAN : ConnectStarts(ok) /\ mac' = MacConnect(ok)
                              /\ sm' = EnterConnect(Rest, ok)
    BY <1>9 DEF ScanDoneScan
  <2>2. Rest.st = "SCAN"
    BY <1>2, <1>9 DEF ScanDoneScan, Event
  <2>3. mac' \in MacStates /\ (mac'.link = mac.link \/ mac.link = "none")
    BY <1>1, <2>1 DEF MacConnect, ConnectStarts, MacStates
  <2>4. \A q, i : Told(q, i, mac.link) => Told(q, i, mac'.link)
    BY <2>3 DEF Told
  <2>5. Half(Rest, mac')
    BY <1>2, <2>2, <2>3, <2>4 DEF Half, QueueTold, Up, Attempt
  <2>. QED
    BY <1>4, <2>1, <2>2, <2>5, EnterConnectFull DEF StepOK
<1>10. CASE ScanFailScan
  <2>1. CASE sm.retry > 0
    <3>1. \A ok \in BOOLEAN : Full(RegisterRetry(Rest, ok), mac)
      BY <1>1, <1>2, <1>3, <1>10, <2>1, RegisterRetryFull DEF ScanFailScan, Event, Up
    <3>. QED
      BY <1>4, <1>10, <2>1, <3>1 DEF ScanFailScan, StepOK
  <2>2. CASE ~(sm.retry > 0)
    BY <1>4, <1>7, <1>10, <2>2 DEF ScanFailScan, StepOK
  <2>. QED
    BY <2>1, <2>2
<1>11. CASE AttemptFails
  <2>1. CASE sm.retry > 0
    <3> DEFINE d == [Rest EXCEPT !.delayed = TRUE]
               m == IF HostCloses THEN Disconnected(mac) ELSE mac
               e == EnterScan(d, FALSE)
    <3>1. PICK ok \in BOOLEAN : sm' = RegisterRetry(e, ok) /\ mac' = m
      BY <1>11, <2>1 DEF AttemptFails
    <3>2. Half(Rest, m)
      BY <1>2, <1>5
    <3>3. Same(Rest, d)
      BY <1>2, FlagSame DEF Half
    <3>. HIDE DEF d, m
    <3>4. Half(d, m) /\ d.type = "STA" /\ d.retry > 0
      BY <1>2, <1>4, <2>1, <3>2, <3>3, SameFull DEF Same
    <3>5. Full(e, m) /\ e.st = "SCAN" /\ e.retry > 0
      BY <3>4, EnterScanFull
    <3>. HIDE DEF e
    <3>6. Full(RegisterRetry(e, ok), m)
      BY <3>5, RegisterRetryFull DEF Up, Attempt
    <3>. QED
      BY <1>4, <3>1, <3>6 DEF StepOK
  <2>2. CASE ~(sm.retry > 0)
    BY <1>4, <1>7, <1>11, <2>2 DEF AttemptFails, StepOK
  <2>. QED
    BY <2>1, <2>2
<1>12. CASE AssocSuccess
  <2>1. Rest.st = "CONNECT"
    BY <1>2, <1>12 DEF AssocSuccess, Event
  <2>2. Full([Rest EXCEPT !.st = "HANDSHAKE"], mac)
    BY <1>2, <1>4, <2>1, EnterAttemptFull
  <2>. QED
    BY <1>4, <1>12, <2>2 DEF AssocSuccess, StepOK
<1>13. CASE DhcpStart
  <2>1. Rest.st = "HANDSHAKE" /\ msg.ev = "DHCP_START"
    BY <1>2, <1>13 DEF DhcpStart, Event
  <2>2. Rest.lost \/ Told(Rest.queue, 0, mac.link)
    BY <1>1, <2>1, RestHalf
  <2>3. \A ok \in BOOLEAN : Full(EnterDhcp(Rest, ok), mac)
    BY <1>2, <1>4, <2>1, <2>2, EnterDhcpFull
  <2>. QED
    BY <1>4, <1>13, <2>3 DEF DhcpStart, StepOK
<1>14. CASE DhcpSuccess
  <2> DEFINE c == EnterConnected(Rest)
             u == [c EXCEPT !.timers = @ \ {"retry"}]
  <2>1. Full(Rest, mac) /\ Rest.st = "DHCP"
    BY <1>2, <1>3, <1>14 DEF DhcpSuccess, Event
  <2>2. Full(c, mac) /\ c.st = "CONNECTED"
    BY <1>4, <2>1, EnterConnectedFull
  <2>. HIDE DEF c
  <2>3. /\ u \in Machines /\ u.st = c.st /\ u.retry = c.retry /\ u.timers \subseteq c.timers
        /\ u.links = c.links /\ u.queue = c.queue /\ u.waitq = c.waitq /\ u.lost = c.lost
        /\ u.type = c.type
    BY <2>2 DEF Full, Half, Good, Machines
  <2>4. sm' = u /\ mac' = mac
    BY <1>14 DEF DhcpSuccess, c
  <2>. HIDE DEF u
  <2>5. Good(u)
    BY <2>2, <2>3 DEF Full, Half, Good, Up
  <2>6. Full(u, mac)
    BY <2>2, <2>3, <2>5 DEF Full, Half, StateTold
  <2>. QED
    BY <1>4, <2>4, <2>6 DEF StepOK
<1>. QED
  BY <1>8, <1>9, <1>10, <1>11, <1>12, <1>13, <1>14

\* Scan results outside an attempt.
LEMMA ScanStep ==
  ASSUME Full(sm, mac),
         ScanDone \/ ScanDoneConnected \/ ScanDoneFallThrough \/ ScanFail
  PROVE  StepOK
<1>1. Good(sm) /\ mac' = mac
  BY DEF ScanDone, ScanDoneConnected, ScanDoneFallThrough, ScanFail, Full, Half
<1>. {"zero", "fail"} \subseteq Args
  BY DEF Args
<1>2. ASSUME NEW s, NEW reason \in {"zero", "fail"}, Full(s, mac), s.st = sm.st,
             sm' = PostScanDone(s, reason)
      PROVE  StepOK
  <2>1. Same(s, sm')
    BY <1>2, DoneSame DEF Full, Half
  <2>. QED
    BY <1>1, <1>2, <2>1, SameFull DEF StepOK, Commanded, Same
<1>3. CASE ScanDone \/ ScanFail
  <2>1. Full(Rest, mac) /\ Rest.st = sm.st
    BY <1>3, RestHalf DEF ScanDone, ScanFail, Event
  <2>. QED
    BY <1>2, <1>3, <2>1 DEF ScanDone, ScanFail
<1>4. CASE ScanDoneConnected
  <2> DEFINE p == [Rest EXCEPT !.pollScan = FALSE]
             s == [Rest EXCEPT !.pollScan = FALSE, !.fall = TRUE]
             r == Send(s, RoamMsg)
  <2>1. Full(Rest, mac) /\ Rest.st = sm.st /\ Rest \in Machines
    BY <1>4, RestHalf DEF ScanDoneConnected, Event, Full, Half, Good
  <2>2. Same(Rest, p)
    BY <2>1, FlagSame DEF Full, Half
  <2>3. Full(p, mac) /\ p.st = sm.st
    BY <2>1, <2>2, SameFull DEF Same
  <2>4. s = [p EXCEPT !.fall = TRUE]
    BY <2>1 DEF Machines
  <2>. HIDE DEF p, s
  <2>5. Same(p, s)
    BY <2>3, <2>4, FlagSame DEF Full, Half
  <2>6. Full(s, mac) /\ s.st = sm.st
    BY <2>3, <2>5, SameFull DEF Same
  <2>7. Same(s, r)
    BY <2>6, SendSame, OwnMessages DEF Full, Half
  <2>8. Full(r, mac) /\ r.st = sm.st
    BY <2>6, <2>7, SameFull DEF Same
  <2>9. sm' = PostScanDone(s, "zero") \/ sm' = PostScanDone(r, "zero")
    BY <1>4 DEF ScanDoneConnected, s
  <2>. HIDE DEF r
  <2>. QED
    BY <1>2, <2>6, <2>8, <2>9
<1>5. CASE ScanDoneFallThrough
  <2> DEFINE s == [sm EXCEPT !.fall = FALSE]
  <2>1. Same(sm, s)
    BY <1>1, FlagSame
  <2>2. Full(s, mac) /\ s.st = sm.st
    BY <2>1, SameFull DEF Same
  <2>3. sm' = PostScanDone(s, "fail")
    BY <1>5 DEF ScanDoneFallThrough
  <2>. HIDE DEF s
  <2>. QED
    BY <1>2, <2>2, <2>3
<1>. QED
  BY <1>3, <1>4, <1>5

\* Events of a connected station.
LEMMA ConnectedStep ==
  ASSUME Full(sm, mac), LinkLost \/ RoamingStart
  PROVE  StepOK
<1>1. sm.queue # <<>> /\ mac \in MacStates /\ Good(sm) /\ sm.st = "CONNECTED"
  BY DEF LinkLost, RoamingStart, Event, Full, Half
<1>2. Half(Rest, mac) /\ Rest.type = "STA" /\ Rest.st = "CONNECTED" /\ Commanded
  BY <1>1, RestHalf DEF Good, StaStates, Commanded, Up
<1>3. CASE LinkLost
  <2> DEFINE s == RetryParamSet(Rest)
  <2>1. Half(s, mac) /\ s.type = "STA"
    BY <1>2, RetryParamHalf
  <2>2. ASSUME NEW ok \in BOOLEAN
        PROVE  /\ Full(EnterScan(s, ok), MacScan(ok /\ ~sm.delayed))
               /\ Full(EnterScan(s, ok), Disconnected(MacScan(ok /\ ~sm.delayed)))
    <3> DEFINE m == MacScan(ok /\ ~sm.delayed)
    <3>0. (ok /\ ~sm.delayed) \in BOOLEAN
      BY <1>1 DEF Good, Machines
    <3>1. m \in MacStates /\ Half(s, m)
      BY <1>1, <2>1, <3>0, MacScanSame
    <3>. HIDE DEF m, s
    <3>2. Full(EnterScan(s, ok), m)
      BY <2>1, <3>1, EnterScanFull
    <3>3. Full(EnterScan(s, ok), Disconnected(m))
      BY <3>1, <3>2, MacSteps
    <3>. QED
      BY <3>2, <3>3 DEF m
  <2>3. Full(EnterIdle(Rest), Disconnected(mac))
    BY <1>1, <1>2, MacSteps, EnterIdleFull
  <2>. HIDE DEF s
  <2>4. CASE \E ok \in BOOLEAN :
               /\ mac' \in {MacScan(ok /\ ~sm.delayed), Disconnected(MacScan(ok /\ ~sm.delayed))}
               /\ sm' = EnterScan(s, ok)
    BY <1>2, <2>2, <2>4 DEF StepOK
  <2>5. CASE sm' = EnterIdle(Rest) /\ mac' = Disconnected(mac)
    BY <1>2, <2>3, <2>5 DEF StepOK
  <2>. QED
    BY <1>3, <2>4, <2>5 DEF LinkLost, s
<1>4. CASE RoamingStart
  <2>0. PICK new \in {0, 1} : /\ sm' = [Rest EXCEPT !.preroam = TRUE, !.links = @ + new]
                              /\ mac' = mac
    BY <1>4 DEF RoamingStart
  <2> DEFINE u == [Rest EXCEPT !.preroam = TRUE, !.links = @ + new]
  <2>1. Full(Rest, mac) /\ Rest \in Machines
    BY <1>1, <1>2, <1>4, RestHalf DEF RoamingStart, Event, Half, Good
  <2>2. /\ u \in Machines /\ u.st = Rest.st /\ u.retry = Rest.retry /\ u.timers = Rest.timers
        /\ u.queue = Rest.queue /\ u.waitq = Rest.waitq /\ u.lost = Rest.lost
        /\ u.type = Rest.type
    <3>1. Rest.links + new \in Nat
      BY <2>1 DEF Machines
    <3>. QED
      BY <2>1, <3>1 DEF Machines
  <2>3. sm' = u /\ mac' = mac
    BY <2>0
  <2>. HIDE DEF u
  <2>4. Good(u)
    BY <1>2, <2>1, <2>2 DEF Full, Half, Good, Up, StaStates
  <2>5. Full(u, mac)
    BY <2>1, <2>2, <2>4 DEF Full, Half, StateTold
  <2>. QED
    BY <1>2, <2>3, <2>5 DEF StepOK
<1>. QED
  BY <1>3, <1>4

\* Entering the first state of a machine that has no timer and no link.
LEMMA ResetFull ==
  ASSUME NEW s, NEW m, NEW mode \in Modes, NEW st,
         Half(s, m), m.link \in {"none", "leaving"}, s.timers = {}, s.links = 0,
         (st = "IDLE" /\ mode = "STA") \/ st \in {"INIT", "STARTED"}
  PROVE  Full([s EXCEPT !.type = mode, !.st = st], m)
<1> DEFINE e == [s EXCEPT !.type = mode, !.st = st]
<1>1. /\ e \in Machines /\ e.st = st /\ e.retry = s.retry /\ e.timers = {}
      /\ e.links = 0 /\ e.queue = s.queue /\ e.waitq = s.waitq /\ e.lost = s.lost
      /\ e.type = mode
  BY DEF Half, Good, Machines, StaStates
<1>. HIDE DEF e
<1>2. Good(e)
  BY <1>1 DEF Half, Good, StaStates
<1>3. Full(e, m)
  BY <1>1, <1>2 DEF Half, Full, StateTold
<1>. QED
  BY <1>3 DEF e

\* Changing the mode of the interface.
LEMMA SwitchStep ==
  ASSUME Full(sm, mac), SwitchMode
  PROVE  StepOK
<1>1. sm.queue # <<>> /\ mac \in MacStates /\ Good(sm) /\ msg.ev = "SWITCH_MODE_CMD"
  BY DEF SwitchMode, Event, Full, Half
<1>2. /\ Full(Rest, mac) /\ Half(Rest, mac) /\ Rest.type = sm.type /\ Rest.st = sm.st
      /\ Rest.timers = sm.timers /\ Rest.links = sm.links /\ msg \in Messages
  BY <1>1, RestHalf
<1>3. CASE sm' = Rest /\ UNCHANGED mac
  BY <1>2, <1>3 DEF StepOK, Commanded
<1>4. CASE ~(sm' = Rest /\ UNCHANGED mac)
  <2> DEFINE idle == EnterIdle(Rest)
             old == IF sm.type = "STA" THEN [idle EXCEPT !.connBlocked = FALSE] ELSE Rest
             m == IF sm.type = "STA" THEN Disconnected(mac) ELSE mac
             st == IF msg.arg = "STA" THEN "IDLE" ELSE "INIT"
             new == [old EXCEPT !.type = msg.arg, !.st = st]
             reset == [new EXCEPT !.pollScan = FALSE]
  <2>1. mac' = m /\ (sm' = new \/ sm' = RetryParamSet(reset))
    BY <1>4 DEF SwitchMode
  <2>2. msg.arg \in Modes
    BY <1>1, <1>2 DEF Messages
  <2>3. Half(old, m) /\ m.link \in {"none", "leaving"} /\ old.st \notin Up
    <3>1. CASE sm.type = "STA"
      <4>1. Half(Rest, m) /\ m.link \in {"none", "leaving"}
        BY <1>1, <1>2, <3>1, MacSteps
      <4>. HIDE DEF m
      <4>2. Full(idle, m) /\ idle.st = "IDLE"
        BY <1>2, <3>1, <4>1, EnterIdleFull
      <4>. HIDE DEF idle
      <4>3. Same(idle, old)
        BY <3>1, <4>2, FlagSame DEF Full, Half
      <4>. QED
        BY <4>1, <4>2, <4>3, SameFull DEF Full, Same, Up, Attempt
    <3>2. CASE sm.type # "STA"
      <4>1. sm.st \notin Up
        BY <1>1, <3>2 DEF Good, Up, Attempt, StaStates
      <4>. QED
        BY <1>2, <3>2, <4>1 DEF Half
    <3>. QED
      BY <3>1, <3>2
  <2>. HIDE DEF old, m
  <2>4. old.timers = {} /\ old.links = 0
    BY <2>3 DEF Half, Good, Machines, Up
  <2>5. Full(new, m)
    BY <2>2, <2>3, <2>4, ResetFull
  <2>6. new.st = st
    BY <2>3 DEF Half, Good, Machines
  <2>. HIDE DEF new
  <2>7. Same(new, reset)
    BY <2>5, FlagSame DEF Full, Half
  <2>. HIDE DEF reset
  <2>8. Full(reset, m) /\ reset.st = st
    BY <2>5, <2>6, <2>7, SameFull DEF Same
  <2>9. Half(RetryParamSet(reset), m) /\ RetryParamSet(reset).st = st
    BY <2>8, RetryParamHalf DEF Full
  <2>10. Full(RetryParamSet(reset), m)
    BY <2>9 DEF Full, StateTold
  <2>11. sm'.st \notin Up
    BY <2>1, <2>6, <2>9 DEF Up, Attempt
  <2>. QED
    BY <2>1, <2>5, <2>10, <2>11 DEF StepOK, Commanded
<1>. QED
  BY <1>3, <1>4

\* The SoftAP and the monitor start, or fail to.
LEMMA StartStep ==
  ASSUME Full(sm, mac), NEW ev, NEW mode, NEW evt \in Answers, StartCmd(ev, mode, evt),
         ev # "DISCONNECT"
  PROVE  StepOK
<1>1. sm.queue # <<>> /\ msg.ev = ev /\ sm.st = "INIT" /\ mac' = mac
  BY DEF StartCmd, Event
<1>2. Full(Rest, mac) /\ Half(Rest, mac) /\ Rest.st = "INIT" /\ Rest \in Machines
  BY <1>1, RestHalf DEF Half, Good
<1>. {"zero", "fail"} \subseteq Args /\ "INIT" \notin Up /\ "STARTED" \notin Up
  BY DEF Args, Up, Attempt
<1> DEFINE s == [Rest EXCEPT !.st = "STARTED"]
<1>3. Full(s, mac) /\ s.st = "STARTED"
  <2>1. Rest.timers = {} /\ Rest.links = 0 /\ mac.link \in {"none", "leaving"}
    BY <1>2 DEF Half, Good, Machines
  <2>2. s = [Rest EXCEPT !.type = Rest.type, !.st = "STARTED"] /\ Rest.type \in Modes
    BY <1>2 DEF Machines
  <2>3. Full([Rest EXCEPT !.type = Rest.type, !.st = "STARTED"], mac)
    BY <1>2, <2>1, <2>2, ResetFull
  <2>. QED
    BY <1>2, <2>2, <2>3 DEF Machines
<1>. HIDE DEF s
<1>4. Same(s, Post(s, evt, "zero")) /\ Same(Rest, Post(Rest, evt, "fail"))
  BY <1>2, <1>3, PostSame DEF Full, Half
<1>5. Full(Post(s, evt, "zero"), mac) /\ Post(s, evt, "zero").st \notin Up
  BY <1>3, <1>4, SameFull DEF Same
<1>6. Full(Post(Rest, evt, "fail"), mac) /\ Post(Rest, evt, "fail").st \notin Up
  BY <1>2, <1>4, SameFull DEF Same
<1>7. sm' = Post(s, evt, "zero") \/ sm' = Post(Rest, evt, "fail")
  BY DEF StartCmd, s
<1>. QED
  BY <1>1, <1>5, <1>6, <1>7 DEF StepOK, Commanded

\* An event that the state does not handle; none of them is news of the link.
LEMMA IgnoredStep ==
  ASSUME Full(sm, mac), Ignored
  PROVE  StepOK
<1>1. sm.queue # <<>> /\ sm' = Rest /\ mac' = mac
  BY DEF Ignored
<1>2. Half(Rest, mac) /\ Rest.st = sm.st /\ (msg.ev # "DISCONNECT" => Full(Rest, mac))
  BY <1>1, RestHalf
<1>3. CASE sm.st \in {"DHCP", "CONNECTED"}
  <2>1. "DISCONNECT" \in Handled(sm.st)
    BY <1>3 DEF Handled
  <2>. QED
    BY <1>1, <1>2, <2>1 DEF Ignored, StepOK, Commanded
<1>4. CASE sm.st \notin {"DHCP", "CONNECTED"}
  BY <1>1, <1>2, <1>4 DEF StepOK, Commanded, Full, StateTold
<1>. QED
  BY <1>3, <1>4

LEMMA DispatchStep ==
  ASSUME Full(sm, mac), Dispatch
  PROVE  StepOK
<1>1. {"AP_START_DONE", "MONITOR_START_DONE"} \subseteq Answers
  BY DEF Answers
<1>2. CASE StartCmd("START_AP_CMD", "AP", "AP_START_DONE")
  BY <1>1, <1>2, StartStep
<1>3. CASE StartCmd("MONITOR_START_CMD", "MONITOR", "MONITOR_START_DONE")
  BY <1>1, <1>3, StartStep
<1>. QED
  BY <1>2, <1>3, CommandStep, AttemptStep, ScanStep, ConnectedStep, SwitchStep, IgnoredStep
  DEF Dispatch

\* The timeouts.
LEMMA TimerStep ==
  ASSUME Full(sm, mac), DhcpPolling \/ LinkStatusPolling \/ ConnectRetry
  PROVE  StepOK
<1>1. Good(sm) /\ sm \in Machines /\ mac \in MacStates /\ Half(sm, mac)
  BY DEF Full, Half, Good
<1>2. CASE DhcpPolling
  <2> DEFINE s == [sm EXCEPT !.timers = @ \ {"dhcp"}]
             d == [s EXCEPT !.polls = @ - 1]
             r == Register(d, "dhcp", TRUE)
             n == Register(d, "dhcp", FALSE)
  <2>1. "dhcp" \in sm.timers /\ mac' = mac
    BY <1>2 DEF DhcpPolling
  <2>2. sm.st \in {"DHCP", "CONNECTED"} /\ sm.polls \in Int /\ sm.polls - 1 \in Int
    BY <1>1, <2>1 DEF Good, Machines
  <2>3. /\ s \in Machines /\ d \in Machines
        /\ s.timers = sm.timers \ {"dhcp"} /\ d.timers = sm.timers \ {"dhcp"}
    BY <1>1, <2>1, <2>2 DEF Machines
  <2>4. ASSUME NEW u \in {s, d, r, n}
        PROVE  /\ u \in Machines /\ u.timers \subseteq sm.timers
               /\ u.st = sm.st /\ u.retry = sm.retry /\ u.queue = sm.queue
               /\ u.waitq = sm.waitq /\ u.links = sm.links /\ u.lost = sm.lost
               /\ u.type = sm.type
    <3>1. ASSUME NEW v \in {s, d}
          PROVE  /\ v.st = sm.st /\ v.retry = sm.retry /\ v.queue = sm.queue
                 /\ v.waitq = sm.waitq /\ v.links = sm.links /\ v.lost = sm.lost
                 /\ v.type = sm.type
      BY <1>1 DEF Machines
    <3>. HIDE DEF s, d
    <3>2. CASE u \in {s, d}
      BY <2>3, <3>1, <3>2
    <3>3. CASE u \in {r, n}
      <4>1. PICK ok \in BOOLEAN : u = Register(d, "dhcp", ok)
        BY <3>3
      <4>2. /\ u \in Machines /\ u.st = d.st /\ u.retry = d.retry /\ u.queue = d.queue
            /\ u.waitq = d.waitq /\ u.links = d.links /\ u.lost = d.lost /\ u.type = d.type
            /\ u.timers \subseteq d.timers \cup {"dhcp"}
        BY <2>3, <4>1, RegisterKeeps
      <4>. QED
        BY <2>1, <2>3, <3>1, <4>2
    <3>. QED
      BY <3>2, <3>3
  <2>. HIDE DEF s, d, r, n
  <2>5. ASSUME NEW u \in {s, d, r, n}
        PROVE  Full(u, mac)
    <3>1. Good(u)
      BY <1>1, <2>2, <2>3, <2>4 DEF Good, Up, Attempt
    <3>. QED
      BY <2>4, <3>1 DEF Full, Half, StateTold
  <2>6. ASSUME NEW u \in {s, d}, NEW m \in {Msg("DHCP_SUCCESS", "zero"), Msg("DHCP_FAIL", "zero")}
        PROVE  Full(Send(u, m), mac)
    <3>1. Full(u, mac) /\ Good(u)
      BY <2>5 DEF Full, Half
    <3>2. m \in Messages /\ m.ev # "DHCP_START"
      BY OwnMessages
    <3>. QED
      BY <3>1, <3>2, SendSame, SameFull
  <2>7. \/ sm' = Send(s, Msg("DHCP_SUCCESS", "zero")) \/ sm' \in {r, n}
        \/ sm' = Send(d, Msg("DHCP_FAIL", "zero"))
    <3>1. (\E ok \in BOOLEAN : sm' = Register(d, "dhcp", ok)) => sm' \in {r, n}
      BY DEF r, n
    <3>. QED
      BY <1>2, <3>1 DEF DhcpPolling, s, d
  <2>. QED
    BY <2>1, <2>2, <2>5, <2>6, <2>7 DEF StepOK, Commanded, Up, Attempt
<1>3. CASE LinkStatusPolling
  <2> DEFINE s == [sm EXCEPT !.links = @ - 1]
             p == [s EXCEPT !.preroam = FALSE]
             g == [sm EXCEPT !.pollScan = TRUE]
             h == [s EXCEPT !.pollScan = TRUE]
  <2>1. sm.links > 0
    BY <1>3 DEF LinkStatusPolling
  <2>2. sm.st = "CONNECTED" /\ sm.links - 1 \in Nat
    BY <1>1, <2>1 DEF Good, Machines
  <2>3. /\ s \in Machines /\ s.st = sm.st /\ s.retry = sm.retry /\ s.timers = sm.timers
        /\ s.queue = sm.queue /\ s.waitq = sm.waitq /\ s.lost = sm.lost /\ s.type = sm.type
    BY <1>1, <2>2 DEF Machines
  <2>. HIDE DEF s
  <2>4. Good(s)
    BY <1>1, <2>2, <2>3 DEF Good, Up
  <2>5. Full(s, mac)
    BY <2>3, <2>4 DEF Full, Half, StateTold
  <2>6. Same(s, p) /\ Same(sm, g) /\ Same(s, h)
    BY <1>1, <2>4, FlagSame
  <2>. HIDE DEF p, g, h
  <2>7. Full(p, mac) /\ Full(g, mac) /\ Full(h, mac)
    BY <2>5, <2>6, SameFull
  <2>8. \A ok \in BOOLEAN : Full(g, MacScan(ok)) /\ Full(h, MacScan(ok))
    BY <1>1, <2>7, MacScanSame
  <2>9. Commanded
    BY <2>2 DEF Commanded, Up
  <2>10. \/ mac' = mac /\ sm' \in {s, p, sm}
         \/ sm' \in {g, h} /\ \E ok \in BOOLEAN : mac' = MacScan(ok)
    BY <1>3 DEF LinkStatusPolling, s, p, g, h
  <2>. QED
    BY <2>5, <2>7, <2>8, <2>9, <2>10 DEF StepOK
<1>4. CASE ConnectRetry
  <2> DEFINE s == [sm EXCEPT !.timers = @ \ {"retry"}, !.retry = @ - 1, !.delayed = FALSE]
  <2>1. PICK ok \in BOOLEAN : mac' = MacScan(ok) /\ sm' = EnterScan(s, ok)
    BY <1>4 DEF ConnectRetry
  <2>2. "retry" \in sm.timers
    BY <1>4 DEF ConnectRetry
  <2>3. sm.st \in Up /\ sm.retry > 0 /\ sm.type = "STA" /\ sm.retry - 1 \in Int
    BY <1>1, <2>2 DEF Good, Machines, Up, Attempt, StaStates
  <2>4. /\ s \in Machines /\ s.st = sm.st /\ s.retry = sm.retry - 1
        /\ s.timers = sm.timers \ {"retry"} /\ s.links = sm.links
        /\ s.queue = sm.queue /\ s.waitq = sm.waitq /\ s.lost = sm.lost /\ s.type = sm.type
    BY <1>1, <2>3 DEF Machines
  <2>. HIDE DEF s
  <2>5. Good(s)
    <3>1. s.retry >= 0
      BY <1>1, <2>3, <2>4 DEF Machines
    <3>. QED
      BY <1>1, <2>3, <2>4, <3>1 DEF Good
  <2>6. Half(s, mac)
    BY <1>1, <2>4, <2>5 DEF Half
  <2>7. Full(EnterScan(s, ok), MacScan(ok))
    BY <1>1, <2>3, <2>4, <2>6, MacScanSame, EnterScanFull
  <2>. QED
    BY <2>1, <2>3, <2>7 DEF StepOK, Commanded
<1>. QED
  BY <1>2, <1>3, <1>4

\* DHCP_START says of a link that it is open.
LEMMA SendDhcpStart ==
  ASSUME NEW s, NEW m, Full(s, m), m.link = "open", NEW x \in Messages
  PROVE  Full(Send(s, x), m) /\ Send(s, x).st = s.st
<1>1. s \in Machines /\ Good(s) /\ s.queue \in Seq(Messages)
  BY DEF Full, Half, Good, Machines
<1> DEFINE q == Append(s.queue, x)
           u == [s EXCEPT !.queue = q]
           v == [s EXCEPT !.lost = TRUE]
<1>2. CASE Len(s.queue) < QSize
  <2>1. q \in Seq(Messages) /\ Len(q) <= QSize
    BY <1>1, <1>2, SizeAssumption
  <2>. HIDE DEF q
  <2>2. /\ u \in Machines /\ u.queue = q /\ u.waitq = s.waitq /\ u.type = s.type
        /\ u.st = s.st /\ u.retry = s.retry /\ u.timers = s.timers /\ u.links = s.links
    BY <1>1, <2>1 DEF Machines
  <2>3. Send(s, x) = u
    BY <1>2 DEF Send, q
  <2>. HIDE DEF u
  <2>4. Good(u)
    BY <1>1, <2>1, <2>2 DEF Good
  <2>5. \A p, i : Told(p, i, m.link)
    BY DEF Told
  <2>. QED
    BY <2>2, <2>3, <2>4, <2>5 DEF Full, Half, QueueTold, StateTold
<1>3. CASE ~(Len(s.queue) < QSize)
  <2>1. /\ v \in Machines /\ v.queue = s.queue /\ v.waitq = s.waitq /\ v.type = s.type
        /\ v.st = s.st /\ v.retry = s.retry /\ v.timers = s.timers /\ v.links = s.links
        /\ v.lost = TRUE
    BY <1>1 DEF Machines
  <2>2. Send(s, x) = v
    BY <1>3 DEF Send
  <2>. HIDE DEF v
  <2>3. Good(v)
    BY <1>1, <2>1 DEF Good
  <2>. QED
    BY <2>1, <2>2, <2>3 DEF Full, Half
<1>. QED
  BY <1>2, <1>3

\* DISCONNECT at the end of the queue is the news that all of it waits for.
LEMMA SendDisconnect ==
  ASSUME NEW s, NEW m \in MacStates, Good(s), s.st \notin Up => m.link \in {"none", "leaving"},
         NEW x \in Messages, x.ev = "DISCONNECT"
  PROVE  Full(Send(s, x), m) /\ Send(s, x).st = s.st
<1>1. Same(s, Send(s, x))
  BY SendSame
<1>2. Good(Send(s, x)) /\ Send(s, x).st = s.st
  BY <1>1, SameFull DEF Same
<1>3. s \in Machines /\ s.queue \in Seq(Messages)
  BY DEF Good, Machines
<1>4. CASE Len(s.queue) < QSize
  <2> DEFINE q == Append(s.queue, x)
  <2>1. Send(s, x).queue = q
    BY <1>3, <1>4 DEF Send, Machines
  <2>2. /\ q \in Seq(Messages) /\ Len(q) = Len(s.queue) + 1
        /\ q[Len(q)] = x /\ Len(q) \in Nat
    BY <1>3
  <2>3. \A i \in 1..Len(q) : q[i].ev = "DHCP_START" => i < Len(q)
    BY <2>2
  <2>. HIDE DEF q
  <2>4. \A i \in Nat : i < Len(q) => Told(q, i, m.link)
    BY <2>2 DEF Told
  <2>5. QueueTold(q, m.link)
    BY <2>2, <2>3, <2>4 DEF QueueTold
  <2>6. Told(q, 0, m.link)
    BY <1>3, <2>2, <2>4
  <2>. QED
    BY <1>2, <2>1, <2>5, <2>6 DEF Full, Half, StateTold
<1>5. CASE ~(Len(s.queue) < QSize)
  <2>1. Send(s, x).lost
    BY <1>3, <1>5 DEF Send, Machines
  <2>. QED
    BY <1>2, <2>1 DEF Full, Half
<1>. QED
  BY <1>4, <1>5

\* The MAC.
LEMMA MacStep ==
  ASSUME Full(sm, mac), Mac
  PROVE  StepOK
<1>1. Good(sm) /\ mac \in MacStates
  BY DEF Full, Half
<1>2. ASSUME NEW m \in MacStates,
             mac.link \in {"open", "leaving"} => m.link \in {"open", "leaving"},
             sm.st \notin Up => m.link \in {"none", "leaving"}
      PROVE  Full(sm, m)
  <2>1. \A q, i : Told(q, i, mac.link) => Told(q, i, m.link)
    BY <1>2 DEF Told
  <2>. QED
    BY <1>2, <2>1 DEF Full, Half, QueueTold, StateTold
<1>3. \A ev \in {"SCAN_DONE", "SCAN_FAIL", "ASSOC_SUCCESS", "CONNECT_FAIL", "DHCP_START",
                 "DISCONNECT", "ROAMING_START"}, arg \in {"zero", "fail", "lost", "other", "saquery"} :
        Msg(ev, arg) \in Messages /\ Msg(ev, arg).ev = ev
  BY DEF Msg, Messages, Events, Args
<1>4. ASSUME NEW x \in Messages, x.ev # "DHCP_START", Full(sm, mac'), sm' = Send(sm, x)
      PROVE  StepOK
  <2>1. Same(sm, sm')
    BY <1>1, <1>4, SendSame
  <2>. QED
    BY <1>4, <2>1, SameFull DEF StepOK, Commanded, Same
<1>5. ASSUME NEW x \in Messages, x.ev = "DISCONNECT", mac' \in MacStates,
             sm.st \notin Up => mac'.link \in {"none", "leaving"}, sm' = Send(sm, x)
      PROVE  StepOK
  BY <1>1, <1>5, SendDisconnect DEF StepOK, Commanded
<1>6. mac.link \notin {"none", "leaving"} => sm.st \in Up
  BY DEF Full, Half
<1>7. CASE MacScanEnd
  <2>1. mac' \in MacStates /\ mac'.link = mac.link
    BY <1>1, <1>7 DEF MacScanEnd, MacStates
  <2>2. Full(sm, mac')
    BY <1>2, <2>1 DEF Full, Half
  <2>. QED
    BY <1>3, <1>4, <1>7, <2>2 DEF MacScanEnd
<1>8. CASE MacJoin
  <2>1. mac' \in MacStates
    BY <1>1, <1>8 DEF MacJoin, MacStates
  <2>2. Full(sm, mac')
    BY <1>1, <1>2, <1>6, <1>8, <2>1 DEF MacJoin, MacStates
  <2>. QED
    BY <1>3, <1>4, <1>8, <2>2 DEF MacJoin
<1>9. CASE MacHandshake
  <2>1. mac' \in MacStates /\ sm.st \in Up /\ mac.link = "joined"
    BY <1>1, <1>6, <1>9 DEF MacHandshake, MacStates
  <2>2. Full(sm, mac')
    BY <1>2, <2>1
  <2>3. mac'.link = "open" /\ sm' = Send(sm, Msg("DHCP_START", "zero"))
    BY <1>1, <1>9 DEF MacHandshake, MacStates
  <2>4. Msg("DHCP_START", "zero") \in Messages
    BY <1>3
  <2>5. Full(sm', mac')
    BY <2>2, <2>3, <2>4, SendDhcpStart
  <2>. QED
    BY <2>1, <2>5 DEF StepOK, Commanded
<1>13. CASE HandshakeFails
  <2>1. mac' \in MacStates /\ sm.st \in Up /\ mac.link = "joined"
    BY <1>1, <1>6, <1>13 DEF HandshakeFails, MacStates
  <2>2. Full(sm, mac')
    BY <1>2, <2>1
  <2>3. Msg("CONNECT_FAIL", "fail") \in Messages /\ Msg("CONNECT_FAIL", "fail").ev # "DHCP_START"
    BY <1>3
  <2>. QED
    BY <1>4, <1>13, <2>2, <2>3 DEF HandshakeFails
<1>10. CASE MacLeft
  <2>1. mac' \in MacStates /\ mac'.link = "none"
    BY <1>1, <1>10 DEF MacLeft, MacStates
  <2>. QED
    BY <1>3, <1>5, <1>10, <2>1 DEF MacLeft
<1>11. CASE MacDrop \/ SaQueryFails
  <2>1. mac' \in MacStates /\ sm.st \in Up
    BY <1>1, <1>6, <1>11 DEF MacDrop, SaQueryFails, MacStates
  <2>2. PICK r \in {"lost", "other", "saquery"} : sm' = Send(sm, Msg("DISCONNECT", r))
    BY <1>11 DEF MacDrop, SaQueryFails
  <2>3. Msg("DISCONNECT", r) \in Messages /\ Msg("DISCONNECT", r).ev = "DISCONNECT"
    BY <1>3
  <2>. QED
    BY <1>5, <2>1, <2>2, <2>3
<1>12. CASE MacRoam
  BY <1>3, <1>4, <1>12 DEF MacRoam
<1>. QED
  BY <1>7, <1>8, <1>9, <1>10, <1>11, <1>12, <1>13 DEF Mac

-----------------------------------------------------------------------------
(* The calls of other tasks                                                 *)

\* What the calls send: never an event of the link coming up.
Orders == {m \in Messages : m.ev \notin {"DHCP_START", "ASSOC_SUCCESS"}}
Others == [ev : Answers \cup {"none"}, arg : Args]
Steps == [do : {"send", "try"}, msg : Orders, alloc : BOOLEAN]
         \cup [do : {"flush", "block", "wait"}, msg : Others, alloc : BOOLEAN]

LEMMA StepsInScripts ==
  /\ \A mode \in Modes : /\ SendOrFail(Switch(mode)) \in Steps
                          /\ SendAnyway(Switch(mode)) \in Steps
  /\ \A b \in BOOLEAN : SendOrFail(ConnectMsg(b)) \in Steps
  /\ \A ev \in {"DISCONNECT_CMD", "SCAN_CMD", "START_AP_CMD", "MONITOR_START_CMD"} :
       SendOrFail(Msg(ev, "zero")) \in Steps
  /\ Flush \in Steps /\ Block \in Steps
  /\ \A evt \in Answers : WaitFor(evt) \in Steps
  /\ \A s \in Steps : AfterAlloc(s) \in Steps
<1>1. \A mode \in Modes : Switch(mode) \in Orders
  BY DEF Switch, Msg, Orders, Messages, Events, Args, Modes
<1>2. \A b \in BOOLEAN : ConnectMsg(b) \in Orders
  BY DEF ConnectMsg, Msg, Orders, Messages, Events, Args
<1>3. \A ev \in {"DISCONNECT_CMD", "SCAN_CMD", "START_AP_CMD", "MONITOR_START_CMD"} :
        Msg(ev, "zero") \in Orders
  BY DEF Msg, Orders, Messages, Events, Args
<1>4. \A evt \in Answers \cup {"none"} : Msg(evt, "zero") \in Others
  BY DEF Msg, Others, Args
<1>5. \A what \in {"send", "try"}, m \in Orders : Do(what, m) \in Steps
  BY DEF Do, Steps
<1>6. \A what \in {"flush", "block", "wait"}, m \in Others : Do(what, m) \in Steps
  BY DEF Do, Steps
<1>7. \A s \in Steps : AfterAlloc(s) \in Steps
  BY DEF AfterAlloc, Steps
<1>. QED
  BY <1>1, <1>2, <1>3, <1>4, <1>5, <1>6, <1>7
  DEF SendOrFail, SendAnyway, Flush, Block, WaitFor

LEMMA ConcatType ==
  ASSUME NEW S, NEW a \in Seq(S), NEW b \in Seq(S), Len(a) >= 1
  PROVE  a \o b \in Seq(S) /\ Len(a \o b) >= 1
<1>1. Len(a \o b) = Len(a) + Len(b) /\ Len(a) \in Nat /\ Len(b) \in Nat
  OBVIOUS
<1>. QED
  BY <1>1

LEMMA ScriptType ==
  ASSUME NEW c \in Calls, c.op # "none"
  PROVE  Script(c) \in Seq(Steps) /\ Len(Script(c)) >= 1
<1>1. c.blocked \in BOOLEAN /\ c.op \in (Ops \cup {"monitor_restart"})
  BY DEF Calls
<1>. {"STA", "AP", "MONITOR"} \subseteq Modes
  BY DEF Modes
<1>. {"CONN_DONE", "DISCONN_DONE", "SCAN_DONE", "AP_START_DONE", "MONITOR_START_DONE"}
     \subseteq Answers
  BY DEF Answers
<1>2. \A s \in Steps : IfBlocked(c, s) \in Seq(Steps)
  BY DEF IfBlocked
<1>3. ConnectScript(c) \in Seq(Steps) /\ Len(ConnectScript(c)) >= 1
  <2> DEFINE a == <<SendOrFail(Switch("STA")), AfterAlloc(Flush), SendOrFail(ConnectMsg(c.blocked))>>
             b == IfBlocked(c, WaitFor("CONN_DONE"))
  <2>1. a \in Seq(Steps) /\ Len(a) >= 1
    BY <1>1, StepsInScripts
  <2>2. b \in Seq(Steps)
    BY <1>2, StepsInScripts
  <2>. HIDE DEF a, b
  <2>3. a \o b \in Seq(Steps) /\ Len(a \o b) >= 1
    BY <2>1, <2>2, ConcatType
  <2>. QED
    BY <2>3 DEF ConnectScript, a, b
<1>4. DisconnectScript \in Seq(Steps) /\ Len(DisconnectScript) >= 1
  BY StepsInScripts DEF DisconnectScript
<1>5. ScanScript(c) \in Seq(Steps) /\ Len(ScanScript(c)) >= 1
  <2> DEFINE a == <<AfterAlloc(SendOrFail(Msg("SCAN_CMD", "zero"))), Flush, Block>>
             b == IfBlocked(c, WaitFor("SCAN_DONE"))
  <2>1. a \in Seq(Steps) /\ Len(a) >= 1
    BY StepsInScripts
  <2>2. b \in Seq(Steps)
    BY <1>2, StepsInScripts
  <2>. HIDE DEF a, b
  <2>3. a \o b \in Seq(Steps) /\ Len(a \o b) >= 1
    BY <2>1, <2>2, ConcatType
  <2>. QED
    BY <2>3 DEF ScanScript, a, b
<1>6. ApStartScript \in Seq(Steps) /\ Len(ApStartScript) >= 1
  BY StepsInScripts DEF ApStartScript
<1>7. MonitorStartScript \in Seq(Steps) /\ Len(MonitorStartScript) >= 1
  BY StepsInScripts DEF MonitorStartScript
<1>8. <<SendOrFail(Switch("STA"))>> \in Seq(Steps) /\ Len(<<SendOrFail(Switch("STA"))>>) = 1
  BY StepsInScripts
<1>9. LET m == <<SendOrFail(Switch("STA"))>> \o MonitorStartScript
      IN  m \in Seq(Steps) /\ Len(m) >= 1
  <2> DEFINE a == <<SendOrFail(Switch("STA"))>>
  <2>1. a \in Seq(Steps) /\ Len(a) = 1
    BY <1>8
  <2>. HIDE DEF a
  <2>2. a \o MonitorStartScript \in Seq(Steps) /\ Len(a \o MonitorStartScript) >= 1
    BY <1>7, <2>1
  <2>. QED
    BY <2>2 DEF a
<1>10. CASE c.op \in Connects
  BY <1>3, <1>10 DEF Script, Connects
<1>11. CASE c.op = "disconnect"
  BY <1>4, <1>11 DEF Script, Connects
<1>12. CASE c.op = "scan"
  BY <1>5, <1>12 DEF Script, Connects
<1>13. CASE c.op = "ap_start"
  BY <1>6, <1>13 DEF Script, Connects
<1>14. CASE c.op = "monitor_start"
  BY <1>7, <1>14 DEF Script, Connects
<1>15. CASE c.op = "monitor_restart"
  BY <1>9, <1>15 DEF Script, Connects
<1>16. CASE c.op = "sta_start"
  BY <1>8, <1>16 DEF Script, Connects
<1>. QED
  BY <1>1, <1>10, <1>11, <1>12, <1>13, <1>14, <1>15, <1>16 DEF Ops, Connects

\* A task that is in a call is at a step of it.
CallOK(c) == c \in Calls /\ (c.op # "none" => c.k \in 1..Len(Script(c)))

LEMMA CallsUpdate ==
  ASSUME CallsOK, NEW t \in Tasks, NEW c, CallOK(c), task' = [task EXCEPT ![t] = c]
  PROVE  CallsOK'
BY DEF CallsOK, CallOK, InCall

LEMMA NoCallOK == CallOK(NoCall)
BY DEF CallOK, NoCall, Calls

LEMMA FirstStepOK ==
  ASSUME NEW c \in Calls, c.op # "none", c.k = 1
  PROVE  CallOK(c)
<1>1. Len(Script(c)) >= 1 /\ Len(Script(c)) \in Nat
  BY ScriptType
<1>. QED
  BY <1>1 DEF CallOK

LEMMA AdvanceOK ==
  ASSUME CallsOK, NEW t \in Tasks, InCall(t), Advance(t)
  PROVE  CallsOK'
<1> DEFINE c == task[t]
           n == [c EXCEPT !.k = @ + 1]
<1>1. c \in Calls /\ c.op # "none" /\ c.k \in 1..Len(Script(c)) /\ c.k \in Nat
  BY DEF CallsOK, InCall, Calls
<1>2. Len(Script(c)) \in Nat
  BY <1>1, ScriptType
<1>3. CASE c.k = Len(Script(c))
  <2>1. task' = [task EXCEPT ![t] = NoCall]
    BY <1>3 DEF Advance
  <2>. QED
    BY <2>1, NoCallOK, CallsUpdate
<1>4. CASE c.k # Len(Script(c))
  <2>1. task' = [task EXCEPT ![t] = n]
    <3>1. task' = [task EXCEPT ![t] = IF c.k = Len(Script(c)) THEN NoCall ELSE n]
      BY DEF Advance
    <3>. HIDE DEF n, c
    <3>. QED
      BY <1>4, <3>1
  <2>2. n \in Calls /\ n.op = c.op /\ n.blocked = c.blocked /\ n.k = c.k + 1
    BY <1>1 DEF Calls
  <2>3. Script(n) = Script(c)
    BY <2>2 DEF Script, ConnectScript, ScanScript, IfBlocked
  <2>4. n.k \in 1..Len(Script(n))
    BY <1>1, <1>2, <1>4, <2>2, <2>3
  <2>5. CallOK(n)
    BY <2>2, <2>4 DEF CallOK
  <2>. HIDE DEF n
  <2>. QED
    BY <2>1, <2>5, CallsUpdate
<1>. QED
  BY <1>3, <1>4

LEMMA ReturnOK ==
  ASSUME CallsOK, NEW t \in Tasks, Return(t)
  PROVE  CallsOK'
BY NoCallOK, CallsUpdate DEF Return

\* A call sends, empties the wait queue, or takes an answer from it.
LEMMA CallStepOK ==
  ASSUME WifiInv, NEW t \in Tasks, CallStep(t)
  PROVE  StepOK /\ CallsOK'
<1>1. Full(sm, mac) /\ CallsOK /\ Good(sm) /\ sm \in Machines
  BY DEF WifiInv, Full, Half, Good
<1>2. InCall(t) /\ mac' = mac
  BY DEF CallStep, CallSend, CallNoMemory, CallFlush, CallBlock, CallFetch, CallTimeout, At
<1>3. Step(t) \in Steps
  <2>1. task[t] \in Calls /\ task[t].op # "none" /\ task[t].k \in 1..Len(Script(task[t]))
    BY <1>1, <1>2 DEF CallsOK, InCall
  <2>2. Script(task[t]) \in Seq(Steps)
    BY <2>1, ScriptType
  <2>. QED
    BY <2>1, <2>2 DEF Step
<1>4. ASSUME Same(sm, sm')
      PROVE  StepOK
  BY <1>1, <1>2, <1>4, SameFull DEF StepOK, Commanded, Same
<1>5. ASSUME NEW w \in Seq([evt : Answers, reason : Args, up : BOOLEAN]),
             Len(w) <= WaitSize, sm' = [sm EXCEPT !.waitq = w]
      PROVE  StepOK
  <2>1. /\ sm' \in Machines /\ sm'.waitq = w /\ sm'.queue = sm.queue /\ sm'.st = sm.st
        /\ sm'.retry = sm.retry /\ sm'.timers = sm.timers /\ sm'.links = sm.links
        /\ sm'.type = sm.type /\ sm'.lost = sm.lost
    BY <1>1, <1>5 DEF Machines
  <2>2. Same(sm, sm')
    BY <1>1, <1>5, <2>1 DEF Same, Good, StateTold
  <2>. QED
    BY <1>4, <2>2
<1>6. ASSUME UNCHANGED sm
      PROVE  StepOK
  BY <1>1, <1>2, <1>6 DEF StepOK, Commanded
<1>7. CASE CallSend(t)
  <2>1. Step(t).msg \in Orders
    BY <1>3, <1>7 DEF CallSend, At, Steps
  <2>2. CASE Len(sm.queue) < QSize /\ sm' = [sm EXCEPT !.queue = Append(@, Step(t).msg)]
             /\ Advance(t)
    <3>1. sm' = Send(sm, Step(t).msg)
      BY <2>2 DEF Send
    <3>2. Same(sm, sm')
      BY <1>1, <2>1, <3>1, SendSame DEF Orders
    <3>. QED
      BY <1>1, <1>2, <1>4, <2>2, <3>2, AdvanceOK
  <2>3. CASE UNCHANGED sm /\ (Return(t) \/ Advance(t))
    BY <1>1, <1>2, <1>6, <2>3, AdvanceOK, ReturnOK
  <2>. QED
    BY <1>7, <2>2, <2>3 DEF CallSend
<1>8. CASE CallNoMemory(t)
  BY <1>1, <1>6, <1>8, ReturnOK DEF CallNoMemory
<1>9. CASE CallFlush(t)
  <2>1. sm' = [sm EXCEPT !.waitq = <<>>] /\ Advance(t)
    BY <1>9 DEF CallFlush
  <2>2. <<>> \in Seq([evt : Answers, reason : Args, up : BOOLEAN]) /\ Len(<<>>) <= WaitSize
    BY SizeAssumption
  <2>. QED
    BY <1>1, <1>2, <1>5, <2>1, <2>2, AdvanceOK
<1>10. CASE CallBlock(t)
  <2>1. sm' = [sm EXCEPT !.scanBlocked = task[t].blocked] /\ Advance(t)
    BY <1>10 DEF CallBlock
  <2>2. task[t].blocked \in BOOLEAN
    BY <1>1 DEF CallsOK, Calls
  <2>3. Same(sm, sm')
    BY <1>1, <2>1, <2>2, FlagSame
  <2>. QED
    BY <1>1, <1>2, <1>4, <2>1, <2>3, AdvanceOK
<1>11. CASE CallFetch(t)
  <2>1. sm.waitq # <<>> /\ sm' = [sm EXCEPT !.waitq = Tail(@)] /\ (Return(t) \/ UNCHANGED task)
    BY <1>11 DEF CallFetch
  <2>2. /\ sm.waitq \in Seq([evt : Answers, reason : Args, up : BOOLEAN])
        /\ Len(sm.waitq) <= WaitSize
    BY <1>1 DEF Good, Machines
  <2>3. /\ Tail(sm.waitq) \in Seq([evt : Answers, reason : Args, up : BOOLEAN])
        /\ Len(Tail(sm.waitq)) <= WaitSize
    BY <2>1, <2>2, SizeAssumption
  <2>4. StepOK
    BY <1>5, <2>1, <2>3
  <2>5. UNCHANGED task => CallsOK'
    BY <1>1 DEF CallsOK, InCall
  <2>. QED
    BY <1>1, <2>1, <2>4, <2>5, ReturnOK
<1>12. CASE CallTimeout(t)
  <2> DEFINE d == [NoCall EXCEPT !.op = "disconnect", !.k = 1]
  <2>1. UNCHANGED sm /\ (Return(t) \/ task' = [task EXCEPT ![t] = d])
    BY <1>12 DEF CallTimeout
  <2>2. d \in Calls /\ d.op # "none" /\ d.k = 1
    BY DEF NoCall, Calls, Ops
  <2>3. CallOK(d)
    BY <2>2, FirstStepOK
  <2>. HIDE DEF d
  <2>. QED
    BY <1>1, <1>6, <2>1, <2>3, ReturnOK, CallsUpdate
<1>. QED
  BY <1>7, <1>8, <1>9, <1>10, <1>11, <1>12 DEF CallStep

\* A call begins.
LEMMA CallOKStep ==
  ASSUME WifiInv, NEW t \in Tasks, NEW r \in Requests, Call(t, r)
  PROVE  StepOK /\ CallsOK'
<1> DEFINE c == [Begins(r) EXCEPT !.k = 1]
<1>1. r \in [op : Ops, blocked : BOOLEAN, k : {0}]
  BY RequestAssumption
<1>2. c \in Calls /\ c.op # "none" /\ c.k = 1
  BY <1>1 DEF Begins, Calls, Ops
<1>3. CallOK(c)
  BY <1>2, FirstStepOK
<1>4. task' = [task EXCEPT ![t] = c] /\ UNCHANGED <<sm, mac>>
  BY DEF Call
<1>. HIDE DEF c
<1>. QED
  BY <1>3, <1>4, CallsUpdate DEF WifiInv, StepOK, Commanded

-----------------------------------------------------------------------------
(* Theorems                                                                 *)

LEMMA InitInv == Init => WifiInv
<1> SUFFICES ASSUME Init PROVE WifiInv
  OBVIOUS
<1> DEFINE Queue(auto) == IF auto THEN <<Msg("AUTO_CONNECT_CMD", "zero")>> ELSE <<>>
           w == <<[evt |-> "DISCONN_DONE", reason |-> "zero", up |-> FALSE]>>
           First(q) == [type |-> "STA", st |-> "IDLE", retry |-> RetryLimit - 1,
                        delayed |-> FALSE, scanBlocked |-> FALSE, connBlocked |-> FALSE,
                        preroam |-> FALSE, pollScan |-> FALSE, polls |-> 0,
                        timers |-> {}, links |-> 0, lost |-> FALSE, fall |-> FALSE,
                        lacks |-> "nothing", waitq |-> w, queue |-> q]
<1>1. PICK auto \in BOOLEAN : sm = First(Queue(auto))
  BY DEF Init
<1> DEFINE q == Queue(auto)
<1>2. Msg("AUTO_CONNECT_CMD", "zero") \in Messages
      /\ Msg("AUTO_CONNECT_CMD", "zero").ev # "DHCP_START"
  BY DEF Msg, Messages, Events, Args
<1>3. /\ q \in Seq(Messages) /\ Len(q) <= QSize
      /\ \A i \in 1..Len(q) : q[i].ev # "DHCP_START"
  BY <1>2, SizeAssumption
<1>4. w \in Seq([evt : Answers, reason : Args, up : BOOLEAN]) /\ Len(w) <= WaitSize
  BY SizeAssumption DEF Answers, Args
<1>5. sm = First(q)
  BY <1>1
<1>. HIDE DEF q, w
<1>6. RetryLimit - 1 \in Int /\ RetryLimit - 1 >= 0
  BY LimitAssumption
<1>7. /\ sm \in Machines /\ sm.queue = q /\ sm.waitq = w /\ sm.st = "IDLE"
      /\ sm.type = "STA" /\ sm.retry >= 0 /\ sm.timers = {} /\ sm.links = 0
  BY <1>3, <1>4, <1>6, <1>5 DEF Machines, StaStates, Modes
<1>8. Good(sm)
  BY <1>3, <1>4, <1>7 DEF Good
<1>9. mac \in MacStates /\ mac.link = "none"
  BY DEF Init, MacStates
<1>10. Full(sm, mac)
  BY <1>3, <1>7, <1>8, <1>9 DEF Full, Half, QueueTold, StateTold
<1>11. CallsOK
  BY DEF Init, CallsOK, InCall, NoCall, Calls
<1>. QED
  BY <1>10, <1>11 DEF WifiInv

LEMMA NextInv ==
  ASSUME WifiInv, [Next]_vars
  PROVE  WifiInv' /\ Commanded
<1>1. Full(sm, mac) /\ CallsOK
  BY DEF WifiInv
<1>2. UNCHANGED task => CallsOK'
  BY <1>1 DEF CallsOK, InCall
<1>3. CASE Mgmt
  <2>1. StepOK
    BY <1>1, <1>3, DispatchStep, TimerStep DEF Mgmt
  <2>2. UNCHANGED task
    BY <1>3 DEF Mgmt, Dispatch, ScanCmd, ConnectCmdIdle, ConnectCmdConnected, AutoConnectCmd,
       LinkIsOngoing, DisconnectCmd, ConnectFailScan, ScanDoneScan, ScanFailScan, AttemptFails,
       AssocSuccess, DhcpStart, DhcpSuccess, ScanDone, ScanDoneConnected, ScanDoneFallThrough,
       ScanFail, LinkLost, RoamingStart, SwitchMode, StartCmd, Ignored, DhcpPolling,
       LinkStatusPolling, ConnectRetry, Event, Quiet
  <2>. QED
    BY <1>2, <2>1, <2>2 DEF StepOK, WifiInv
<1>4. CASE Mac
  <2>1. UNCHANGED task
    BY <1>4 DEF Mac, MacScanEnd, MacJoin, MacHandshake, HandshakeFails, MacLeft, MacDrop,
       SaQueryFails, MacRoam, Quiet
  <2>. QED
    BY <1>1, <1>2, <1>4, <2>1, MacStep DEF StepOK, WifiInv
<1>5. CASE \E t \in Tasks : CallStep(t) \/ \E r \in Requests : Call(t, r)
  BY <1>5, CallStepOK, CallOKStep DEF StepOK, WifiInv
<1>6. CASE UNCHANGED vars
  BY <1>1, <1>2, <1>6 DEF vars, WifiInv, Commanded
<1>. QED
  BY <1>3, <1>4, <1>5, <1>6 DEF Next

\* The types: for every size of the queues no step overruns them, and no call is
\* ever past its last step.
THEOREM WifiTypes == Spec => []TypeOK
<1>1. WifiInv => TypeOK
  BY DEF WifiInv, Full, Half, Good, CallsOK, TypeOK
<1>2. WifiInv /\ [Next]_vars => WifiInv'
  BY NextInv
<1>. QED
  BY <1>1, <1>2, InitInv, PTL DEF Spec

\* retry_count, which mgmt_connect_retry decrements without a test, never wraps,
\* whatever mixture of failures, stale events, roaming and calls precedes.
THEOREM RetryNeverWraps == Spec => []RetryBacked
<1>1. WifiInv => RetryBacked
  BY DEF WifiInv, Full, Half, Good, RetryBacked
<1>2. WifiInv /\ [Next]_vars => WifiInv'
  BY NextInv
<1>. QED
  BY <1>1, <1>2, InitInv, PTL DEF Spec

\* The polling timeouts are cancelled on every way out of the states they serve.
THEOREM PollsEnd == Spec => []PollsEndWithState
<1>1. WifiInv => PollsEndWithState
  BY DEF WifiInv, Full, Half, Good, PollsEndWithState
<1>2. WifiInv /\ [Next]_vars => WifiInv'
  BY NextInv
<1>. QED
  BY <1>1, <1>2, InitInv, PTL DEF Spec

\* An interface that is down has no timer, no polling and no link of its own.
THEOREM DownStaysQuiet == Spec => []DownIsQuiet
<1>1. WifiInv => DownIsQuiet
  BY DEF WifiInv, Full, Half, Good, Machines, DownIsQuiet, Up
<1>2. WifiInv /\ [Next]_vars => WifiInv'
  BY NextInv
<1>. QED
  BY <1>1, <1>2, InitInv, PTL DEF Spec

\* A connected station has a link, or will be told that it has lost it, however
\* many events of earlier links are still in the queue.
THEOREM ConnectedIsBacked == Spec => []ConnectedMeansLink
<1>1. WifiInv => ConnectedMeansLink
  BY DEF WifiInv, Full, StateTold, Told, ConnectedMeansLink, Queued
<1>2. WifiInv /\ [Next]_vars => WifiInv'
  BY NextInv
<1>. QED
  BY <1>1, <1>2, InitInv, PTL DEF Spec

\* Only a connect command takes an interface that is down up again.
THEOREM UpByCommand == Spec => OnlyCommandsConnect
<1>1. WifiInv /\ [Next]_vars
      => WifiInv' /\ [sm.st \notin Up /\ sm'.st \in Up
                      => sm.queue # <<>> /\ msg.ev \in {"CONNECT_CMD", "AUTO_CONNECT_CMD"}]_vars
  BY NextInv DEF Commanded
<1>. QED
  BY <1>1, InitInv, PTL DEF Spec, OnlyCommandsConnect
=============================================================================
