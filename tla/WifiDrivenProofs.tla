-------------------------- MODULE WifiDrivenProofs --------------------------
(***************************************************************************)
(* An attempt to connect never waits for something that will not come, for *)
(* every queue size, limit and set of tasks and calls.  Three things are   *)
(* needed beside the property itself.  An ASSOC_SUCCESS in the queue, which *)
(* leads to HANDSHAKE whenever it is taken, is about the link that is still *)
(* joined or leaving, or an event that ends HANDSHAKE is queued behind it.  *)
(* In CONNECT and HANDSHAKE a link that is leaving was there before the     *)
(* attempt, so that the failure of the attempt is in the queue.  And a full *)
(* queue is admitted to lose events (field "lost"), a scan to be skipped and *)
(* a timer to be refused (field "lacks").                                   *)
(***************************************************************************)
EXTENDS WifiManagementProofs

Has(q, evs) == \E i \in 1..Len(q) : q[i].ev \in evs

ScanEnds == {"SCAN_DONE", "SCAN_FAIL"}
Failures == {"CONNECT_FAIL", "DISCONNECT"}
HandshakeEnds == Failures \cup {"DHCP_START"}
DhcpEnds == {"DHCP_SUCCESS", "DHCP_FAIL"}

AssocTold(q, link) ==
    \A i \in 1..Len(q) : q[i].ev = "ASSOC_SUCCESS" =>
        \/ link \in {"joined", "leaving"}
        \/ \E j \in (i + 1)..Len(q) : q[j].ev \in HandshakeEnds

Live(s, m) ==
    /\ s.st = "SCAN" => \/ m.scan \/ Has(s.queue, ScanEnds)
                        \/ "retry" \in s.timers \/ s.lacks # "nothing"
    /\ s.st = "CONNECT" => \/ m.link = "joining" \/ "retry" \in s.timers
                           \/ Has(s.queue, Failures \cup {"ASSOC_SUCCESS"})
    /\ s.st = "HANDSHAKE" => \/ m.link = "joined" \/ "retry" \in s.timers
                             \/ Has(s.queue, HandshakeEnds)
    /\ s.st = "DHCP" => \/ "dhcp" \in s.timers \/ Has(s.queue, DhcpEnds)
                        \/ s.lacks = "timer"
    /\ s.st \in {"CONNECT", "HANDSHAKE"} /\ m.link = "leaving" =>
         Has(s.queue, Failures)

QueueInv(s, m) == s.lost \/ AssocTold(s.queue, m.link)
DriveInv(s, m) == QueueInv(s, m) /\ (s.lost \/ Live(s, m))

\* The step from s to u touches nothing that an attempt depends on.
Kept(s, u) ==
    /\ u \in Machines
    /\ u.st = s.st /\ u.delayed = s.delayed /\ u.timers = s.timers /\ u.lacks = s.lacks
    /\ u.lost = s.lost /\ u.queue = s.queue

\* The step from s to u loses no event unnoticed.
Carries(s, u) ==
    /\ u \in Machines
    /\ s.lost => u.lost
    /\ \/ u.lost
       \/ /\ \A evs : Has(s.queue, evs) => Has(u.queue, evs)
          /\ \A link : AssocTold(s.queue, link) => AssocTold(u.queue, link)

-----------------------------------------------------------------------------
(* Queues                                                                   *)

\* A message is added at the end.
LEMMA AppendHas ==
  ASSUME NEW q \in Seq(Messages), NEW x \in Messages
  PROVE  /\ \A evs : Has(q, evs) => Has(Append(q, x), evs)
         /\ \A evs : x.ev \in evs => Has(Append(q, x), evs)
<1>1. /\ Len(Append(q, x)) = Len(q) + 1 /\ Append(q, x)[Len(q) + 1] = x
      /\ Len(q) \in Nat /\ \A i \in 1..Len(q) : Append(q, x)[i] = q[i]
  OBVIOUS
<1>. QED
  BY <1>1 DEF Has

\* An event behind every ASSOC_SUCCESS tells all of them off; any other event
\* than one more ASSOC_SUCCESS does no harm.
LEMMA AppendAssoc ==
  ASSUME NEW q \in Seq(Messages), NEW x \in Messages
  PROVE  /\ \A link : x.ev # "ASSOC_SUCCESS" /\ AssocTold(q, link)
                      => AssocTold(Append(q, x), link)
         /\ \A link : x.ev \in HandshakeEnds => AssocTold(Append(q, x), link)
         /\ AssocTold(Append(q, x), "joined")
<1> DEFINE r == Append(q, x)
<1>1. /\ Len(r) = Len(q) + 1 /\ r[Len(q) + 1] = x /\ Len(q) \in Nat
      /\ \A i \in 1..Len(q) : r[i] = q[i]
  OBVIOUS
<1>. HIDE DEF r
<1>2. ASSUME NEW link, x.ev # "ASSOC_SUCCESS", AssocTold(q, link)
      PROVE  AssocTold(r, link)
  <2>1. ASSUME NEW i \in 1..Len(r), r[i].ev = "ASSOC_SUCCESS",
               ~(link \in {"joined", "leaving"})
        PROVE  \E j \in (i + 1)..Len(r) : r[j].ev \in HandshakeEnds
    <3>1. i \in 1..Len(q) /\ q[i].ev = "ASSOC_SUCCESS"
      BY <1>1, <1>2, <2>1
    <3>2. PICK j \in (i + 1)..Len(q) : q[j].ev \in HandshakeEnds
      BY <1>2, <2>1, <3>1 DEF AssocTold
    <3>3. j \in (i + 1)..Len(r) /\ j \in 1..Len(q)
      BY <1>1, <3>1, <3>2
    <3>. QED
      BY <1>1, <3>2, <3>3
  <2>. QED
    BY <2>1 DEF AssocTold
<1>3. ASSUME NEW link, x.ev \in HandshakeEnds
      PROVE  AssocTold(r, link)
  <2>1. ASSUME NEW i \in 1..Len(r), r[i].ev = "ASSOC_SUCCESS"
        PROVE  \E j \in (i + 1)..Len(r) : r[j].ev \in HandshakeEnds
    <3>1. i # Len(q) + 1
      BY <1>1, <1>3, <2>1 DEF HandshakeEnds, Failures
    <3>2. Len(q) + 1 \in (i + 1)..Len(r)
      BY <1>1, <2>1, <3>1
    <3>. QED
      BY <1>1, <1>3, <3>2
  <2>. QED
    BY <2>1 DEF AssocTold
<1>4. AssocTold(r, "joined")
  BY DEF AssocTold
<1>. QED
  BY <1>2, <1>3, <1>4 DEF r

\* The first message is taken.
LEMMA TailHas ==
  ASSUME NEW q \in Seq(Messages), q # <<>>
  PROVE  /\ \A evs : Has(q, evs) /\ Head(q).ev \notin evs => Has(Tail(q), evs)
         /\ \A link : AssocTold(q, link) => AssocTold(Tail(q), link)
         /\ \A link : AssocTold(q, link) /\ Head(q).ev = "ASSOC_SUCCESS"
                      => link \in {"joined", "leaving"} \/ Has(Tail(q), HandshakeEnds)
<1> DEFINE r == Tail(q)
<1>1. /\ Len(r) = Len(q) - 1 /\ Len(q) \in Nat /\ Len(q) > 0 /\ Head(q) = q[1]
      /\ \A i \in 1..Len(r) : r[i] = q[i + 1]
  OBVIOUS
<1>. HIDE DEF r
<1>2. ASSUME NEW evs, NEW i \in 1..Len(q), q[i].ev \in evs, i # 1
      PROVE  i - 1 \in 1..Len(r) /\ r[i - 1] = q[i]
  <2>1. i - 1 \in 1..Len(r) /\ (i - 1) + 1 = i
    BY <1>1, <1>2
  <2>. QED
    BY <1>1, <2>1
<1>3. ASSUME NEW evs, Has(q, evs), Head(q).ev \notin evs
      PROVE  Has(r, evs)
  BY <1>1, <1>2, <1>3 DEF Has
<1>4. ASSUME NEW link, AssocTold(q, link), NEW i \in 0..Len(r),
             q[i + 1].ev = "ASSOC_SUCCESS", ~(link \in {"joined", "leaving"})
      PROVE  \E j \in (i + 1)..Len(r) : r[j].ev \in HandshakeEnds
  <2>1. i + 1 \in 1..Len(q)
    BY <1>1, <1>4
  <2>2. PICK j \in ((i + 1) + 1)..Len(q) : q[j].ev \in HandshakeEnds
    BY <1>4, <2>1 DEF AssocTold
  <2>3. j - 1 \in (i + 1)..Len(r) /\ (j - 1) + 1 = j /\ j - 1 \in 1..Len(r)
    BY <1>1, <1>4, <2>2
  <2>4. r[j - 1] = q[j]
    BY <1>1, <2>3
  <2>. QED
    BY <2>2, <2>3, <2>4
<1>5. ASSUME NEW link, AssocTold(q, link)
      PROVE  AssocTold(r, link)
  <2>1. ASSUME NEW i \in 1..Len(r), r[i].ev = "ASSOC_SUCCESS",
               ~(link \in {"joined", "leaving"})
        PROVE  \E j \in (i + 1)..Len(r) : r[j].ev \in HandshakeEnds
    BY <1>1, <1>4, <1>5, <2>1
  <2>. QED
    BY <2>1 DEF AssocTold
<1>6. ASSUME NEW link, AssocTold(q, link), Head(q).ev = "ASSOC_SUCCESS",
             ~(link \in {"joined", "leaving"})
      PROVE  Has(r, HandshakeEnds)
  <2>1. 0 \in 0..Len(r) /\ q[0 + 1].ev = "ASSOC_SUCCESS"
    BY <1>1, <1>6
  <2>2. \E j \in (0 + 1)..Len(r) : r[j].ev \in HandshakeEnds
    BY <1>4, <1>6, <2>1
  <2>. QED
    BY <2>2 DEF Has
<1>. QED
  BY <1>3, <1>5, <1>6 DEF r

-----------------------------------------------------------------------------
(* Helpers of the state machine                                             *)

LEMMA KeptTrans ==
  ASSUME NEW s, NEW u, NEW v, Kept(s, u), Kept(u, v)
  PROVE  Kept(s, v)
BY DEF Kept

LEMMA KeptCarries ==
  ASSUME NEW s, NEW u, Kept(s, u)
  PROVE  Carries(s, u)
BY DEF Kept, Carries

LEMMA CarriesTrans ==
  ASSUME NEW s, NEW u, NEW v, Carries(s, u), Carries(u, v)
  PROVE  Carries(s, v)
BY DEF Carries

LEMMA CarriesQueue ==
  ASSUME NEW s, NEW u, NEW m, Carries(s, u), QueueInv(s, m)
  PROVE  QueueInv(u, m)
BY DEF Carries, QueueInv

\* An attempt stays driven while its state, its timers and its events stay.
LEMMA CarriesDrive ==
  ASSUME NEW s, NEW u, NEW m, Carries(s, u), DriveInv(s, m),
         u.st = s.st, u.lacks = s.lacks, u.timers = s.timers
  PROVE  DriveInv(u, m)
<1>1. QueueInv(u, m)
  BY CarriesQueue DEF DriveInv
<1>2. u.lost \/ Live(u, m)
  BY DEF Carries, DriveInv, Live
<1>. QED
  BY <1>1, <1>2 DEF DriveInv

LEMMA KeptDrive ==
  ASSUME NEW s, NEW u, NEW m, Kept(s, u), DriveInv(s, m)
  PROVE  DriveInv(u, m)
BY KeptCarries, CarriesDrive DEF Kept

\* In a state outside an attempt nothing is awaited.
LEMMA RestingDrive ==
  ASSUME NEW u, NEW m, u.st \notin Attempt, QueueInv(u, m)
  PROVE  DriveInv(u, m)
BY DEF DriveInv, Live, Attempt

LEMMA FlagKept ==
  ASSUME NEW s \in Machines, NEW b \in BOOLEAN
  PROVE  /\ Kept(s, s)
         /\ Kept(s, [s EXCEPT !.connBlocked = b])
         /\ Kept(s, [s EXCEPT !.scanBlocked = b])
         /\ Kept(s, [s EXCEPT !.preroam = b])
         /\ Kept(s, [s EXCEPT !.pollScan = b])
         /\ Kept(s, [s EXCEPT !.fall = b])
<1> USE DEF Kept, Machines
<1>1. Kept(s, s)
  OBVIOUS
<1>2. Kept(s, [s EXCEPT !.connBlocked = b])
  OBVIOUS
<1>3. Kept(s, [s EXCEPT !.scanBlocked = b])
  OBVIOUS
<1>4. Kept(s, [s EXCEPT !.preroam = b])
  OBVIOUS
<1>5. Kept(s, [s EXCEPT !.pollScan = b])
  OBVIOUS
<1>6. Kept(s, [s EXCEPT !.fall = b])
  OBVIOUS
<1>. QED
  BY <1>1, <1>2, <1>3, <1>4, <1>5, <1>6

LEMMA CountKept ==
  ASSUME NEW s \in Machines, NEW n \in Nat
  PROVE  /\ Kept(s, [s EXCEPT !.retry = n])
         /\ Kept(s, [s EXCEPT !.links = n])
<1>1. n \in Int
  OBVIOUS
<1>2. Kept(s, [s EXCEPT !.retry = n])
  BY <1>1 DEF Kept, Machines
<1>3. Kept(s, [s EXCEPT !.links = n])
  BY DEF Kept, Machines
<1>. QED
  BY <1>2, <1>3

LEMMA WaitqKept ==
  ASSUME NEW s \in Machines,
         NEW w \in Seq([evt : Answers, reason : Args, up : BOOLEAN])
  PROVE  Kept(s, [s EXCEPT !.waitq = w])
BY DEF Kept, Machines

LEMMA RetryParamKept ==
  ASSUME NEW s \in Machines
  PROVE  Kept(s, RetryParamSet(s))
<1>1. RetryLimit - 1 \in Nat
  BY LimitAssumption
<1>. QED
  BY <1>1, CountKept DEF RetryParamSet

LEMMA PostKept ==
  ASSUME NEW s \in Machines, NEW evt \in Answers, NEW reason \in Args
  PROVE  Kept(s, Post(s, evt, reason))
<1> DEFINE a == [evt |-> evt, reason |-> reason, up |-> s.st = "CONNECTED"]
           w == Append(s.waitq, a)
<1>1. a \in [evt : Answers, reason : Args, up : BOOLEAN]
  OBVIOUS
<1>. HIDE DEF a
<1>2. w \in Seq([evt : Answers, reason : Args, up : BOOLEAN])
  BY <1>1 DEF Machines
<1>. HIDE DEF w
<1>3. Kept(s, [s EXCEPT !.waitq = w])
  BY <1>2, WaitqKept
<1>4. Kept(s, s)
  BY FlagKept
<1>5. Post(s, evt, reason) = IF Len(s.waitq) < WaitSize THEN [s EXCEPT !.waitq = w] ELSE s
  BY DEF Post, w, a
<1>. QED
  BY <1>3, <1>4, <1>5

LEMMA DoneKept ==
  ASSUME NEW s \in Machines, NEW reason \in Args
  PROVE  Kept(s, PostConnDone(s, reason)) /\ Kept(s, PostScanDone(s, reason))
<1> DEFINE c == [s EXCEPT !.connBlocked = FALSE]
           d == [s EXCEPT !.scanBlocked = FALSE]
<1>1. Kept(s, c) /\ Kept(s, d) /\ Kept(s, s)
  BY FlagKept
<1>2. c \in Machines /\ d \in Machines
  BY <1>1 DEF Kept
<1>3. {"CONN_DONE", "SCAN_DONE"} \subseteq Answers
  BY DEF Answers
<1>. HIDE DEF c, d
<1>4. Kept(c, Post(c, "CONN_DONE", reason)) /\ Kept(d, Post(d, "SCAN_DONE", reason))
  BY <1>2, <1>3, PostKept
<1>5. Kept(s, Post(c, "CONN_DONE", reason)) /\ Kept(s, Post(d, "SCAN_DONE", reason))
  BY <1>1, <1>4, KeptTrans
<1>. QED
  BY <1>1, <1>5 DEF PostConnDone, PostScanDone, c, d

\* A message is queued or admitted to be lost.
LEMMA SendQueue ==
  ASSUME NEW s \in Machines, NEW x \in Messages
  PROVE  LET u == Send(s, x)
         IN  /\ u \in Machines
             /\ u.st = s.st /\ u.delayed = s.delayed /\ u.timers = s.timers /\ u.lacks = s.lacks
             /\ s.lost => u.lost
             /\ u.lost \/ u.queue = Append(s.queue, x)
<1>1. CASE Len(s.queue) < QSize
  <2> DEFINE q == Append(s.queue, x)
             u == [s EXCEPT !.queue = q]
  <2>1. q \in Seq(Messages)
    BY DEF Machines
  <2>. HIDE DEF q
  <2>2. /\ u \in Machines /\ u.st = s.st /\ u.delayed = s.delayed
        /\ u.lacks = s.lacks /\ u.timers = s.timers /\ u.lost = s.lost /\ u.queue = q
    BY <2>1 DEF Machines
  <2>3. Send(s, x) = u
    BY <1>1 DEF Send, q
  <2>. HIDE DEF u
  <2>. QED
    BY <2>2, <2>3 DEF q
<1>2. CASE ~(Len(s.queue) < QSize)
  BY <1>2 DEF Send, Machines
<1>. QED
  BY <1>1, <1>2

LEMMA SendCarries ==
  ASSUME NEW s \in Machines, NEW x \in Messages, x.ev # "ASSOC_SUCCESS"
  PROVE  LET u == Send(s, x)
         IN  /\ Carries(s, u)
             /\ u.st = s.st /\ u.delayed = s.delayed /\ u.timers = s.timers /\ u.lacks = s.lacks
             /\ u.lost \/ \A evs : x.ev \in evs => Has(u.queue, evs)
<1> DEFINE u == Send(s, x)
<1>1. /\ u \in Machines
      /\ u.st = s.st /\ u.delayed = s.delayed /\ u.timers = s.timers /\ u.lacks = s.lacks
      /\ s.lost => u.lost
      /\ u.lost \/ u.queue = Append(s.queue, x)
  BY SendQueue
<1>2. s.queue \in Seq(Messages)
  BY DEF Machines
<1>. HIDE DEF u
<1>3. /\ \A evs : Has(s.queue, evs) => Has(Append(s.queue, x), evs)
      /\ \A evs : x.ev \in evs => Has(Append(s.queue, x), evs)
  BY <1>2, AppendHas
<1>4. \A link : AssocTold(s.queue, link) => AssocTold(Append(s.queue, x), link)
  BY <1>2, AppendAssoc
<1>5. Carries(s, u)
  BY <1>1, <1>3, <1>4 DEF Carries
<1>6. u.lost \/ \A evs : x.ev \in evs => Has(u.queue, evs)
  BY <1>1, <1>3
<1>. QED
  BY <1>1, <1>5, <1>6 DEF u

LEMMA OwnEvents ==
  /\ RoamMsg \in Messages /\ RoamMsg.ev = "CONNECT_CMD"
  /\ \A ev \in {"SCAN_DONE", "SCAN_FAIL", "CONNECT_FAIL", "CONNECT_SUCCESS",
                 "DHCP_START", "DHCP_SUCCESS", "DHCP_FAIL", "ASSOC_SUCCESS",
                 "DISCONNECT", "ROAMING_START"},
        arg \in {"zero", "fail", "lost", "other", "saquery"} :
       Msg(ev, arg) \in Messages /\ Msg(ev, arg).ev = ev
BY DEF RoamMsg, Msg, Messages, Events, Args

LEMMA RollbackCarries ==
  ASSUME NEW s \in Machines
  PROVE  Carries(s, Rollback(s))
<1> DEFINE c == [s EXCEPT !.preroam = FALSE]
<1>1. Kept(s, c) /\ Kept(s, s)
  BY FlagKept
<1>2. c \in Machines
  BY <1>1 DEF Kept
<1>. HIDE DEF c
<1>3. Carries(c, Send(c, RoamMsg))
  BY <1>2, SendCarries, OwnEvents
<1>4. Carries(s, Send(c, RoamMsg))
  BY <1>1, <1>3, KeptCarries, CarriesTrans
<1>. QED
  BY <1>1, <1>4, KeptCarries DEF Rollback, c

-----------------------------------------------------------------------------
(* State entries and the link                                               *)

LEMMA MacQueue ==
  ASSUME NEW s, NEW m \in MacStates, QueueInv(s, m)
  PROVE  QueueInv(s, Disconnected(m))
<1>1. m.link \in {"joined", "leaving"} => Disconnected(m).link = "leaving"
  BY DEF Disconnected, MacStates
<1>. QED
  BY <1>1 DEF QueueInv, AssocTold

LEMMA MacScanLink ==
  ASSUME mac \in MacStates, NEW ok \in BOOLEAN
  PROVE  /\ MacScan(ok) \in MacStates /\ MacScan(ok).link = mac.link
         /\ ok => MacScan(ok).scan
         /\ mac.scan => MacScan(ok).scan
BY DEF MacScan, MacStates

\* One more scan does no harm to an attempt.
LEMMA MacScanDrive ==
  ASSUME mac \in MacStates, NEW ok \in BOOLEAN, NEW s
  PROVE  /\ QueueInv(s, mac) => QueueInv(s, MacScan(ok))
         /\ DriveInv(s, mac) => DriveInv(s, MacScan(ok))
BY MacScanLink DEF QueueInv, DriveInv, Live

LEMMA EnterIdleCarries ==
  ASSUME NEW s \in Machines
  PROVE  /\ Carries(s, EnterIdle(s)) /\ EnterIdle(s).st = "IDLE"
         /\ EnterIdle(s).delayed = FALSE
<1> DEFINE e == [s EXCEPT !.st = "IDLE", !.delayed = FALSE, !.timers = {}, !.links = 0,
                          !.lacks = "nothing"]
<1>1. /\ e \in Machines /\ e.st = "IDLE" /\ e.queue = s.queue /\ e.lost = s.lost
      /\ e.delayed = FALSE
  BY DEF Machines, StaStates
<1>. HIDE DEF e
<1>2. Carries(s, e)
  BY <1>1 DEF Carries
<1>3. Kept(e, Post(e, "DISCONN_DONE", "zero"))
  BY <1>1, PostKept DEF Answers, Args
<1>. QED
  BY <1>1, <1>2, <1>3, KeptCarries, CarriesTrans DEF EnterIdle, e, Kept

LEMMA GiveUpCarries ==
  ASSUME NEW s \in Machines, msg.arg \in Args
  PROVE  Carries(s, GiveUp(s)) /\ GiveUp(s).st = "IDLE"
<1> DEFINE r == Rollback(s)
           p == PostConnDone(r, msg.arg)
<1>1. Carries(s, r) /\ r \in Machines
  BY RollbackCarries DEF Carries
<1>. HIDE DEF r
<1>2. Carries(r, p) /\ p \in Machines
  BY <1>1, DoneKept, KeptCarries DEF Carries
<1>. HIDE DEF p
<1>3. Carries(p, EnterIdle(p)) /\ EnterIdle(p).st = "IDLE"
  BY <1>2, EnterIdleCarries
<1>4. Carries(s, EnterIdle(p))
  BY <1>1, <1>2, <1>3, CarriesTrans
<1>. QED
  BY <1>3, <1>4 DEF GiveUp, p, r

\* SCAN is entered with a scan, a delay, or SCAN_FAIL in the queue.
LEMMA EnterScanDrive ==
  ASSUME NEW s \in Machines, NEW m, NEW ok \in BOOLEAN, QueueInv(s, m),
         ok => m.scan \/ s.delayed
  PROVE  DriveInv(EnterScan(s, ok), m) /\ EnterScan(s, ok) \in Machines
<1> DEFINE e == [s EXCEPT !.st = "SCAN", !.timers = @ \ {"dhcp"}, !.links = 0,
                          !.lacks = IF s.delayed THEN "scan" ELSE "nothing"]
           f == Send(e, Msg("SCAN_FAIL", "zero"))
<1>1. /\ e \in Machines /\ e.st = "SCAN" /\ e.queue = s.queue /\ e.lost = s.lost
      /\ e.delayed = s.delayed /\ (s.delayed => e.lacks = "scan")
  BY DEF Machines, StaStates
<1>. HIDE DEF e
<1>2. QueueInv(e, m)
  BY <1>1 DEF QueueInv
<1>3. /\ Carries(e, f) /\ f \in Machines /\ f.st = "SCAN"
      /\ f.lost \/ Has(f.queue, ScanEnds)
  <2>1. Msg("SCAN_FAIL", "zero") \in Messages /\ Msg("SCAN_FAIL", "zero").ev = "SCAN_FAIL"
    BY OwnEvents
  <2>2. /\ Carries(e, f) /\ f.st = "SCAN"
        /\ f.lost \/ \A evs : "SCAN_FAIL" \in evs => Has(f.queue, evs)
    BY <1>1, <2>1, SendCarries
  <2>. HIDE DEF f
  <2>. QED
    BY <2>2 DEF ScanEnds, Carries
<1>4. QueueInv(f, m)
  BY <1>2, <1>3, CarriesQueue
<1>. HIDE DEF f
<1>5. DriveInv(f, m)
  BY <1>3, <1>4 DEF DriveInv, Live
<1>6. e.delayed \/ ok => DriveInv(e, m)
  BY <1>1, <1>2 DEF DriveInv, Live
<1>7. EnterScan(s, ok) = IF e.delayed \/ ok THEN e ELSE f
  BY DEF EnterScan, e, f
<1>. QED
  BY <1>1, <1>3, <1>5, <1>6, <1>7

\* CONNECT is entered with a link coming up or CONNECT_FAIL in the queue.
LEMMA EnterConnectDrive ==
  ASSUME NEW s \in Machines, NEW m, NEW ok \in BOOLEAN, QueueInv(s, m),
         ok => m.link = "joining"
  PROVE  DriveInv(EnterConnect(s, ok), m)
<1> DEFINE e == [s EXCEPT !.st = "CONNECT", !.lacks = "nothing"]
           f == Send(e, Msg("CONNECT_FAIL", "fail"))
<1>1. /\ e \in Machines /\ e.st = "CONNECT" /\ e.queue = s.queue /\ e.lost = s.lost
  BY DEF Machines, StaStates
<1>. HIDE DEF e
<1>2. QueueInv(e, m)
  BY <1>1 DEF QueueInv
<1>3. /\ Carries(e, f) /\ f.st = "CONNECT"
      /\ \/ f.lost
         \/ Has(f.queue, Failures) /\ Has(f.queue, Failures \cup {"ASSOC_SUCCESS"})
  <2>1. /\ Msg("CONNECT_FAIL", "fail") \in Messages
        /\ Msg("CONNECT_FAIL", "fail").ev = "CONNECT_FAIL"
    BY OwnEvents
  <2>2. /\ Carries(e, f) /\ f.st = "CONNECT"
        /\ f.lost \/ \A evs : "CONNECT_FAIL" \in evs => Has(f.queue, evs)
    BY <1>1, <2>1, SendCarries
  <2>. HIDE DEF f
  <2>. QED
    BY <2>2 DEF Failures
<1>4. QueueInv(f, m)
  BY <1>2, <1>3, CarriesQueue
<1>. HIDE DEF f
<1>5. DriveInv(f, m)
  BY <1>3, <1>4 DEF DriveInv, Live
<1>6. ok => DriveInv(e, m)
  BY <1>1, <1>2 DEF DriveInv, Live
<1>7. EnterConnect(s, ok) = IF ok THEN e ELSE f
  BY DEF EnterConnect, e, f
<1>. QED
  BY <1>5, <1>6, <1>7

LEMMA EnterConnectedCarries ==
  ASSUME NEW s \in Machines
  PROVE  Carries(s, EnterConnected(s)) /\ EnterConnected(s).st = "CONNECTED"
<1> DEFINE e == [s EXCEPT !.st = "CONNECTED"]
           d == IF e.connBlocked THEN PostConnDone(e, "zero")
                                 ELSE Send(e, Msg("CONNECT_SUCCESS", "zero"))
<1>1. /\ e \in Machines /\ e.st = "CONNECTED" /\ e.queue = s.queue /\ e.lost = s.lost
  BY DEF Machines, StaStates
<1>. HIDE DEF e
<1>2. Carries(s, e)
  BY <1>1 DEF Carries
<1>3. LET p == PostConnDone(e, "zero") IN Carries(e, p) /\ p.st = "CONNECTED"
  <2>1. "zero" \in Args
    BY DEF Args
  <2>2. Kept(e, PostConnDone(e, "zero"))
    BY <1>1, <2>1, DoneKept
  <2>. QED
    BY <1>1, <2>2, KeptCarries DEF Kept
<1>4. LET p == Send(e, Msg("CONNECT_SUCCESS", "zero"))
      IN  Carries(e, p) /\ p.st = "CONNECTED"
  <2>1. /\ Msg("CONNECT_SUCCESS", "zero") \in Messages
        /\ Msg("CONNECT_SUCCESS", "zero").ev # "ASSOC_SUCCESS"
    BY OwnEvents
  <2>. QED
    BY <1>1, <2>1, SendCarries
<1>5. Carries(e, d) /\ d.st = "CONNECTED" /\ d \in Machines
  BY <1>3, <1>4 DEF Carries
<1>. HIDE DEF d
<1>6. Kept(d, [d EXCEPT !.preroam = FALSE])
  BY <1>5, FlagKept
<1>7. /\ Carries(s, [d EXCEPT !.preroam = FALSE])
      /\ [d EXCEPT !.preroam = FALSE].st = "CONNECTED"
  BY <1>2, <1>5, <1>6, KeptCarries, CarriesTrans DEF Kept
<1>. QED
  BY <1>7 DEF EnterConnected, d, e

-----------------------------------------------------------------------------
(* The actions                                                              *)

\* The message taken is missed only by the state that it would have ended.
LEMMA RestDrive ==
  ASSUME sm \in Machines, DriveInv(sm, mac), sm.queue # <<>>
  PROVE  /\ Rest \in Machines
         /\ Rest.st = sm.st /\ Rest.delayed = sm.delayed /\ Rest.timers = sm.timers
         /\ Rest.lacks = sm.lacks
         /\ Rest.queue = Tail(sm.queue) /\ Rest.lost = sm.lost
         /\ msg \in Messages
         /\ QueueInv(Rest, mac)
         /\ /\ sm.st = "SCAN" => msg.ev \notin ScanEnds
            /\ sm.st = "CONNECT" => msg.ev \notin Failures \cup {"ASSOC_SUCCESS"}
            /\ sm.st = "HANDSHAKE" => msg.ev \notin HandshakeEnds
            /\ sm.st = "DHCP" => msg.ev \notin DhcpEnds
            => DriveInv(Rest, mac)
<1> DEFINE q == sm.queue
<1>1. q \in Seq(Messages) /\ q # <<>>
  BY DEF Machines
<1>2. msg \in Messages /\ Tail(q) \in Seq(Messages) /\ msg = Head(q)
  BY <1>1 DEF msg
<1>3. /\ Rest \in Machines /\ Rest.queue = Tail(q)
      /\ Rest.st = sm.st /\ Rest.delayed = sm.delayed /\ Rest.timers = sm.timers
         /\ Rest.lacks = sm.lacks
      /\ Rest.lost = sm.lost
  BY <1>2 DEF Rest, Machines
<1>4. /\ \A evs : Has(q, evs) /\ msg.ev \notin evs => Has(Tail(q), evs)
      /\ \A link : AssocTold(q, link) => AssocTold(Tail(q), link)
  BY <1>1, <1>2, TailHas
<1>5. QueueInv(Rest, mac)
  BY <1>3, <1>4 DEF DriveInv, QueueInv
<1>6. ASSUME /\ sm.st = "SCAN" => msg.ev \notin ScanEnds
             /\ sm.st = "CONNECT" => msg.ev \notin Failures \cup {"ASSOC_SUCCESS"}
             /\ sm.st = "HANDSHAKE" => msg.ev \notin HandshakeEnds
             /\ sm.st = "DHCP" => msg.ev \notin DhcpEnds
      PROVE  sm.lost \/ Live(Rest, mac)
  <2>1. sm.st \in {"CONNECT", "HANDSHAKE"} => msg.ev \notin Failures
    BY <1>6 DEF HandshakeEnds
  <2>. HIDE DEF q
  <2>. QED
    BY <1>3, <1>4, <1>6, <2>1 DEF DriveInv, Live, q
<1>. QED
  BY <1>2, <1>3, <1>5, <1>6 DEF DriveInv

LEMMA SetCfgKept ==
  ASSUME NEW s \in Machines
  PROVE  Kept(s, SetCfg(s))
BY FlagKept DEF SetCfg

\* Commands to the station.
LEMMA CommandDriven ==
  ASSUME sm \in Machines, mac \in MacStates, DriveInv(sm, mac),
         ScanCmd \/ ConnectCmdIdle \/ ConnectCmdConnected \/ AutoConnectCmd
         \/ LinkIsOngoing \/ DisconnectCmd
  PROVE  DriveInv(sm', mac')
<1>1. sm.queue # <<>>
  BY DEF ScanCmd, ConnectCmdIdle, ConnectCmdConnected, AutoConnectCmd, LinkIsOngoing,
         DisconnectCmd, Event
<1>2. /\ Rest \in Machines /\ Rest.st = sm.st /\ QueueInv(Rest, mac)
      /\ sm.st \in Attempt /\ msg.ev \in {"SCAN_CMD", "CONNECT_CMD"} => DriveInv(Rest, mac)
  BY <1>1, RestDrive DEF ScanEnds, Failures, HandshakeEnds, DhcpEnds
<1>. {"zero", "fail"} \subseteq Args /\ "DISCONN_DONE" \in Answers
  BY DEF Args, Answers
<1>3. Kept(Rest, SetCfg(Rest)) /\ SetCfg(Rest) \in Machines
  BY <1>2, SetCfgKept DEF Kept
<1>4. QueueInv(SetCfg(Rest), mac)
  BY <1>2, <1>3, KeptCarries, CarriesQueue
<1>5. CASE ScanCmd
  <2>1. PICK ok \in BOOLEAN : mac' = MacScan(ok)
                              /\ sm' = IF ok THEN Rest ELSE PostScanDone(Rest, "fail")
    BY <1>5 DEF ScanCmd
  <2>2. Kept(Rest, sm')
    BY <1>2, <2>1, DoneKept, FlagKept
  <2>3. QueueInv(sm', mac)
    BY <1>2, <2>2, KeptCarries, CarriesQueue
  <2>4. QueueInv(sm', mac')
    BY <2>1, <2>3, MacScanDrive
  <2>5. sm'.st \notin Attempt
    BY <1>2, <1>5, <2>2 DEF ScanCmd, Event, Kept, Attempt
  <2>. QED
    BY <2>4, <2>5, RestingDrive
<1>6. CASE ConnectCmdIdle
  <2> DEFINE s == RetryParamSet(SetCfg(Rest))
  <2>1. PICK ok \in BOOLEAN : mac' = MacScan(ok) /\ sm' = EnterScan(s, ok)
    BY <1>6 DEF ConnectCmdIdle
  <2>2. Kept(SetCfg(Rest), s) /\ s \in Machines
    BY <1>3, RetryParamKept DEF Kept
  <2>. HIDE DEF s
  <2>3. QueueInv(s, mac)
    BY <1>4, <2>2, KeptCarries, CarriesQueue
  <2>4. QueueInv(s, mac') /\ (ok => mac'.scan)
    BY <2>1, <2>3, MacScanDrive, MacScanLink
  <2>. QED
    BY <2>1, <2>2, <2>4, EnterScanDrive
<1>7. CASE ConnectCmdConnected
  <2> DEFINE i == EnterIdle(SetCfg(Rest))
             s == RetryParamSet(i)
  <2>1. PICK ok \in BOOLEAN : mac' = Disconnected(MacScan(ok)) /\ sm' = EnterScan(s, ok)
    BY <1>7 DEF ConnectCmdConnected
  <2>2. Carries(SetCfg(Rest), i) /\ i \in Machines
    BY <1>3, EnterIdleCarries DEF Carries
  <2>. HIDE DEF i
  <2>3. Carries(i, s) /\ s \in Machines
    BY <2>2, RetryParamKept, KeptCarries DEF Kept
  <2>. HIDE DEF s
  <2>4. QueueInv(s, mac)
    BY <1>4, <2>2, <2>3, CarriesTrans, CarriesQueue
  <2>5. MacScan(ok) \in MacStates /\ QueueInv(s, MacScan(ok)) /\ (ok => MacScan(ok).scan)
    BY <2>4, MacScanDrive, MacScanLink
  <2>6. QueueInv(s, mac') /\ (ok => mac'.scan)
    <3>1. mac'.scan = MacScan(ok).scan
      BY <2>1, <2>5 DEF Disconnected, MacStates
    <3>. QED
      BY <2>1, <2>5, <3>1, MacQueue
  <2>. QED
    BY <2>1, <2>3, <2>6, EnterScanDrive
<1>8. CASE AutoConnectCmd
  <2>1. CASE mac' = Disconnected(mac) /\ sm' = EnterIdle(Rest)
    <3>1. Carries(Rest, sm') /\ sm'.st = "IDLE"
      BY <1>2, <2>1, EnterIdleCarries
    <3>2. QueueInv(sm', mac')
      BY <1>2, <2>1, <3>1, CarriesQueue, MacQueue
    <3>. QED
      BY <3>1, <3>2, RestingDrive DEF Attempt
  <2>2. CASE \E ok \in BOOLEAN : mac' = MacScan(ok) /\ sm' = EnterScan(RetryParamSet(Rest), ok)
    <3> DEFINE s == RetryParamSet(Rest)
    <3>1. PICK ok \in BOOLEAN : mac' = MacScan(ok) /\ sm' = EnterScan(s, ok)
      BY <2>2
    <3>2. Kept(Rest, s) /\ s \in Machines
      BY <1>2, RetryParamKept DEF Kept
    <3>. HIDE DEF s
    <3>3. QueueInv(s, mac)
      BY <1>2, <3>2, KeptCarries, CarriesQueue
    <3>4. QueueInv(s, mac') /\ (ok => mac'.scan)
      BY <3>1, <3>3, MacScanDrive, MacScanLink
    <3>. QED
      BY <3>1, <3>2, <3>4, EnterScanDrive
  <2>. QED
    BY <1>8, <2>1, <2>2 DEF AutoConnectCmd
<1>9. CASE LinkIsOngoing
  <2> DEFINE s == [Rest EXCEPT !.connBlocked = TRUE]
  <2>1. Kept(Rest, s) /\ s \in Machines
    BY <1>2, FlagKept DEF Kept
  <2>2. sm' = PostConnDone(s, "fail") /\ mac' = mac
    BY <1>9 DEF LinkIsOngoing
  <2>. HIDE DEF s
  <2>3. Kept(Rest, sm')
    BY <2>1, <2>2, DoneKept, KeptTrans
  <2>4. DriveInv(Rest, mac)
    BY <1>2, <1>9 DEF LinkIsOngoing, Event
  <2>. QED
    BY <2>2, <2>3, <2>4, KeptDrive
<1>10. CASE DisconnectCmd
  <2>1. /\ Carries(Rest, sm') /\ sm'.st = "IDLE"
        /\ mac' = mac \/ mac' = Disconnected(mac)
    <3>1. /\ Carries(Rest, EnterIdle(Rest)) /\ EnterIdle(Rest).st = "IDLE"
      BY <1>2, EnterIdleCarries
    <3>2. Kept(Rest, Post(Rest, "DISCONN_DONE", "zero"))
      BY <1>2, PostKept
    <3>. QED
      BY <1>2, <1>10, <3>1, <3>2, KeptCarries DEF DisconnectCmd, Event, Kept
  <2>2. QueueInv(sm', mac')
    BY <1>2, <2>1, CarriesQueue, MacQueue
  <2>. QED
    BY <2>1, <2>2, RestingDrive DEF Attempt
<1>. QED
  BY <1>5, <1>6, <1>7, <1>8, <1>9, <1>10

\* The events of an attempt.
LEMMA AttemptDriven ==
  ASSUME sm \in Machines, mac \in MacStates, DriveInv(sm, mac),
         ConnectFailScan \/ ScanDoneScan \/ ScanFailScan \/ AttemptFails
         \/ AssocSuccess \/ DhcpStart \/ DhcpSuccess
  PROVE  DriveInv(sm', mac')
<1>1. sm.queue # <<>>
  BY DEF ConnectFailScan, ScanDoneScan, ScanFailScan, AttemptFails, AssocSuccess, DhcpStart,
         DhcpSuccess, Event
<1>2. /\ Rest \in Machines /\ Rest.st = sm.st /\ Rest.delayed = sm.delayed
      /\ Rest.timers = sm.timers /\ Rest.queue = Tail(sm.queue) /\ Rest.lost = sm.lost
      /\ msg \in Messages /\ QueueInv(Rest, mac)
  BY <1>1, RestDrive
<1>3. msg.arg \in Args
  BY <1>2 DEF Messages
<1>4. ASSUME sm' = GiveUp(Rest) \/ sm' = EnterIdle(Rest), mac' = Disconnected(mac)
      PROVE  DriveInv(sm', mac')
  <2>1. Carries(Rest, sm') /\ sm'.st = "IDLE"
    BY <1>2, <1>3, <1>4, GiveUpCarries, EnterIdleCarries
  <2>2. QueueInv(sm', mac')
    BY <1>2, <1>4, <2>1, CarriesQueue, MacQueue
  <2>. QED
    BY <2>1, <2>2, RestingDrive DEF Attempt
<1>5. ASSUME NEW s \in Machines, NEW m, QueueInv(s, m), s.st = "SCAN", NEW ok \in BOOLEAN
      PROVE  DriveInv(RegisterRetry(s, ok), m)
  <2> DEFINE r == RegisterRetry(s, ok)
  <2>1. /\ r.st = "SCAN" /\ r.queue = s.queue /\ r.lost = s.lost
        /\ "retry" \in r.timers \/ r.lacks = "timer"
    <3>1. CASE "retry" \in s.timers
      BY <1>5, <3>1 DEF RegisterRetry, Machines
    <3>2. CASE "retry" \notin s.timers
      BY <1>5, <3>2, RegisterKeeps DEF RegisterRetry
    <3>. QED
      BY <3>1, <3>2
  <2>. HIDE DEF r
  <2>2. DriveInv(r, m)
    BY <1>5, <2>1 DEF DriveInv, QueueInv, Live
  <2>. QED
    BY <2>2 DEF r
<1>6. CASE ConnectFailScan
  BY <1>4, <1>6 DEF ConnectFailScan
<1>7. CASE ScanDoneScan
  <2>1. PICK ok \in BOOLEAN : ConnectStarts(ok) /\ mac' = MacConnect(ok)
                              /\ sm' = EnterConnect(Rest, ok)
    BY <1>7 DEF ScanDoneScan
  <2>2. /\ ok => mac'.link = "joining"
        /\ mac.link \in {"joined", "leaving"} => mac'.link = mac.link
    BY <2>1 DEF MacConnect, ConnectStarts, MacStates
  <2>3. QueueInv(Rest, mac')
    BY <1>2, <2>2 DEF QueueInv, AssocTold
  <2>. QED
    BY <1>2, <2>1, <2>2, <2>3, EnterConnectDrive
<1>8. CASE ScanFailScan
  <2>1. CASE (\E ok \in BOOLEAN : sm' = RegisterRetry(Rest, ok)) /\ mac' = mac
    <3>1. Rest.st = "SCAN"
      BY <1>2, <1>8 DEF ScanFailScan, Event
    <3>. QED
      BY <1>2, <1>5, <2>1, <3>1
  <2>2. CASE sm' = GiveUp(Rest) /\ mac' = Disconnected(mac)
    BY <1>4, <2>2
  <2>. QED
    BY <1>8, <2>1, <2>2 DEF ScanFailScan
<1>9. CASE AttemptFails
  <2>1. CASE sm.retry > 0
    <3> DEFINE d == [Rest EXCEPT !.delayed = TRUE]
               e == EnterScan(d, FALSE)
    <3>1. PICK ok \in BOOLEAN : /\ sm' = RegisterRetry(e, ok)
                                /\ mac' = Disconnected(mac) \/ mac' = mac
      BY <1>9, <2>1 DEF AttemptFails
    <3>2. /\ d \in Machines /\ d.queue = Rest.queue /\ d.lost = Rest.lost
      BY <1>2 DEF Machines
    <3>. HIDE DEF d
    <3>3. QueueInv(d, mac)
      BY <1>2, <3>2 DEF QueueInv
    <3>4. QueueInv(d, mac')
      BY <3>1, <3>3, MacQueue
    <3>5. DriveInv(e, mac') /\ e \in Machines
      BY <3>2, <3>4, EnterScanDrive
    <3>6. e.st = "SCAN"
      <4> DEFINE b == [d EXCEPT !.st = "SCAN", !.timers = @ \ {"dhcp"}, !.links = 0,
                                !.lacks = IF d.delayed THEN "scan" ELSE "nothing"]
      <4>1. b \in Machines /\ b.st = "SCAN"
        BY <3>2 DEF Machines, StaStates
      <4>2. e = b \/ e = Send(b, Msg("SCAN_FAIL", "zero"))
        BY DEF EnterScan
      <4>. HIDE DEF b
      <4>3. Msg("SCAN_FAIL", "zero") \in Messages
        BY OwnEvents
      <4>4. Send(b, Msg("SCAN_FAIL", "zero")).st = "SCAN"
        BY <4>1, <4>3, SendQueue
      <4>. QED
        BY <4>1, <4>2, <4>4
    <3>. HIDE DEF e
    <3>. QED
      BY <1>5, <3>1, <3>5, <3>6 DEF DriveInv
  <2>2. CASE ~(sm.retry > 0)
    BY <1>4, <1>9, <2>2 DEF AttemptFails
  <2>. QED
    BY <2>1, <2>2
<1>10. CASE AssocSuccess
  <2> DEFINE h == [Rest EXCEPT !.st = "HANDSHAKE"]
  <2>1. sm' = h /\ mac' = mac /\ sm.st = "CONNECT" /\ msg.ev = "ASSOC_SUCCESS"
    BY <1>10 DEF AssocSuccess, Event
  <2>2. h.st = "HANDSHAKE" /\ h.queue = Tail(sm.queue) /\ h.lost = sm.lost
    BY <1>2 DEF Machines
  <2>. HIDE DEF h
  <2>3. QueueInv(h, mac)
    BY <1>2, <2>2 DEF QueueInv
  <2>4. sm.queue \in Seq(Messages) /\ msg = Head(sm.queue)
    BY DEF Machines, msg
  <2>5. /\ Has(sm.queue, Failures) /\ msg.ev \notin Failures => Has(Tail(sm.queue), Failures)
        /\ AssocTold(sm.queue, mac.link) /\ msg.ev = "ASSOC_SUCCESS"
           => mac.link \in {"joined", "leaving"} \/ Has(Tail(sm.queue), HandshakeEnds)
    BY <1>1, <2>4, TailHas
  <2>6. \A q : Has(q, Failures) => Has(q, HandshakeEnds)
    BY DEF Has, HandshakeEnds
  <2>7. sm.lost \/ Live(h, mac)
    BY <2>1, <2>2, <2>5, <2>6 DEF DriveInv, QueueInv, Live, Failures
  <2>. QED
    BY <2>1, <2>2, <2>3, <2>7 DEF DriveInv
<1>11. CASE DhcpStart
  <2>1. PICK ok \in BOOLEAN : sm' = EnterDhcp(Rest, ok) /\ mac' = mac
    BY <1>11 DEF DhcpStart
  <2> DEFINE d == [Rest EXCEPT !.st = "DHCP", !.polls = PollLimit]
  <2>2. d \in Machines /\ d.st = "DHCP" /\ d.queue = Rest.queue /\ d.lost = Rest.lost
    <3>1. PollLimit \in Int
      BY LimitAssumption
    <3>. QED
      BY <1>2, <3>1 DEF Machines, StaStates
  <2>3. sm' = Register(d, "dhcp", ok)
    BY <2>1 DEF EnterDhcp
  <2>. HIDE DEF d
  <2>4. /\ sm'.st = "DHCP" /\ sm'.queue = Rest.queue /\ sm'.lost = Rest.lost
        /\ "dhcp" \in sm'.timers \/ sm'.lacks = "timer"
    BY <2>2, <2>3, RegisterKeeps
  <2>. QED
    BY <1>2, <2>1, <2>4 DEF DriveInv, QueueInv, Live
<1>12. CASE DhcpSuccess
  <2> DEFINE c == EnterConnected(Rest)
             u == [c EXCEPT !.timers = @ \ {"retry"}]
  <2>1. Carries(Rest, c) /\ c.st = "CONNECTED" /\ c \in Machines
    BY <1>2, EnterConnectedCarries DEF Carries
  <2>2. sm' = u /\ mac' = mac
    BY <1>12 DEF DhcpSuccess
  <2>. HIDE DEF c
  <2>3. u.st = "CONNECTED" /\ u.queue = c.queue /\ u.lost = c.lost
    BY <2>1 DEF Machines
  <2>. HIDE DEF u
  <2>4. QueueInv(c, mac)
    BY <1>2, <2>1, CarriesQueue
  <2>5. QueueInv(u, mac)
    BY <2>3, <2>4 DEF QueueInv
  <2>. QED
    BY <2>2, <2>3, <2>5, RestingDrive DEF Attempt
<1>. QED
  BY <1>6, <1>7, <1>8, <1>9, <1>10, <1>11, <1>12

\* Scan results outside an attempt.
LEMMA ScanDriven ==
  ASSUME sm \in Machines, mac \in MacStates, DriveInv(sm, mac),
         ScanDone \/ ScanDoneConnected \/ ScanDoneFallThrough \/ ScanFail
  PROVE  DriveInv(sm', mac')
<1>1. mac' = mac
  BY DEF ScanDone, ScanDoneConnected, ScanDoneFallThrough, ScanFail
<1>. {"zero", "fail"} \subseteq Args
  BY DEF Args
<1>2. CASE ScanDone \/ ScanFail
  <2>1. /\ Rest \in Machines /\ Rest.st = sm.st /\ QueueInv(Rest, mac)
    BY <1>2, RestDrive DEF ScanDone, ScanFail, Event
  <2>2. sm' = PostScanDone(Rest, "zero") \/ sm' = PostScanDone(Rest, "fail")
    BY <1>2 DEF ScanDone, ScanFail
  <2>3. Kept(Rest, sm')
    BY <2>1, <2>2, DoneKept
  <2>4. QueueInv(sm', mac) /\ sm'.st \notin Attempt
    BY <1>2, <2>1, <2>3, KeptCarries, CarriesQueue DEF Kept, ScanDone, ScanFail, Event, Attempt
  <2>. QED
    BY <1>1, <2>4, RestingDrive
<1>3. CASE ScanDoneConnected
  <2> DEFINE s == [Rest EXCEPT !.pollScan = FALSE, !.fall = TRUE]
             r == Send(s, RoamMsg)
  <2>1. Rest \in Machines /\ Rest.st = "CONNECTED" /\ QueueInv(Rest, mac)
    BY <1>3, RestDrive DEF ScanDoneConnected, Event
  <2>2. Kept(Rest, s)
    BY <2>1 DEF Kept, Machines
  <2>3. sm' = PostScanDone(s, "zero") \/ sm' = PostScanDone(r, "zero")
    BY <1>3 DEF ScanDoneConnected
  <2>4. Carries(Rest, s) /\ s.st = "CONNECTED" /\ s \in Machines
    BY <2>1, <2>2, KeptCarries DEF Kept
  <2>. HIDE DEF s
  <2>5. Carries(s, r) /\ r.st = "CONNECTED" /\ r \in Machines
    <3>1. RoamMsg \in Messages /\ RoamMsg.ev # "ASSOC_SUCCESS"
      BY OwnEvents
    <3>. QED
      BY <2>4, <3>1, SendCarries DEF Carries
  <2>6. Carries(Rest, r)
    BY <2>4, <2>5, CarriesTrans
  <2>. HIDE DEF r
  <2>7. Kept(s, PostScanDone(s, "zero")) /\ Kept(r, PostScanDone(r, "zero"))
    BY <2>4, <2>5, DoneKept
  <2>8. Carries(Rest, PostScanDone(s, "zero")) /\ Carries(Rest, PostScanDone(r, "zero"))
    BY <2>4, <2>6, <2>7, KeptCarries, CarriesTrans
  <2>9. Carries(Rest, sm') /\ sm'.st = "CONNECTED"
    BY <2>3, <2>4, <2>5, <2>7, <2>8 DEF Kept
  <2>. QED
    BY <1>1, <2>1, <2>9, CarriesQueue, RestingDrive DEF Attempt
<1>4. CASE ScanDoneFallThrough
  <2> DEFINE s == [sm EXCEPT !.fall = FALSE]
  <2>1. Kept(sm, s) /\ s \in Machines
    BY FlagKept DEF Kept
  <2>2. sm' = PostScanDone(s, "fail")
    BY <1>4 DEF ScanDoneFallThrough
  <2>. HIDE DEF s
  <2>3. Kept(sm, sm')
    BY <2>1, <2>2, DoneKept, KeptTrans
  <2>. QED
    BY <1>1, <2>3, KeptDrive
<1>. QED
  BY <1>2, <1>3, <1>4

\* Events of a connected station.
LEMMA ConnectedDriven ==
  ASSUME sm \in Machines, mac \in MacStates, DriveInv(sm, mac),
         LinkLost \/ RoamingStart
  PROVE  DriveInv(sm', mac')
<1>1. sm.queue # <<>> /\ sm.st = "CONNECTED"
  BY DEF LinkLost, RoamingStart, Event
<1>2. /\ Rest \in Machines /\ Rest.st = "CONNECTED" /\ Rest.delayed = sm.delayed
      /\ QueueInv(Rest, mac)
  BY <1>1, RestDrive
<1>3. CASE LinkLost
  <2>1. CASE msg.arg \in {"lost", "saquery"}
    <3> DEFINE s == RetryParamSet(Rest)
    <3>1. PICK ok \in BOOLEAN :
            /\ mac' = LET m == MacScan(ok /\ ~sm.delayed)
                      IN  IF msg.arg = "saquery" THEN Disconnected(m) ELSE m
            /\ sm' = EnterScan(s, ok)
      BY <1>3, <2>1 DEF LinkLost
    <3> DEFINE b == ok /\ ~sm.delayed
               m == MacScan(b)
    <3>2. b \in BOOLEAN
      BY DEF Machines
    <3>3. Kept(Rest, s) /\ s \in Machines /\ s.delayed = sm.delayed
      BY <1>2, RetryParamKept DEF Kept
    <3>4. mac' = IF msg.arg = "saquery" THEN Disconnected(m) ELSE m
      BY <3>1
    <3>. HIDE DEF s
    <3>5. QueueInv(s, mac)
      BY <1>2, <3>3, KeptCarries, CarriesQueue
    <3>6. b => ok /\ ~sm.delayed
      OBVIOUS
    <3>7. ok /\ ~sm.delayed => b
      OBVIOUS
    <3>. HIDE DEF b
    <3>8. m \in MacStates /\ QueueInv(s, m) /\ (b => m.scan)
      BY <3>2, <3>5, MacScanDrive, MacScanLink
    <3>. HIDE DEF m
    <3>9. Disconnected(m).scan = m.scan /\ QueueInv(s, Disconnected(m))
      BY <3>8, MacQueue DEF Disconnected, MacStates
    <3>10. QueueInv(s, mac') /\ (ok => mac'.scan \/ s.delayed)
      BY <3>3, <3>4, <3>7, <3>8, <3>9
    <3>. QED
      BY <3>1, <3>3, <3>10, EnterScanDrive
  <2>2. CASE msg.arg \notin {"lost", "saquery"}
    <3>1. sm' = EnterIdle(Rest) /\ mac' = Disconnected(mac)
      BY <1>3, <2>2 DEF LinkLost
    <3>2. Carries(Rest, sm') /\ sm'.st = "IDLE"
      BY <1>2, <3>1, EnterIdleCarries
    <3>3. QueueInv(sm', mac')
      BY <1>2, <3>1, <3>2, CarriesQueue, MacQueue
    <3>. QED
      BY <3>2, <3>3, RestingDrive DEF Attempt
  <2>. QED
    BY <2>1, <2>2
<1>4. CASE RoamingStart
  <2>1. PICK new \in {0, 1} : /\ sm' = [Rest EXCEPT !.preroam = TRUE, !.links = @ + new]
                              /\ mac' = mac
    BY <1>4 DEF RoamingStart
  <2>2. sm'.st = "CONNECTED" /\ sm'.queue = Rest.queue /\ sm'.lost = Rest.lost
    BY <1>2, <2>1 DEF Machines
  <2>3. QueueInv(sm', mac')
    BY <1>2, <2>1, <2>2 DEF QueueInv
  <2>. QED
    BY <2>2, <2>3, RestingDrive DEF Attempt
<1>. QED
  BY <1>3, <1>4

\* Modes, and events that a state ignores.
LEMMA ModeDriven ==
  ASSUME sm \in Machines, mac \in MacStates, DriveInv(sm, mac),
         \/ SwitchMode \/ Ignored
         \/ StartCmd("START_AP_CMD", "AP", "AP_START_DONE")
         \/ StartCmd("MONITOR_START_CMD", "MONITOR", "MONITOR_START_DONE")
  PROVE  DriveInv(sm', mac')
<1>1. sm.queue # <<>>
  BY DEF SwitchMode, Ignored, StartCmd, Event
<1>2. /\ Rest \in Machines /\ Rest.st = sm.st /\ msg \in Messages /\ QueueInv(Rest, mac)
  BY <1>1, RestDrive
<1>. {"zero", "fail"} \subseteq Args
  BY DEF Args
<1>3. CASE Ignored
  <2>1. sm' = Rest /\ mac' = mac /\ msg.ev \notin Handled(sm.st)
    BY <1>3 DEF Ignored
  <2>2. /\ sm.st = "SCAN" => msg.ev \notin ScanEnds
        /\ sm.st = "CONNECT" => msg.ev \notin Failures \cup {"ASSOC_SUCCESS"}
        /\ sm.st = "HANDSHAKE" => msg.ev \notin HandshakeEnds
        /\ sm.st = "DHCP" => msg.ev \notin DhcpEnds
    BY <2>1 DEF Handled, ScanEnds, Failures, HandshakeEnds, DhcpEnds
  <2>. QED
    BY <1>1, <2>1, <2>2, RestDrive
<1>4. CASE SwitchMode
  <2>1. CASE msg.arg = sm.type /\ sm' = Rest /\ mac' = mac
    <3>1. msg.ev = "SWITCH_MODE_CMD"
      BY <1>4 DEF SwitchMode, Event
    <3>2. DriveInv(Rest, mac)
      BY <1>1, <3>1, RestDrive DEF ScanEnds, Failures, HandshakeEnds, DhcpEnds
    <3>. QED
      BY <2>1, <3>2
  <2>2. CASE msg.arg # sm.type
    <3>1. msg.arg \in Modes
      BY <1>2, <1>4 DEF SwitchMode, Event, Messages
    <3> DEFINE i == EnterIdle(Rest)
               c == [i EXCEPT !.connBlocked = FALSE]
               old == IF sm.type = "STA" THEN c ELSE Rest
               st == IF msg.arg = "STA" THEN "IDLE" ELSE "INIT"
               new == [old EXCEPT !.type = msg.arg, !.st = st]
               n2 == [new EXCEPT !.pollScan = FALSE]
    <3>2. /\ sm' = new \/ sm' = RetryParamSet(n2)
          /\ mac' = mac \/ mac' = Disconnected(mac)
      BY <1>4, <2>2 DEF SwitchMode
    <3>3. Carries(Rest, i) /\ i \in Machines
      BY <1>2, EnterIdleCarries DEF Carries
    <3>. HIDE DEF i
    <3>4. Kept(i, c)
      BY <3>3, FlagKept
    <3>5. Carries(Rest, old) /\ old \in Machines
      BY <1>2, <3>3, <3>4, FlagKept, KeptCarries, CarriesTrans DEF Carries
    <3>. HIDE DEF old, c
    <3>6. st \in {"IDLE", "INIT"}
      OBVIOUS
    <3>. HIDE DEF st
    <3>7. new \in Machines /\ new.st = st /\ new.queue = old.queue /\ new.lost = old.lost
      BY <3>1, <3>5, <3>6 DEF Machines, StaStates
    <3>. HIDE DEF new
    <3>8. Kept(new, n2)
      BY <3>7, FlagKept
    <3>. HIDE DEF n2
    <3>9. Kept(new, RetryParamSet(n2))
      BY <3>8, RetryParamKept, KeptTrans DEF Kept
    <3>10. sm'.st \notin Attempt /\ sm'.queue = old.queue /\ sm'.lost = old.lost
      BY <3>2, <3>6, <3>7, <3>9 DEF Kept, Attempt
    <3>11. QueueInv(old, mac)
      BY <1>2, <3>5, CarriesQueue
    <3>12. QueueInv(sm', mac)
      BY <3>10, <3>11 DEF QueueInv
    <3>13. QueueInv(sm', mac')
      BY <3>2, <3>12, MacQueue
    <3>. QED
      BY <3>10, <3>13, RestingDrive
  <2>. QED
    BY <1>4, <2>1, <2>2 DEF SwitchMode
<1>5. ASSUME NEW ev, NEW mode, NEW evt \in Answers, StartCmd(ev, mode, evt)
      PROVE  DriveInv(sm', mac')
  <2> DEFINE s == [Rest EXCEPT !.st = "STARTED"]
  <2>1. mac' = mac /\ (sm' = Post(s, evt, "zero") \/ sm' = Post(Rest, evt, "fail"))
    BY <1>5 DEF StartCmd
  <2>2. s \in Machines /\ s.st = "STARTED" /\ s.queue = Rest.queue /\ s.lost = Rest.lost
    BY <1>2 DEF Machines
  <2>. HIDE DEF s
  <2>3. QueueInv(s, mac)
    BY <1>2, <2>2 DEF QueueInv
  <2>4. Rest.st = "INIT"
    BY <1>2, <1>5 DEF StartCmd, Event
  <2>5. Kept(s, sm') \/ Kept(Rest, sm')
    BY <1>2, <2>1, <2>2, PostKept
  <2>6. QueueInv(sm', mac) /\ sm'.st \notin Attempt
    BY <1>2, <2>2, <2>3, <2>4, <2>5, KeptCarries, CarriesQueue DEF Kept, Attempt
  <2>. QED
    BY <2>1, <2>6, RestingDrive
<1>6. {"AP_START_DONE", "MONITOR_START_DONE"} \subseteq Answers
  BY DEF Answers
<1>. QED
  BY <1>3, <1>4, <1>5, <1>6

\* The timeouts.
LEMMA TimerDriven ==
  ASSUME sm \in Machines, mac \in MacStates, DriveInv(sm, mac), PollsEndWithState,
         DhcpPolling \/ LinkStatusPolling \/ ConnectRetry
  PROVE  DriveInv(sm', mac')
<1>1. QueueInv(sm, mac)
  BY DEF DriveInv
<1>2. CASE DhcpPolling
  <2> DEFINE s == [sm EXCEPT !.timers = @ \ {"dhcp"}]
             d == [s EXCEPT !.polls = @ - 1]
  <2>1. /\ mac' = mac /\ "dhcp" \in sm.timers
        /\ \/ sm' = Send(s, Msg("DHCP_SUCCESS", "zero"))
           \/ \E ok \in BOOLEAN : sm' = Register(d, "dhcp", ok)
           \/ sm' = Send(d, Msg("DHCP_FAIL", "zero"))
    BY <1>2 DEF DhcpPolling
  <2>2. sm.st \in {"DHCP", "CONNECTED"}
    BY <2>1 DEF PollsEndWithState
  <2>3. s \in Machines /\ s.st = sm.st /\ s.queue = sm.queue /\ s.lost = sm.lost
    BY DEF Machines
  <2>. HIDE DEF s
  <2>4. s.polls - 1 \in Int
    BY <2>3 DEF Machines
  <2>5. d \in Machines /\ d.st = sm.st /\ d.queue = sm.queue /\ d.lost = sm.lost
    <3>1. d = [s EXCEPT !.polls = s.polls - 1]
      BY <2>3 DEF Machines
    <3>. HIDE DEF d
    <3>. QED
      BY <2>3, <2>4, <3>1 DEF Machines
  <2>. HIDE DEF d
  <2>6. ASSUME NEW ok \in BOOLEAN
        PROVE  DriveInv(Register(d, "dhcp", ok), mac)
    <3> DEFINE r == Register(d, "dhcp", ok)
    <3>1. /\ r.st = sm.st /\ r.queue = sm.queue /\ r.lost = sm.lost
          /\ "dhcp" \in r.timers \/ r.lacks = "timer"
      BY <2>5, RegisterKeeps
    <3>. HIDE DEF r
    <3>2. DriveInv(r, mac)
      BY <1>1, <2>2, <3>1 DEF DriveInv, QueueInv, Live
    <3>. QED
      BY <3>2 DEF r
  <2>8. ASSUME NEW u \in Machines, u.st = sm.st, u.queue = sm.queue, u.lost = sm.lost,
               NEW x \in Messages, x.ev \in DhcpEnds
        PROVE  DriveInv(Send(u, x), mac)
    <3> DEFINE v == Send(u, x)
    <3>1. x.ev # "ASSOC_SUCCESS"
      BY <2>8 DEF DhcpEnds
    <3>2. Carries(u, v) /\ v.st = u.st /\ (v.lost \/ \A evs : x.ev \in evs => Has(v.queue, evs))
      BY <2>8, <3>1, SendCarries
    <3>. HIDE DEF v
    <3>3. QueueInv(u, mac)
      BY <1>1, <2>8 DEF QueueInv
    <3>4. QueueInv(v, mac)
      BY <3>2, <3>3, CarriesQueue
    <3>5. v.lost \/ Has(v.queue, DhcpEnds)
      BY <2>8, <3>2
    <3>6. DriveInv(v, mac)
      BY <2>2, <2>8, <3>2, <3>4, <3>5 DEF DriveInv, Live
    <3>. QED
      BY <3>6 DEF v
  <2>9. \A ev \in DhcpEnds : Msg(ev, "zero") \in Messages /\ Msg(ev, "zero").ev \in DhcpEnds
    BY OwnEvents DEF DhcpEnds
  <2>10. DriveInv(Send(s, Msg("DHCP_SUCCESS", "zero")), mac)
    BY <2>3, <2>8, <2>9 DEF DhcpEnds
  <2>11. DriveInv(Send(d, Msg("DHCP_FAIL", "zero")), mac)
    BY <2>5, <2>8, <2>9 DEF DhcpEnds
  <2>. QED
    BY <2>1, <2>6, <2>10, <2>11
<1>3. CASE LinkStatusPolling
  <2> DEFINE s == [sm EXCEPT !.links = @ - 1]
             p == [s EXCEPT !.preroam = FALSE]
             g == [sm EXCEPT !.pollScan = TRUE]
             h == [s EXCEPT !.pollScan = TRUE]
  <2>1. sm.links > 0 /\ sm.links - 1 \in Nat /\ sm.st = "CONNECTED"
    BY <1>3 DEF LinkStatusPolling, PollsEndWithState, Machines
  <2>2. Kept(sm, s)
    <3>1. s = [sm EXCEPT !.links = sm.links - 1]
      BY DEF Machines
    <3>. HIDE DEF s
    <3>. QED
      BY <2>1, <3>1, CountKept
  <2>3. \/ mac' = mac /\ sm' \in {s, p, sm}
        \/ sm' \in {g, h} /\ \E ok \in BOOLEAN : mac' = MacScan(ok)
    BY <1>3 DEF LinkStatusPolling
  <2>. HIDE DEF s
  <2>4. Kept(s, p) /\ Kept(s, h) /\ Kept(sm, g) /\ Kept(sm, sm)
    BY <2>2, FlagKept DEF Kept
  <2>5. Kept(sm, p) /\ Kept(sm, h)
    BY <2>2, <2>4, KeptTrans
  <2>. HIDE DEF p, g, h
  <2>6. Kept(sm, sm')
    BY <2>2, <2>3, <2>4, <2>5
  <2>7. DriveInv(sm', mac)
    BY <2>6, KeptDrive
  <2>. QED
    BY <2>3, <2>7, MacScanDrive
<1>4. CASE ConnectRetry
  <2> DEFINE s == [sm EXCEPT !.timers = @ \ {"retry"}, !.retry = @ - 1, !.delayed = FALSE]
  <2>1. PICK ok \in BOOLEAN : mac' = MacScan(ok) /\ sm' = EnterScan(s, ok)
    BY <1>4 DEF ConnectRetry
  <2>2. s \in Machines /\ s.queue = sm.queue /\ s.lost = sm.lost
    <3>1. sm.retry - 1 \in Int
      BY DEF Machines
    <3>2. s = [sm EXCEPT !.timers = sm.timers \ {"retry"}, !.retry = sm.retry - 1,
                         !.delayed = FALSE]
      BY DEF Machines
    <3>. HIDE DEF s
    <3>. QED
      BY <3>1, <3>2 DEF Machines
  <2>. HIDE DEF s
  <2>3. QueueInv(s, mac)
    BY <1>1, <2>2 DEF QueueInv
  <2>4. QueueInv(s, mac') /\ (ok => mac'.scan)
    BY <2>1, <2>3, MacScanDrive, MacScanLink
  <2>. QED
    BY <2>1, <2>2, <2>4, EnterScanDrive
<1>. QED
  BY <1>2, <1>3, <1>4

\* The MAC: whatever it stops doing for an attempt, it reports.
LEMMA MacDriven ==
  ASSUME sm \in Machines, mac \in MacStates, DriveInv(sm, mac), Mac
  PROVE  DriveInv(sm', mac')
<1> DEFINE q == sm.queue
<1>1. q \in Seq(Messages)
  BY DEF Machines
<1>2. ASSUME NEW x \in Messages, sm' = Send(sm, x)
      PROVE  /\ sm'.st = sm.st /\ sm'.lacks = sm.lacks /\ sm'.timers = sm.timers
             /\ sm.lost => sm'.lost
             /\ sm'.lost \/ sm'.queue = Append(q, x)
             /\ \A evs : Has(q, evs) => Has(Append(q, x), evs)
             /\ \A evs : x.ev \in evs => Has(Append(q, x), evs)
  BY <1>1, <1>2, SendQueue, AppendHas
<1>. HIDE DEF q
<1>3. ASSUME NEW x \in Messages, sm' = Send(sm, x), x.ev # "ASSOC_SUCCESS",
             mac'.link = mac.link,
             mac.scan /\ x.ev \notin ScanEnds => mac'.scan
      PROVE  DriveInv(sm', mac')
  <2>1. \A link : AssocTold(q, link) => AssocTold(Append(q, x), link)
    BY <1>1, <1>3, AppendAssoc
  <2>2. QueueInv(sm', mac')
    BY <1>2, <1>3, <2>1 DEF QueueInv, DriveInv, q
  <2>3. sm'.lost \/ Live(sm', mac')
    BY <1>2, <1>3 DEF DriveInv, Live, q
  <2>. QED
    BY <2>2, <2>3 DEF DriveInv
<1>4. ASSUME NEW x \in Messages, sm' = Send(sm, x), x.ev \in Failures,
             mac'.scan = mac.scan, mac'.link \in {"none", "failed"}
      PROVE  DriveInv(sm', mac')
  <2>1. AssocTold(Append(q, x), mac'.link)
    BY <1>1, <1>4, AppendAssoc DEF HandshakeEnds
  <2>2. QueueInv(sm', mac')
    BY <1>2, <1>4, <2>1 DEF QueueInv
  <2>3. x.ev \in Failures \cup {"ASSOC_SUCCESS"} /\ x.ev \in HandshakeEnds
    BY <1>4 DEF HandshakeEnds
  <2>4. sm'.lost \/ Live(sm', mac')
    BY <1>2, <1>4, <2>3 DEF DriveInv, Live, q
  <2>. QED
    BY <2>2, <2>4 DEF DriveInv
<1>5. CASE MacScanEnd
  <2>1. mac'.link = mac.link
    BY <1>5 DEF MacScanEnd, MacStates
  <2>2. \/ sm' = Send(sm, Msg("SCAN_DONE", "zero"))
        \/ sm' = Send(sm, Msg("SCAN_FAIL", "fail"))
    BY <1>5 DEF MacScanEnd
  <2>3. \A ev \in ScanEnds, arg \in {"zero", "fail"} :
          Msg(ev, arg) \in Messages /\ Msg(ev, arg).ev = ev
    BY OwnEvents DEF ScanEnds
  <2>4. PICK ev \in ScanEnds, arg \in {"zero", "fail"} : sm' = Send(sm, Msg(ev, arg))
    BY <2>2 DEF ScanEnds
  <2>5. ev # "ASSOC_SUCCESS"
    BY <2>4 DEF ScanEnds
  <2>. QED
    BY <1>3, <2>1, <2>3, <2>4, <2>5
<1>6. CASE MacJoin
  <2>1. CASE mac' = [mac EXCEPT !.link = "joined"] /\ sm' = Send(sm, Msg("ASSOC_SUCCESS", "zero"))
    <3> DEFINE x == Msg("ASSOC_SUCCESS", "zero")
    <3>1. x \in Messages /\ x.ev = "ASSOC_SUCCESS"
      BY OwnEvents
    <3>2. mac'.link = "joined" /\ mac'.scan = mac.scan /\ sm' = Send(sm, x)
      BY <2>1 DEF MacStates
    <3>. HIDE DEF x
    <3>3. AssocTold(Append(q, x), mac'.link)
      BY <1>1, <3>1, <3>2, AppendAssoc
    <3>4. QueueInv(sm', mac')
      BY <1>2, <3>1, <3>2, <3>3 DEF QueueInv
    <3>5. x.ev \in Failures \cup {"ASSOC_SUCCESS"}
      BY <3>1
    <3>6. sm'.lost \/ Live(sm', mac')
      BY <1>2, <3>1, <3>2, <3>5 DEF DriveInv, Live, q
    <3>. QED
      BY <3>4, <3>6 DEF DriveInv
  <2>2. CASE mac' = [mac EXCEPT !.link = "none"] /\ sm' = Send(sm, Msg("CONNECT_FAIL", "fail"))
    <3>1. mac'.link = "none" /\ mac'.scan = mac.scan
      BY <2>2 DEF MacStates
    <3>2. Msg("CONNECT_FAIL", "fail") \in Messages /\ Msg("CONNECT_FAIL", "fail").ev \in Failures
      BY OwnEvents DEF Failures
    <3>. QED
      BY <1>4, <2>2, <3>1, <3>2
  <2>. QED
    BY <1>6, <2>1, <2>2 DEF MacJoin
<1>7. CASE MacHandshake
  <2> DEFINE x == Msg("DHCP_START", "zero")
  <2>1. x \in Messages /\ x.ev \in HandshakeEnds
    BY OwnEvents DEF HandshakeEnds
  <2>2. mac'.link = "open" /\ mac'.scan = mac.scan /\ sm' = Send(sm, x) /\ mac.link = "joined"
    BY <1>7 DEF MacStates, MacHandshake
  <2>. HIDE DEF x
  <2>3. AssocTold(Append(q, x), mac'.link)
    BY <1>1, <2>1, AppendAssoc
  <2>4. QueueInv(sm', mac')
    BY <1>2, <2>1, <2>2, <2>3 DEF QueueInv
  <2>5. sm'.lost \/ Live(sm', mac')
    BY <1>2, <2>1, <2>2 DEF DriveInv, Live, q
  <2>. QED
    BY <2>4, <2>5 DEF DriveInv
<1>12. CASE HandshakeFails
  <2>1. /\ mac'.link = "failed" /\ mac'.scan = mac.scan
        /\ sm' = Send(sm, Msg("CONNECT_FAIL", "fail"))
    BY <1>12 DEF HandshakeFails, MacStates
  <2>2. Msg("CONNECT_FAIL", "fail") \in Messages /\ Msg("CONNECT_FAIL", "fail").ev \in Failures
    BY OwnEvents DEF Failures
  <2>. QED
    BY <1>4, <2>1, <2>2
<1>8. \A r \in {"lost", "other", "saquery"} :
        /\ Msg("DISCONNECT", r) \in Messages
        /\ Msg("DISCONNECT", r).ev \in Failures
        /\ Msg("DISCONNECT", r).ev # "ASSOC_SUCCESS"
  BY OwnEvents DEF Failures
<1>9. CASE MacLeft
  <2>1. mac'.link = "none" /\ mac'.scan = mac.scan /\ sm' = Send(sm, Msg("DISCONNECT", "other"))
    BY <1>9 DEF MacLeft, MacStates
  <2>. QED
    BY <1>4, <1>8, <2>1
<1>10. CASE MacDrop \/ SaQueryFails
  <2>1. PICK r \in {"lost", "other", "saquery"} :
          /\ sm' = Send(sm, Msg("DISCONNECT", r))
          /\ mac' = [mac EXCEPT !.link = "none"] \/ mac' = mac
    BY <1>10 DEF MacDrop, SaQueryFails
  <2>2. mac'.scan = mac.scan /\ (mac'.link = "none" \/ mac'.link = mac.link)
    BY <2>1 DEF MacStates
  <2>. QED
    BY <1>3, <1>4, <1>8, <2>1, <2>2
<1>11. CASE MacRoam
  <2>1. mac' = mac /\ sm' = Send(sm, Msg("ROAMING_START", "zero"))
    BY <1>11 DEF MacRoam
  <2>2. /\ Msg("ROAMING_START", "zero") \in Messages
        /\ Msg("ROAMING_START", "zero").ev # "ASSOC_SUCCESS"
    BY OwnEvents
  <2>. QED
    BY <1>3, <2>1, <2>2
<1>. QED
  BY <1>5, <1>6, <1>7, <1>9, <1>10, <1>11, <1>12 DEF Mac

\* The calls of other tasks put orders in the queue and take nothing from it.
LEMMA CallDriven ==
  ASSUME sm \in Machines, CallsOK, DriveInv(sm, mac), NEW t \in Tasks, CallStep(t)
  PROVE  DriveInv(sm', mac')
<1>1. InCall(t) /\ mac' = mac
  BY DEF CallStep, CallSend, CallNoMemory, CallFlush, CallBlock, CallFetch, CallTimeout, At
<1>2. Step(t) \in Steps
  <2>1. task[t] \in Calls /\ task[t].op # "none" /\ task[t].k \in 1..Len(Script(task[t]))
    BY <1>1 DEF CallsOK, InCall
  <2>2. Script(task[t]) \in Seq(Steps)
    BY <2>1, ScriptType
  <2>. QED
    BY <2>1, <2>2 DEF Step
<1>3. CASE UNCHANGED sm
  BY <1>1, <1>3
<1>4. CASE CallSend(t)
  <2>1. CASE Len(sm.queue) < QSize /\ sm' = [sm EXCEPT !.queue = Append(@, Step(t).msg)]
    <3>1. Step(t).msg \in Messages /\ Step(t).msg.ev # "ASSOC_SUCCESS"
      BY <1>2, <1>4 DEF CallSend, At, Steps, Orders
    <3>2. sm' = Send(sm, Step(t).msg)
      BY <2>1 DEF Send
    <3>3. /\ Carries(sm, sm') /\ sm'.st = sm.st /\ sm'.lacks = sm.lacks
          /\ sm'.timers = sm.timers
      BY <3>1, <3>2, SendCarries
    <3>. QED
      BY <1>1, <3>3, CarriesDrive
  <2>. QED
    BY <1>3, <1>4, <2>1 DEF CallSend
<1>5. CASE CallFlush(t)
  <2>1. sm' = [sm EXCEPT !.waitq = <<>>]
    BY <1>5 DEF CallFlush
  <2>2. <<>> \in Seq([evt : Answers, reason : Args, up : BOOLEAN])
    OBVIOUS
  <2>. QED
    BY <1>1, <2>1, <2>2, WaitqKept, KeptDrive
<1>6. CASE CallBlock(t)
  <2>1. sm' = [sm EXCEPT !.scanBlocked = task[t].blocked] /\ task[t].blocked \in BOOLEAN
    BY <1>6 DEF CallBlock, CallsOK, Calls
  <2>. QED
    BY <1>1, <2>1, FlagKept, KeptDrive
<1>7. CASE CallFetch(t)
  <2>1. sm.waitq # <<>> /\ sm' = [sm EXCEPT !.waitq = Tail(sm.waitq)]
    BY <1>7 DEF CallFetch, Machines
  <2>2. Tail(sm.waitq) \in Seq([evt : Answers, reason : Args, up : BOOLEAN])
    BY <2>1 DEF Machines
  <2>. QED
    BY <1>1, <2>1, <2>2, WaitqKept, KeptDrive
<1>8. CASE CallNoMemory(t) \/ CallTimeout(t)
  BY <1>3, <1>8 DEF CallNoMemory, CallTimeout
<1>. QED
  BY <1>4, <1>5, <1>6, <1>7, <1>8 DEF CallStep

-----------------------------------------------------------------------------
(* Theorem                                                                  *)

LEMMA InitDriven == Init => DriveInv(sm, mac)
<1> SUFFICES ASSUME Init PROVE DriveInv(sm, mac)
  OBVIOUS
<1>1. sm.st = "IDLE" /\ \A i \in 1..Len(sm.queue) : sm.queue[i].ev # "ASSOC_SUCCESS"
  BY DEF Init, Msg
<1>. QED
  BY <1>1, RestingDrive DEF QueueInv, AssocTold, Attempt

LEMMA NextDriven ==
  ASSUME WifiInv, DriveInv(sm, mac), [Next]_vars
  PROVE  DriveInv(sm', mac')
<1>1. sm \in Machines /\ mac \in MacStates /\ CallsOK /\ PollsEndWithState
  BY DEF WifiInv, Full, Half, Good, PollsEndWithState
<1>2. CASE Dispatch
  BY <1>1, <1>2, CommandDriven, AttemptDriven, ScanDriven, ConnectedDriven, ModeDriven
  DEF Dispatch
<1>3. CASE DhcpPolling \/ LinkStatusPolling \/ ConnectRetry
  BY <1>1, <1>3, TimerDriven
<1>4. CASE Mac
  BY <1>1, <1>4, MacDriven
<1>5. CASE \E t \in Tasks : CallStep(t) \/ \E r \in Requests : Call(t, r)
  BY <1>1, <1>5, CallDriven DEF Call
<1>6. CASE UNCHANGED vars
  BY <1>6 DEF vars
<1>. QED
  BY <1>2, <1>3, <1>4, <1>5, <1>6 DEF Next, Mgmt

\* In every state of a connection attempt the event or timer that ends the state
\* is still to come, unless an event was lost to a full queue, the leftover flag
\* delayed_connect_retry has suppressed the scan, or the retry or the DHCP poll could
\* not be registered for lack of memory: the state machine and the handlers of
\* the MAC leave no other way to strand a station, for any number of tasks that
\* call into the machine.
THEOREM AttemptsAreDriven == Spec => []StrandedOnlyDelayed
<1>1. DriveInv(sm, mac) => StrandedOnlyDelayed
  <2>1. \A evs : Has(sm.queue, evs) => Queued(evs)
    BY DEF Has, Queued
  <2>2. Failures \cup {"ASSOC_SUCCESS"} = {"CONNECT_FAIL", "DISCONNECT", "ASSOC_SUCCESS"}
    BY DEF Failures
  <2>3. HandshakeEnds = {"CONNECT_FAIL", "DISCONNECT", "DHCP_START"}
    BY DEF HandshakeEnds, Failures
  <2>. QED
    BY <2>1, <2>2, <2>3 DEF DriveInv, Live, StrandedOnlyDelayed, Driven, ScanEnds, DhcpEnds
<1>2. Init => WifiInv /\ DriveInv(sm, mac)
  BY InitInv, InitDriven
<1>3. WifiInv /\ DriveInv(sm, mac) /\ [Next]_vars => WifiInv' /\ DriveInv(sm, mac)'
  BY NextInv, NextDriven
<1>. QED
  BY <1>1, <1>2, <1>3, PTL DEF Spec
=============================================================================
