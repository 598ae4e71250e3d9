--------------------------- MODULE DfuSessionProofs ---------------------------
(***************************************************************************)
(* Proofs about the firmware update over BLE, for every chunk, sector and  *)
(* bank size, any number of sessions, and with calls that may fail.        *)
(***************************************************************************)
EXTENDS DfuSession, TLAPS

-----------------------------------------------------------------------------
(* The tables of states and the messages.                                  *)

\* The operations a client waits for and the states it waits in.
LEMMA WaitingTable ==
  /\ DOMAIN Waiting = {"MODE", "IMAGE_SIZE", "START_DFU", "VERIFICATION", "REBOOT"}
  /\ Waiting["MODE"] = "MODE_SET" /\ Waiting["IMAGE_SIZE"] = "IMAGE_SIZE_GET"
  /\ Waiting["START_DFU"] = "DFU_STARTED"
  /\ Waiting["VERIFICATION"] = "VERIFICATION" /\ Waiting["REBOOT"] = "REBOOT"
  BY DEF Waiting

LEMMA ExpectsTable ==
  /\ DOMAIN Expects = {"MODE", "IMAGE_SIZE", "START_DFU", "VERIFICATION", "REBOOT"}
  /\ Expects["MODE"] = "IDLE" /\ Expects["IMAGE_SIZE"] = "MODE_GET"
  /\ Expects["START_DFU"] = "IMAGE_SIZE_GET"
  /\ Expects["VERIFICATION"] = "DFU_FINISHED"
  /\ Expects["REBOOT"] = "VERIFICATION_PASS"
  BY DEF Expects

LEMMA ClientStates ==
  CliStates = {"IDLE", "MODE_SET", "IMAGE_SIZE_GET", "DFU_STARTED",
               "VERIFICATION", "REBOOT"}
  BY WaitingTable DEF CliStates

LEMMA ServerStates ==
  SrvStates = {"DFU_STARTED", "WAIT_LAST_CMD", "DISCONNECTING", "REBOOTED",
               "OVERRUN", "IDLE", "MODE_GET", "IMAGE_SIZE_GET", "DFU_FINISHED",
               "VERIFICATION_PASS"}
  BY ExpectsTable DEF SrvStates

\* A piece of the image is a sequence of its bytes.
LEMMA ImageSeq ==
  ASSUME NEW f \in Nat, NEW n \in Nat
  PROVE  /\ Image(f, n) \in Seq(Int) /\ Len(Image(f, n)) = n
         /\ \A k \in 1..n : Image(f, n)[k] = f + k - 1
  BY DEF Image

\* Two sequences of bytes, one behind the other.
LEMMA ConcatType ==
  ASSUME NEW s \in Seq(Int), NEW t \in Seq(Int)
  PROVE  /\ s \o t \in Seq(Int) /\ Len(s \o t) = Len(s) + Len(t)
         /\ \A k \in 1..Len(s) : (s \o t)[k] = s[k]
         /\ \A k \in 1..Len(t) : (s \o t)[Len(s) + k] = t[k]
  OBVIOUS

\* A message that the stack took, or lost, leaves a queue of messages.
LEMMA SentType ==
  ASSUME NEW S, NEW q \in Seq(S), NEW m \in S, NEW d \in Sent(q, m)
  PROVE  d \in Seq(S) /\ Len(d) - Len(q) \in {0, 1}
<1>1. d = Append(q, m) \/ d = q
  BY DEF Sent
<1> QED BY <1>1

\* The first message is taken from a queue.
LEMMA TailType ==
  ASSUME NEW S, NEW q \in Seq(S), q # <<>>
  PROVE  Head(q) \in S /\ Tail(q) \in Seq(S)
  OBVIOUS

-----------------------------------------------------------------------------
(* Type correctness.  That the client never sends more than its image needs *)
(* that its offset is cleared in each session before the data begins, and   *)
(* that the first chunk, a full one, is within the image.                   *)

Command == [op : DOMAIN Expects \cup {"DATA", "RESET"}, from : Nat, len : Nat]
Indication == [op : DOMAIN Waiting \cup {"RESET"}, ok : BOOLEAN]

\* The commands that carry a size carry that of an image.
SizedCommand ==
    {m \in Command : m.op \in {"IMAGE_SIZE", "VERIFICATION"} => m.len \in Sizes}

CliRec == [st : CliStates, off : Nat, size : Nat, timer : BOOLEAN]
SrvRec == [st : SrvStates, off : Nat, size : Nat, buf : Seq(Int),
           hash : Seq(Int), erase : Nat, timer : BOOLEAN]

CliOK ==
    /\ cli \in CliRec
    /\ cli.off <= cli.size
    /\ cli.st # "IDLE" => cli.size \in Sizes
    /\ cli.st \in {"MODE_SET", "IMAGE_SIZE_GET", "DFU_STARTED"} => cli.off = 0

SrvOK == srv \in SrvRec /\ Len(srv.buf) < Sector

FlashOK ==
    /\ cell \in [Addr -> Int]
    /\ spilled \in BOOLEAN /\ failed \in BOOLEAN /\ mixed \in BOOLEAN
    /\ faults \in 0..MaxFaults

NetOK ==
    /\ c2s \in Seq(SizedCommand)
    /\ s2c \in Seq(Indication)
    /\ acks \in Nat /\ tx \in Nat
    /\ closing \in BOOLEAN /\ sessions \in 0..MaxSessions

SessionOK == CliOK /\ SrvOK /\ FlashOK /\ NetOK

\* The unit sizes and the image sizes are numbers.
LEMMA Units ==
  /\ Chunk \in Nat /\ Chunk > 0 /\ Sector \in Nat /\ Sector > 0
  /\ BankLen \in Nat /\ BankLen > 0
  /\ \A n \in Sizes : n \in Nat /\ n >= Chunk
  BY UnitAssumption, SizeAssumption

\* The commands the client sends.
LEMMA CommandType ==
  ASSUME NEW f \in Nat, NEW n \in Nat
  PROVE  /\ \A o \in {"MODE", "START_DFU", "REBOOT", "DATA", "RESET"} :
              Cmd(o, f, n) \in SizedCommand
         /\ \A o \in {"IMAGE_SIZE", "VERIFICATION"} :
              n \in Sizes => Cmd(o, f, n) \in SizedCommand
  BY ExpectsTable DEF Cmd, SizedCommand, Command

\* The indications the server sends.
LEMMA IndicationType ==
  ASSUME NEW o \in DOMAIN Waiting \cup {"RESET"}, NEW b \in BOOLEAN
  PROVE  Ind(o, b) \in Indication
  BY DEF Ind, Indication

\* The cleared states of both sides.
LEMMA ResetType ==
  /\ CliReset \in CliRec /\ CliReset.off = 0 /\ CliReset.size = 0
  /\ CliReset.st = "IDLE"
  /\ SrvReset \in SrvRec /\ Len(SrvReset.buf) = 0 /\ SrvReset.st = "IDLE"
  /\ SrvReset.off = 0
  BY ClientStates, ServerStates DEF CliReset, CliRec, SrvReset, SrvRec

\* The types the properties speak of follow.
LEMMA SessionType == SessionOK => TypeOK
<1> SUFFICES ASSUME SessionOK PROVE TypeOK
  OBVIOUS
<1>1. c2s \in Seq(Command)
  <2>1. SizedCommand \subseteq Command
    BY DEF SizedCommand
  <2> QED BY <2>1 DEF SessionOK, NetOK
<1> QED BY <1>1 DEF SessionOK, CliOK, SrvOK, FlashOK, NetOK, TypeOK, CliRec,
                    SrvRec, Command, Indication

\* Both sides are idle and nothing is on its way.
LEMMA SessionInit == Init => SessionOK
<1> SUFFICES ASSUME Init PROVE SessionOK
  OBVIOUS
<1>1. CliOK
  BY ResetType DEF Init, CliOK
<1>2. SrvOK
  BY ResetType, Units DEF Init, SrvOK
<1>3. FlashOK
  <2>1. cell \in [Addr -> Int]
    BY DEF Init, Old
  <2>2. spilled \in BOOLEAN /\ failed \in BOOLEAN /\ mixed \in BOOLEAN
    BY DEF Init
  <2>3. faults \in 0..MaxFaults
    BY BoundAssumption DEF Init
  <2> QED BY <2>1, <2>2, <2>3 DEF FlashOK
<1>4. NetOK
  <2>1. c2s \in Seq(SizedCommand) /\ s2c \in Seq(Indication)
    BY DEF Init
  <2>2. acks \in Nat /\ tx \in Nat /\ sessions \in 0..MaxSessions
    BY BoundAssumption DEF Init
  <2>3. closing \in BOOLEAN
    BY DEF Init
  <2> QED BY <2>1, <2>2, <2>3 DEF NetOK
<1> QED BY <1>1, <1>2, <1>3, <1>4 DEF SessionOK

\* app_ble_dfu_start
LEMMA StartStep ==
  ASSUME SessionOK, NEW n \in Sizes, AppBleDfuStart(n)
  PROVE  SessionOK'
<1>1. n \in Nat /\ n >= Chunk /\ Chunk > 0 /\ Chunk \in Nat
  BY Units
<1>2. /\ cli' \in CliRec /\ cli'.off = 0 /\ cli'.size = n
      /\ cli'.st \in {"IDLE", "MODE_SET"}
  BY <1>1, ResetType, ClientStates DEF AppBleDfuStart, CliReset, CliRec
<1>3. CliOK'
  BY <1>1, <1>2 DEF CliOK
<1>4. c2s' \in Seq(SizedCommand)
  <2>1. Cmd("MODE", 0, 0) \in SizedCommand
    BY CommandType
  <2>2. c2s \in Seq(SizedCommand)
    BY DEF SessionOK, NetOK
  <2>3. c2s' = Append(c2s, Cmd("MODE", 0, 0)) \/ c2s' \in Sent(c2s, Cmd("MODE", 0, 0))
    BY DEF AppBleDfuStart
  <2> QED BY <2>1, <2>2, <2>3, SentType
<1>5. sessions' \in 0..MaxSessions
  BY BoundAssumption DEF AppBleDfuStart, SessionOK, NetOK
<1> QED BY <1>3, <1>4, <1>5
        DEF AppBleDfuStart, flash, SessionOK, SrvOK, FlashOK, NetOK

\* What the delivery of an indication does to the variables that the callback
\* does not touch.
LEMMA IndicatedType ==
  ASSUME SessionOK, NEW i, Indicated(i)
  PROVE  /\ i \in Indication /\ s2c' \in Seq(Indication) /\ acks' \in Nat
         /\ UNCHANGED <<srv, flash, closing, sessions>>
  BY TailType DEF Indicated, flash, SessionOK, NetOK

\* After an indication it is enough to look at the client and what it sent.
LEMMA AfterIndication ==
  ASSUME SessionOK, NEW i, Indicated(i), CliOK', c2s' \in Seq(SizedCommand),
         tx' \in Nat
  PROVE  SessionOK'
  BY IndicatedType DEF flash, SessionOK, SrvOK, FlashOK, NetOK

\* app_dfu_cli_control_cb
LEMMA ClientRxStep ==
  ASSUME SessionOK, ClientRx
  PROVE  SessionOK'
<1>0. /\ cli \in CliRec /\ cli.off <= cli.size /\ CliOK
      /\ c2s \in Seq(SizedCommand) /\ tx \in Nat
  BY DEF SessionOK, CliOK, NetOK
<1> cli.off \in Nat /\ cli.size \in Nat
  BY <1>0 DEF CliRec
<1>1. ASSUME NEW o, NEW next \in CliStates, NEW cmd \in SizedCommand,
             Answered(o, next, cmd),
             cli.size \in Sizes,
             next \in {"IMAGE_SIZE_GET", "DFU_STARTED"} => cli.off = 0,
             next # "MODE_SET"
      PROVE  SessionOK'
  <2>1. cli' = [cli EXCEPT !.st = next, !.timer = TRUE] /\ tx' = tx
        /\ c2s' \in Sent(c2s, cmd) /\ Indicated(Ind(o, TRUE))
    BY <1>1 DEF Answered
  <2>2. c2s' \in Seq(SizedCommand)
    BY <1>0, <1>1, <2>1, SentType
  <2>3. CliOK'
    BY <1>0, <1>1, <2>1 DEF CliOK, CliRec
  <2> QED BY <1>0, <2>1, <2>2, <2>3, AfterIndication
<1>2. CASE ModeAnswered
  <2>1. cli.st = "MODE_SET" /\ Answered("MODE", "IMAGE_SIZE_GET",
                                       Cmd("IMAGE_SIZE", 0, cli.size))
    BY <1>2, WaitingTable DEF ModeAnswered, Answered
  <2>2. cli.size \in Sizes /\ cli.off = 0
    BY <1>0, <2>1 DEF CliOK
  <2>3. Cmd("IMAGE_SIZE", 0, cli.size) \in SizedCommand
    BY <2>2, CommandType
  <2> QED BY <1>1, <2>1, <2>2, <2>3, ClientStates
<1>3. CASE SizeAnswered
  <2>1. cli.st = "IMAGE_SIZE_GET" /\ Answered("IMAGE_SIZE", "DFU_STARTED",
                                             Cmd("START_DFU", 0, 0))
    BY <1>3, WaitingTable DEF SizeAnswered, Answered
  <2>2. cli.size \in Sizes /\ cli.off = 0
    BY <1>0, <2>1 DEF CliOK
  <2>3. Cmd("START_DFU", 0, 0) \in SizedCommand
    BY CommandType
  <2> QED BY <1>1, <2>1, <2>2, <2>3, ClientStates
<1>4. CASE VerificationAnswered
  <2>1. cli.st = "VERIFICATION" /\ Answered("VERIFICATION", "REBOOT",
                                           Cmd("REBOOT", 0, 0))
    BY <1>4, WaitingTable DEF VerificationAnswered, Answered
  <2>2. cli.size \in Sizes
    BY <1>0, <2>1 DEF CliOK
  <2>3. Cmd("REBOOT", 0, 0) \in SizedCommand
    BY CommandType
  <2> QED BY <1>1, <2>1, <2>2, <2>3, ClientStates
<1>5. CASE StartAnswered
  <2>1. /\ Indicated(Ind("START_DFU", TRUE)) /\ cli.st = "DFU_STARTED"
        /\ cli' = [cli EXCEPT !.st = "VERIFICATION", !.timer = TRUE,
                              !.off = cli.off + Chunk]
    BY <1>5 DEF StartAnswered
  <2>2. cli.size \in Sizes /\ cli.off = 0
    BY <1>0, <2>1 DEF CliOK
  <2>3. /\ cli' \in CliRec /\ cli'.st = "VERIFICATION" /\ cli'.off = Chunk
        /\ cli'.size = cli.size
    <3>1. Chunk \in Nat /\ 0 + Chunk = Chunk
      BY Units
    <3> QED BY <1>0, <2>1, <2>2, <3>1, ClientStates DEF CliRec
  <2>4. CliOK'
    BY <2>2, <2>3, Units DEF CliOK
  <2>5. PICK d \in Sent(c2s, Cmd("DATA", cli.off, Chunk)) :
          c2s' = d /\ tx' = tx + Len(d) - Len(c2s)
    BY <1>5 DEF StartAnswered
  <2>6. Cmd("DATA", cli.off, Chunk) \in SizedCommand
    BY CommandType, Units
  <2>7. d \in Seq(SizedCommand) /\ Len(d) - Len(c2s) \in {0, 1}
    BY <1>0, <2>6, SentType
  <2>8. tx' \in Nat
    BY <1>0, <2>5, <2>7
  <2> QED BY <2>1, <2>4, <2>5, <2>7, <2>8, AfterIndication
<1>6. CASE RebootAnswered
  <2>1. Indicated(Ind("REBOOT", TRUE)) /\ UNCHANGED <<c2s, tx>>
        /\ cli' = [CliReset EXCEPT !.timer = TRUE]
    BY <1>6 DEF RebootAnswered
  <2>2. CliOK'
    <3>1. /\ cli'.st = "IDLE" /\ cli'.off = 0 /\ cli'.size = 0
          /\ cli' \in CliRec
      BY <2>1, ResetType DEF CliRec, CliReset
    <3> QED BY <3>1 DEF CliOK
  <2> QED BY <1>0, <2>1, <2>2, AfterIndication
<1>7. ASSUME NEW o \in DOMAIN Waiting, OutOfTurn(o)
      PROVE  SessionOK'
  <2>1. Indicated(Ind(o, TRUE)) /\ UNCHANGED <<c2s, tx>>
        /\ cli' = [cli EXCEPT !.timer = FALSE]
    BY <1>7 DEF OutOfTurn
  <2>2. CliOK'
    BY <1>0, <2>1 DEF CliOK, CliRec
  <2> QED BY <1>0, <2>1, <2>2, AfterIndication
<1>8. ASSUME NEW o \in DOMAIN Waiting \cup {"RESET"}, Refused(o)
      PROVE  SessionOK'
  <2>1. Indicated(Ind(o, FALSE)) /\ UNCHANGED <<c2s, tx>> /\ cli' = CliReset
    BY <1>8 DEF Refused
  <2>2. CliOK'
    BY <2>1, ResetType DEF CliOK
  <2> QED BY <1>0, <2>1, <2>2, AfterIndication
<1> QED BY <1>2, <1>3, <1>4, <1>5, <1>6, <1>7, <1>8 DEF ClientRx

\* app_dfu_cli_data_tx_cb
LEMMA DataTxStep ==
  ASSUME SessionOK, DataTxDone \/ DataTxIgnored \/ DataReadFails
  PROVE  SessionOK'
<1>0. /\ cli \in CliRec /\ cli.off <= cli.size /\ CliOK
      /\ c2s \in Seq(SizedCommand) /\ tx \in Nat
      /\ cli.off \in Nat /\ cli.size \in Nat
  BY DEF SessionOK, CliOK, NetOK, CliRec
<1>1. CASE DataTxDone
  <2>1. /\ NextLen \in Nat /\ NextLen > 0 /\ cli.off + NextLen <= cli.size
        /\ cli.st = "VERIFICATION" /\ tx > 0
        /\ UNCHANGED <<srv, flash, s2c, acks, closing, sessions>>
    BY <1>0, <1>1, Units DEF DataTxDone, NextLen
  <2>2. cli' = [cli EXCEPT !.off = cli.off + NextLen]
    BY <1>1 DEF DataTxDone
  <2>3. /\ cli' \in CliRec /\ cli'.off = cli.off + NextLen
        /\ cli'.size = cli.size /\ cli'.st = cli.st
    <3>1. cli.off + NextLen \in Nat
      BY <1>0, <2>1
    <3> QED BY <1>0, <2>2, <3>1 DEF CliRec
  <2>4. CliOK'
    BY <1>0, <2>1, <2>3 DEF CliOK
  <2>5. PICK d \in Sent(c2s, Cmd("DATA", cli.off, NextLen)) :
          /\ tx' = tx - 1 + Len(d) - Len(c2s)
          /\ c2s' = d \/ c2s' \in Sent(d, Cmd("VERIFICATION", 0, cli.size))
    BY <1>1 DEF DataTxDone
  <2>6. Cmd("DATA", cli.off, NextLen) \in SizedCommand
    BY <1>0, <2>1, CommandType
  <2>7. Cmd("VERIFICATION", 0, cli.size) \in SizedCommand
    BY <1>0, <2>1, CommandType DEF CliOK
  <2>8. d \in Seq(SizedCommand) /\ Len(d) - Len(c2s) \in {0, 1}
    BY <1>0, <2>6, SentType
  <2>9. c2s' \in Seq(SizedCommand)
    BY <2>5, <2>7, <2>8, SentType
  <2>10. tx' \in Nat
    BY <1>0, <2>1, <2>5, <2>8
  <2> QED BY <2>1, <2>4, <2>9, <2>10 DEF flash, SessionOK, SrvOK, FlashOK, NetOK
<1>2. CASE DataTxIgnored
  <2>1. tx' \in Nat
    BY <1>0, <1>2 DEF DataTxIgnored
  <2> QED BY <1>2, <2>1 DEF DataTxIgnored, flash, SessionOK, CliOK, SrvOK,
                            FlashOK, NetOK
<1>3. CASE DataReadFails
  <2>1. tx' \in Nat
    BY <1>0, <1>3 DEF DataReadFails
  <2>2. CliOK'
    BY <1>3, ResetType DEF DataReadFails, CliOK
  <2> QED BY <1>3, <2>1, <2>2 DEF DataReadFails, flash, SessionOK, SrvOK,
                                  FlashOK, NetOK
<1> QED BY <1>1, <1>2, <1>3

\* app_dfu_cli_ota_timer_timeout_cb
LEMMA ClientTimeoutStep ==
  ASSUME SessionOK, ClientTimeout
  PROVE  SessionOK'
<1>1. CliOK'
  BY ClientStates DEF ClientTimeout, SessionOK, CliOK, CliRec
<1>2. c2s' \in Seq(SizedCommand)
  <2>1. c2s \in Seq(SizedCommand) /\ c2s' \in Sent(c2s, Cmd("RESET", 0, 0))
    BY DEF ClientTimeout, SessionOK, NetOK
  <2>2. Cmd("RESET", 0, 0) \in SizedCommand
    BY CommandType
  <2> QED BY <2>1, <2>2, SentType
<1> QED BY <1>1, <1>2 DEF ClientTimeout, flash, SessionOK, SrvOK, FlashOK, NetOK

\* What the delivery of a command or of data leaves to its callback.
LEMMA WrittenType ==
  ASSUME SessionOK, NEW o, Written(o)
  PROVE  /\ Head(c2s) \in SizedCommand /\ Head(c2s).op = o
         /\ Head(c2s).from \in Nat /\ Head(c2s).len \in Nat
         /\ o \in {"IMAGE_SIZE", "VERIFICATION"} => Head(c2s).len \in Sizes
         /\ c2s' \in Seq(SizedCommand)
         /\ UNCHANGED <<cli, acks, tx, closing, sessions>>
<1>1. c2s \in Seq(SizedCommand) /\ c2s # <<>> /\ Head(c2s).op = o /\ c2s' = Tail(c2s)
  BY DEF SessionOK, NetOK, Written
<1>2. Head(c2s) \in SizedCommand /\ c2s' \in Seq(SizedCommand)
  BY <1>1, TailType
<1> QED BY <1>1, <1>2 DEF Written, SizedCommand, Command

LEMMA AfterWritten ==
  ASSUME SessionOK, NEW o, Written(o), SrvOK', FlashOK', s2c' \in Seq(Indication)
  PROVE  SessionOK'
  BY WrittenType DEF SessionOK, CliOK, NetOK

LEMMA AnswerType ==
  ASSUME SessionOK, NEW o \in DOMAIN Waiting \cup {"RESET"}, NEW b \in BOOLEAN,
         Answer(o, b)
  PROVE  s2c' \in Seq(Indication)
<1>1. s2c \in Seq(Indication) /\ Ind(o, b) \in Indication
  BY IndicationType DEF SessionOK, NetOK
<1> QED BY <1>1, SentType DEF Answer

\* Erasing and writing leave bytes in every cell of the bank.
LEMMA EraseType ==
  ASSUME NEW c \in [Addr -> Int], NEW a \in Nat
  PROVE  EraseSector(c, a) \in [Addr -> Int]
  BY DEF EraseSector, Erased

LEMMA WriteType ==
  ASSUME SrvOK, FlashOK, NEW b \in Seq(Int), NEW n \in Nat, n <= Len(b)
  PROVE  WriteFlash(b, n) \in [Addr -> Int]
<1>1. srv.off \in Nat /\ cell \in [Addr -> Int]
  BY DEF SrvOK, SrvRec, FlashOK
<1>2. ASSUME NEW i \in Addr
      PROVE  (IF i \notin srv.off..(srv.off + n - 1) THEN cell[i]
              ELSE IF cell[i] = Erased THEN b[i - srv.off + 1] ELSE Junk) \in Int
  <2>1. i \in Int
    BY Units DEF Addr
  <2>2. CASE i \in srv.off..(srv.off + n - 1)
    <3>1. i - srv.off + 1 \in 1..Len(b)
      BY <1>1, <2>1, <2>2
    <3> QED BY <2>2, <3>1 DEF Junk
  <2> QED BY <1>1, <2>2
<1> QED BY <1>2 DEF WriteFlash

\* The count of the failures stays within its bound.
LEMMA ResultsBounded ==
  ASSUME FlashOK
  PROVE  /\ \A ok \in EraseResults :
              ok \in BOOLEAN /\ (~ok => faults + 1 \in 0..MaxFaults)
         /\ \A m \in Nat : \A n \in WriteResults(m) :
              n \in 0..m /\ (n # m => faults + 1 \in 0..MaxFaults)
<1>1. MaxFaults \in Nat /\ faults \in 0..MaxFaults
  BY BoundAssumption DEF FlashOK
<1>2. faults < MaxFaults => faults + 1 \in 0..MaxFaults
  BY <1>1
<1>3. \A ok \in EraseResults : ok \in BOOLEAN /\ (~ok => faults < MaxFaults)
  BY DEF EraseResults
<1>4. \A m \in Nat : \A n \in WriteResults(m) :
        n \in 0..m /\ (n # m => faults < MaxFaults)
  BY DEF WriteResults
<1> QED BY <1>2, <1>3, <1>4

LEMMA BehindType ==
  ASSUME FlashOK, NEW a
  PROVE  Behind(a) \in BOOLEAN
  BY DEF FlashOK, Behind

\* What a piece of data makes of the buffer.
LEMMA BufferedType ==
  ASSUME SessionOK, Written("DATA")
  PROVE  /\ Buffered(Head(c2s)) \in Seq(Int)
         /\ Len(Buffered(Head(c2s))) = Len(srv.buf) + Head(c2s).len
<1>1. Head(c2s).from \in Nat /\ Head(c2s).len \in Nat
  BY WrittenType
<1>2. srv.buf \in Seq(Int)
  BY DEF SessionOK, SrvOK, SrvRec
<1>3. /\ Image(Head(c2s).from, Head(c2s).len) \in Seq(Int)
      /\ Len(Image(Head(c2s).from, Head(c2s).len)) = Head(c2s).len
  BY <1>1, ImageSeq
<1>4. Buffered(Head(c2s)) = srv.buf \o Image(Head(c2s).from, Head(c2s).len)
  BY DEF Buffered
<1>5. \A t \in Seq(Int) : /\ srv.buf \o t \in Seq(Int)
                         /\ Len(srv.buf \o t) = Len(srv.buf) + Len(t)
  BY <1>2, ConcatType
<1> QED BY <1>3, <1>4, <1>5, Zenon

\* app_dfu_srv_control_cb and app_dfu_srv_data_cb
LEMMA ServerRxStep ==
  ASSUME SessionOK, ServerRx
  PROVE  SessionOK'
<1>0. /\ SrvOK /\ FlashOK /\ srv \in SrvRec /\ s2c \in Seq(Indication)
      /\ cell \in [Addr -> Int] /\ Sector \in Nat /\ Sector > 0
      /\ srv.off \in Nat /\ srv.erase \in Nat /\ srv.hash \in Seq(Int)
      /\ srv.buf \in Seq(Int)
  BY Units DEF SessionOK, SrvOK, SrvRec, FlashOK, NetOK
<1>1. ASSUME UNCHANGED flash
      PROVE  FlashOK'
  BY <1>0, <1>1 DEF flash, FlashOK
<1>2. ASSUME srv' = SrvReset
      PROVE  SrvOK'
  BY <1>0, <1>2, ResetType DEF SrvOK
<1>3. ASSUME NEW x \in SrvStates, NEW t \in BOOLEAN,
             srv' = [srv EXCEPT !.st = x, !.timer = t]
      PROVE  SrvOK'
  BY <1>0, <1>3 DEF SrvOK, SrvRec
<1>4. CASE ModeGet
  <2>1. s2c' \in Seq(Indication)
    BY <1>4, AnswerType, WaitingTable DEF ModeGet
  <2>2. srv' = [srv EXCEPT !.st = "MODE_GET", !.erase = 0, !.hash = <<>>,
                           !.timer = TRUE]
    BY <1>4 DEF ModeGet
  <2>3. SrvOK'
    <3>1. <<>> \in Seq(Int) /\ "MODE_GET" \in SrvStates
      BY ServerStates
    <3> QED BY <1>0, <2>2, <3>1 DEF SrvOK, SrvRec
  <2>4. FlashOK'
    BY <1>0, <1>4 DEF ModeGet, FlashOK
  <2> QED BY <1>4, <2>1, <2>3, <2>4, AfterWritten DEF ModeGet
<1>5. CASE ImageSizeGet
  <2>1. s2c' \in Seq(Indication)
    BY <1>5, AnswerType, WaitingTable DEF ImageSizeGet
  <2>2. Written("IMAGE_SIZE") /\ Head(c2s).len \in Nat
    BY <1>5, WrittenType DEF ImageSizeGet
  <2>3. srv' = [srv EXCEPT !.st = "IMAGE_SIZE_GET", !.size = Head(c2s).len,
                           !.erase = srv.erase + Sector, !.timer = TRUE]
    BY <1>5 DEF ImageSizeGet
  <2>4. srv.erase + Sector \in Nat
    BY <1>0
  <2>5. SrvOK'
    BY <1>0, <2>2, <2>3, <2>4, ServerStates DEF SrvOK, SrvRec
  <2>6. PICK ok \in EraseResults :
          /\ cell' = IF ok THEN EraseSector(cell, srv.erase) ELSE cell
          /\ faults' = IF ok THEN faults ELSE faults + 1
          /\ failed' = (failed \/ ~ok)
    BY <1>5 DEF ImageSizeGet
  <2>7. cell' \in [Addr -> Int]
    BY <1>0, <2>6, EraseType
  <2>8. faults' \in 0..MaxFaults
    BY <1>0, <2>6, ResultsBounded DEF FlashOK
  <2>9. failed' \in BOOLEAN
    BY <2>6, Zenon
  <2>10. spilled' \in BOOLEAN /\ mixed' \in BOOLEAN
    BY <1>0, <1>5, BehindType DEF ImageSizeGet, FlashOK
  <2> QED BY <2>1, <2>2, <2>5, <2>7, <2>8, <2>9, <2>10, AfterWritten DEF FlashOK
<1>6. CASE StartDfu
  <2>1. s2c' \in Seq(Indication)
    BY <1>6, AnswerType, WaitingTable DEF StartDfu
  <2>2. Written("START_DFU") /\ UNCHANGED flash
    BY <1>6 DEF StartDfu
  <2>3. CASE srv' = SrvReset
    BY <1>1, <1>2, <2>1, <2>2, <2>3, AfterWritten
  <2>4. CASE srv' = [srv EXCEPT !.st = "DFU_STARTED", !.timer = TRUE,
                            !.buf = [k \in DOMAIN srv.buf |-> Garbage]]
    <3>1. DOMAIN srv.buf = 1..Len(srv.buf) /\ Len(srv.buf) \in Nat
      BY <1>0
    <3>2. /\ [k \in DOMAIN srv.buf |-> Garbage] \in Seq(Int)
          /\ Len([k \in DOMAIN srv.buf |-> Garbage]) = Len(srv.buf)
      BY <1>0, <3>1 DEF Garbage
    <3>3. SrvOK'
      BY <1>0, <2>4, <3>2, ServerStates DEF SrvOK, SrvRec
    <3> QED BY <1>1, <2>1, <2>2, <3>3, AfterWritten
  <2> QED BY <1>6, <2>3, <2>4 DEF StartDfu
<1>7. CASE Verification
  <2>1. s2c' \in Seq(Indication)
    BY <1>7, AnswerType, WaitingTable DEF Verification
  <2>2. /\ Written("VERIFICATION") /\ UNCHANGED <<cell, spilled, faults, failed>>
        /\ \/ srv' = SrvReset
           \/ srv' = [srv EXCEPT !.st = "VERIFICATION_PASS", !.timer = TRUE]
    BY <1>7 DEF Verification
  <2>3. SrvOK'
    BY <1>2, <1>3, <2>2, ServerStates
  <2>4. mixed' \in BOOLEAN
    BY <1>0, <1>7 DEF Verification, FlashOK
  <2>5. FlashOK'
    BY <1>0, <2>2, <2>4 DEF FlashOK
  <2> QED BY <2>1, <2>2, <2>3, <2>5, AfterWritten
<1>8. CASE Reboot
  <2>1. s2c' \in Seq(Indication)
    BY <1>8, AnswerType, WaitingTable DEF Reboot
  <2>2. /\ Written("REBOOT") /\ UNCHANGED flash
        /\ srv' = [srv EXCEPT !.st = "WAIT_LAST_CMD", !.timer = TRUE]
    BY <1>8 DEF Reboot
  <2>3. SrvOK'
    BY <1>3, <2>2, ServerStates
  <2> QED BY <1>1, <2>1, <2>2, <2>3, AfterWritten
<1>9. ASSUME NEW o, Ignored(o)
      PROVE  SessionOK'
  <2>1. /\ Written(o) /\ UNCHANGED flash /\ s2c' = s2c
        /\ srv' = [srv EXCEPT !.timer = FALSE]
    BY <1>9 DEF Ignored
  <2>2. SrvOK'
    BY <1>0, <2>1 DEF SrvOK, SrvRec
  <2> QED BY <1>0, <1>1, <2>1, <2>2, AfterWritten
<1>10. CASE PeerReset
  BY <1>0, <1>1, <1>2, <1>10, AfterWritten DEF PeerReset
<1>11. CASE DataFlushed
  <2> DEFINE b == Buffered(Head(c2s))
  <2>1. Written("DATA") /\ s2c' = s2c
    BY <1>11 DEF DataFlushed
  <2>2. b \in Seq(Int) /\ Len(b) \in Nat
    BY <2>1, BufferedType
  <2>3. /\ mixed' = mixed
        /\ spilled' = (Behind(srv.off + Len(b)) \/ Behind(srv.erase + Sector))
        /\ \E x \in {"DFU_FINISHED", srv.st} :
             srv' = [srv EXCEPT !.hash = srv.hash \o b, !.buf = <<>>,
                                !.off = srv.off + Len(b),
                                !.erase = srv.erase + Sector, !.st = x]
    BY <1>11 DEF DataFlushed
  <2>0. PICK n \in WriteResults(Len(b)), ok \in EraseResults :
          /\ cell' = IF ok THEN EraseSector(WriteFlash(b, n), srv.erase)
                           ELSE WriteFlash(b, n)
          /\ faults' = IF ok /\ n = Len(b) THEN faults ELSE faults + 1
          /\ failed' = (failed \/ ~ok \/ n # Len(b))
    BY <1>11 DEF DataFlushed
  <2> HIDE DEF b
  <2>4. /\ srv.hash \o b \in Seq(Int) /\ srv.off + Len(b) \in Nat
        /\ srv.erase + Sector \in Nat
    BY <1>0, <2>2
  <2>5. SrvOK'
    <3>1. PICK x \in {"DFU_FINISHED", srv.st} :
            srv' = [srv EXCEPT !.hash = srv.hash \o b, !.buf = <<>>,
                               !.off = srv.off + Len(b),
                               !.erase = srv.erase + Sector, !.st = x]
      BY <2>3
    <3>2. <<>> \in Seq(Int) /\ Len(<<>>) = 0 /\ x \in SrvStates
      BY <1>0, ServerStates DEF SrvRec
    <3> QED BY <1>0, <2>4, <3>1, <3>2 DEF SrvOK, SrvRec
  <2>6. cell' \in [Addr -> Int]
    <3>1. WriteFlash(b, n) \in [Addr -> Int]
      BY <1>0, <2>2, ResultsBounded, WriteType
    <3> QED BY <1>0, <2>0, <3>1, EraseType
  <2>7. spilled' \in BOOLEAN
    <3>1. spilled' = (Behind(srv.off + Len(b)) \/ Behind(srv.erase + Sector))
      BY <2>3
    <3> QED BY <3>1, Zenon
  <2>8. faults' \in 0..MaxFaults
    BY <1>0, <2>0, <2>2, ResultsBounded DEF FlashOK
  <2>9. failed' \in BOOLEAN
    BY <2>0, Zenon
  <2> QED BY <1>0, <2>1, <2>3, <2>5, <2>6, <2>7, <2>8, <2>9, AfterWritten DEF FlashOK
<1>12. CASE DataBuffered
  <2> DEFINE b == Buffered(Head(c2s))
  <2>1. Written("DATA") /\ s2c' = s2c /\ UNCHANGED flash
    BY <1>12 DEF DataBuffered
  <2>2. b \in Seq(Int) /\ Len(b) \in Nat
    BY <2>1, BufferedType
  <2>3. CASE Len(b) > Sector
    <3>1. srv' = [SrvReset EXCEPT !.st = "OVERRUN"]
      BY <1>12, <2>3 DEF DataBuffered
    <3>2. SrvOK'
      BY <1>0, <3>1, ResetType, ServerStates DEF SrvOK, SrvRec
    <3> QED BY <1>0, <1>1, <2>1, <3>2, AfterWritten
  <2>4. CASE ~(Len(b) > Sector)
    <3>1. /\ ~Flushes(b)
          /\ \E x \in {"DFU_FINISHED", srv.st} :
               srv' = [srv EXCEPT !.buf = b, !.st = x]
      BY <1>12, <2>4 DEF DataBuffered
    <3>2. Len(b) < Sector
      BY <1>0, <2>2, <2>4, <3>1 DEF Flushes
    <3> HIDE DEF b
    <3>3. SrvOK'
      BY <1>0, <2>2, <3>1, <3>2, ServerStates DEF SrvOK, SrvRec
    <3> QED BY <1>0, <1>1, <2>1, <3>3, AfterWritten
  <2> QED BY <2>3, <2>4
<1>13. CASE DataUnexpected
  BY <1>0, <1>1, <1>2, <1>13, AfterWritten DEF DataUnexpected
<1> QED BY <1>4, <1>5, <1>6, <1>7, <1>8, <1>9, <1>10, <1>11, <1>12, <1>13
        DEF ServerRx

\* The other steps of the server, and the loss of the link.
LEMMA OtherStep ==
  ASSUME SessionOK, IndSent \/ ServerTimeout \/ Disconnected
  PROVE  SessionOK'
<1>0. /\ srv \in SrvRec /\ SrvOK /\ acks \in Nat
  BY DEF SessionOK, SrvOK, NetOK
<1>1. CASE IndSent
  <2>1. srv' = srv \/ srv' = [srv EXCEPT !.st = "DISCONNECTING"]
    BY <1>1 DEF IndSent
  <2>2. SrvOK'
    BY <1>0, <2>1, ServerStates DEF SrvOK, SrvRec
  <2>3. acks' \in Nat
    BY <1>0, <1>1 DEF IndSent
  <2>4. closing' \in BOOLEAN
    BY <1>1 DEF IndSent, SessionOK, NetOK
  <2> QED BY <1>1, <2>2, <2>3, <2>4 DEF IndSent, flash, SessionOK, CliOK, FlashOK,
                                        NetOK
<1>2. CASE ServerTimeout
  <2>1. srv' = [srv EXCEPT !.st = "IDLE", !.timer = FALSE]
    BY <1>2 DEF ServerTimeout
  <2>2. SrvOK'
    BY <1>0, <2>1, ServerStates DEF SrvOK, SrvRec
  <2>3. s2c' \in Seq(Indication)
    BY <1>2, AnswerType DEF ServerTimeout
  <2> QED BY <1>2, <2>2, <2>3 DEF ServerTimeout, flash, SessionOK, CliOK, FlashOK,
                                  NetOK
<1>3. CASE Disconnected
  <2>1. srv' = SrvReset \/ srv' = [srv EXCEPT !.st = "REBOOTED", !.timer = FALSE]
    BY <1>3 DEF Disconnected
  <2>2. SrvOK'
    BY <1>0, <2>1, ResetType, ServerStates, Units DEF SrvOK, SrvRec
  <2>3. CliOK'
    BY <1>3, ResetType DEF Disconnected, CliOK
  <2>4. c2s' \in Seq(SizedCommand) /\ s2c' \in Seq(Indication)
    BY <1>3 DEF Disconnected
  <2>5. closing' \in BOOLEAN
    BY <1>3 DEF Disconnected
  <2> QED BY <1>3, <2>2, <2>3, <2>4, <2>5 DEF Disconnected, flash, SessionOK,
                                              FlashOK, NetOK
<1> QED BY <1>1, <1>2, <1>3

\* Every step keeps the types.
LEMMA SessionStep == SessionOK /\ [Next]_vars => SessionOK'
<1> SUFFICES ASSUME SessionOK, [Next]_vars PROVE SessionOK'
  OBVIOUS
<1>1. CASE UNCHANGED vars
  BY <1>1 DEF vars, SessionOK, CliOK, SrvOK, FlashOK, NetOK
<1> QED BY <1>1, StartStep, ClientRxStep, DataTxStep, ClientTimeoutStep,
           ServerRxStep, OtherStep DEF Next

(* The state of both sides and the messages keep their types; the client   *)
(* never sends more than its image, and between two calls the server's     *)
(* buffer is never full (app_dfu_cli.c, app_dfu_srv.c).                    *)
THEOREM TypeCorrect == Spec => []TypeOK
<1> QED BY SessionInit, SessionStep, SessionType, PTL DEF Spec

-----------------------------------------------------------------------------
(* The image in the bank.  The server never clears cur_offset when a       *)
(* session begins: what an aborted one left there shifts where the data of *)
(* the next is written, while the digest knows of no addresses.  The end   *)
(* of the data is found by the offset, so a digest over a whole image      *)
(* covers offset minus the stale part.  When the digest is of an image of  *)
(* the announced size, the stale part is nothing: the offset began at 0    *)
(* and, as long as the flash did what it was told, the digest is that of   *)
(* the flash.                                                              *)

\* cur_offset at the time of the MODE command of this session.
Begun == srv.off - Len(srv.hash)

Sized == {"IMAGE_SIZE_GET", "DFU_STARTED", "DFU_FINISHED"}
Accepting == {"VERIFICATION_PASS", "WAIT_LAST_CMD", "DISCONNECTING", "REBOOTED"}

OffsetInv == srv.st = "DFU_FINISHED" => srv.off = srv.size

\* One sector ahead of what was received is erased.
EraseInv ==
    /\ srv.st = "MODE_GET" => srv.hash = <<>> /\ srv.erase = 0
    /\ srv.st = "IMAGE_SIZE_GET" => srv.hash = <<>>
    /\ srv.st \in {"IMAGE_SIZE_GET", "DFU_STARTED"} =>
         /\ srv.erase = Len(srv.hash) + Sector
         /\ Begun = 0 /\ ~failed =>
              \A i \in Addr : srv.off <= i /\ i < srv.erase => cell[i] = Erased

\* What was digested is what the bank holds.
DigestInv ==
    srv.st \in Sized /\ Begun = 0 /\ ~failed =>
        \A i \in Addr : i < srv.off => cell[i] = srv.hash[i + 1]

BankInv == OffsetInv /\ EraseInv /\ DigestInv /\ SwitchedImageIntact

\* A step that leaves the digest, the offsets and the flash alone.
LEMMA BankKept ==
  ASSUME BankInv, UNCHANGED flash, srv'.st = srv.st, srv'.off = srv.off,
         srv'.size = srv.size, srv'.hash = srv.hash, srv'.erase = srv.erase
  PROVE  BankInv'
  BY DEF BankInv, OffsetInv, EraseInv, DigestInv, SwitchedImageIntact, Begun,
         Holds, flash

\* A session that ends.
LEMMA BankLeft ==
  ASSUME srv'.st \in {"IDLE", "OVERRUN"}
  PROVE  BankInv'
  BY DEF BankInv, OffsetInv, EraseInv, DigestInv, SwitchedImageIntact, Sized

\* An accepted image on its way to the switch.
LEMMA BankAccepted ==
  ASSUME BankInv, srv.st \in Accepting, srv'.st \in Accepting, UNCHANGED flash,
         srv'.size = srv.size
  PROVE  BankInv'
<1>1. OffsetInv' /\ EraseInv' /\ DigestInv'
  BY DEF OffsetInv, EraseInv, DigestInv, Sized, Accepting
<1>2. SwitchedImageIntact'
  BY DEF BankInv, SwitchedImageIntact, Holds, Accepting, flash
<1> QED BY <1>1, <1>2 DEF BankInv

\* A digest of an image of the announced size passes only over what the bank
\* holds.
LEMMA DigestPasses ==
  ASSUME SessionOK, BankInv, srv.st = "DFU_FINISHED", ~failed,
         srv.hash = Image(0, srv.size)
  PROVE  Holds(srv.size)
<1>1. srv.size \in Nat /\ srv.off = srv.size
  BY DEF SessionOK, SrvOK, SrvRec, BankInv, OffsetInv
<1>2. Len(srv.hash) = srv.size /\ \A k \in 1..srv.size : srv.hash[k] = 0 + k - 1
  <2> DEFINE n == srv.size
  <2>1. n \in Nat
    BY <1>1
  <2> HIDE DEF n
  <2>2. Len(Image(0, n)) = n /\ \A k \in 1..n : Image(0, n)[k] = 0 + k - 1
    BY <2>1, ImageSeq, 0 \in Nat, Zenon
  <2>3. srv.hash = Image(0, n)
    BY DEF n
  <2>4. Len(srv.hash) = n /\ \A k \in 1..n : srv.hash[k] = 0 + k - 1
    BY <2>2, <2>3, Zenon
  <2> QED BY <2>4 DEF n
<1>3. Begun = 0
  BY <1>1, <1>2 DEF Begun
<1>4. ASSUME NEW i \in Addr, i < srv.size
      PROVE  cell[i] = i
  <2>1. cell[i] = srv.hash[i + 1]
    BY <1>1, <1>3, <1>4 DEF BankInv, DigestInv, Sized
  <2>2. i + 1 \in 1..srv.size /\ 0 + (i + 1) - 1 = i
    BY <1>1, <1>4, Units DEF Addr
  <2>3. srv.hash[i + 1] = 0 + (i + 1) - 1
    BY <1>2, <2>2, Zenon
  <2> QED BY <2>1, <2>2, <2>3
<1> QED BY <1>4 DEF Holds

\* A full buffer, or the rest of the image, goes to the flash.
LEMMA DataFlushedBank ==
  ASSUME SessionOK, BankInv, DataFlushed
  PROVE  BankInv'
<1> DEFINE b == Buffered(Head(c2s))
<1>1. Written("DATA") /\ srv.st = "DFU_STARTED"
  BY DEF DataFlushed
<1>2. b \in Seq(Int) /\ Len(b) \in Nat
  BY <1>1, BufferedType
<1>3. /\ Len(b) <= Sector /\ Flushes(b)
      /\ srv' = [srv EXCEPT !.hash = srv.hash \o b, !.buf = <<>>,
                            !.off = srv.off + Len(b),
                            !.erase = srv.erase + Sector,
                            !.st = IF srv.off + Len(b) = srv.size
                                     THEN "DFU_FINISHED" ELSE srv.st]
  BY DEF DataFlushed
<1>0. ~failed' => ~failed /\ cell' = EraseSector(WriteFlash(b, Len(b)), srv.erase)
  <2>1. PICK n \in WriteResults(Len(b)), ok \in EraseResults :
          /\ cell' = IF ok THEN EraseSector(WriteFlash(b, n), srv.erase)
                           ELSE WriteFlash(b, n)
          /\ failed' = (failed \/ ~ok \/ n # Len(b))
    BY DEF DataFlushed
  <2> HIDE DEF b
  <2> QED BY <2>1
<1> HIDE DEF b
<1>4. /\ srv \in SrvRec /\ srv.off \in Nat /\ srv.size \in Nat
      /\ srv.erase \in Nat /\ srv.hash \in Seq(Int) /\ Len(srv.hash) \in Nat
      /\ cell \in [Addr -> Int] /\ Sector \in Nat /\ Sector > 0
  BY Units DEF SessionOK, SrvOK, SrvRec, FlashOK
<1>5. /\ srv'.hash = srv.hash \o b /\ srv'.off = srv.off + Len(b)
      /\ srv'.erase = srv.erase + Sector /\ srv'.size = srv.size
      /\ srv'.st = IF srv.off + Len(b) = srv.size THEN "DFU_FINISHED"
                                                  ELSE "DFU_STARTED"
  BY <1>1, <1>3, <1>4 DEF SrvRec
<1>6. Len(b) = Sector \/ srv'.st = "DFU_FINISHED"
  BY <1>2, <1>3, <1>4, <1>5 DEF Flushes
<1>7. srv.erase = Len(srv.hash) + Sector
  BY <1>1 DEF BankInv, EraseInv
<1>8. /\ Len(srv'.hash) = Len(srv.hash) + Len(b)
      /\ \A k \in 1..Len(srv.hash) : srv'.hash[k] = srv.hash[k]
      /\ \A k \in 1..Len(b) : srv'.hash[Len(srv.hash) + k] = b[k]
  <2>1. /\ Len(srv.hash \o b) = Len(srv.hash) + Len(b)
        /\ \A k \in 1..Len(srv.hash) : (srv.hash \o b)[k] = srv.hash[k]
        /\ \A k \in 1..Len(b) : (srv.hash \o b)[Len(srv.hash) + k] = b[k]
    BY <1>2, <1>4, ConcatType, Zenon
  <2>2. srv'.hash = srv.hash \o b
    BY <1>5
  <2> QED BY <2>1, <2>2, Zenon
<1>9. Begun' = Begun
  <2>1. Len(srv'.hash) = Len(srv.hash) + Len(b) /\ srv'.off = srv.off + Len(b)
    BY <1>5, <1>8
  <2>2. Begun' = srv'.off - Len(srv'.hash)
    BY DEF Begun
  <2>3. (srv.off + Len(b)) - (Len(srv.hash) + Len(b)) = srv.off - Len(srv.hash)
    BY <1>2, <1>4
  <2> QED BY <2>1, <2>2, <2>3, Zenon DEF Begun
<1>10. OffsetInv'
  BY <1>5 DEF OffsetInv
<1>11. ASSUME Begun = 0, ~failed
       PROVE  /\ srv.off = Len(srv.hash)
              /\ \A i \in Addr : i < srv.off => cell[i] = srv.hash[i + 1]
              /\ \A i \in Addr : srv.off <= i /\ i < srv.erase => cell[i] = Erased
  BY <1>1, <1>4, <1>11 DEF Begun, BankInv, DigestInv, EraseInv, Sized
<1>12. ASSUME Begun = 0, ~failed', NEW i \in Addr, i < srv'.off
       PROVE  cell'[i] = srv'.hash[i + 1]
  <2>0. i \in Nat
    BY Units DEF Addr
  <2>1. ~(i \in srv.erase..(srv.erase + Sector - 1))
    BY <1>0, <1>2, <1>3, <1>4, <1>5, <1>7, <1>11, <1>12, <2>0
  <2>2. cell'[i] = WriteFlash(b, Len(b))[i]
    BY <1>0, <1>12, <2>1 DEF EraseSector
  <2>3. CASE i < srv.off
    <3>1. WriteFlash(b, Len(b))[i] = cell[i]
      BY <1>2, <1>4, <2>0, <2>3 DEF WriteFlash
    <3>2. i + 1 \in 1..Len(srv.hash)
      BY <1>0, <1>4, <1>11, <1>12, <2>0, <2>3
    <3>3. cell[i] = srv.hash[i + 1]
      BY <1>0, <1>11, <1>12, <2>3
    <3> QED BY <1>8, <2>2, <3>1, <3>2, <3>3
  <2>4. CASE ~(i < srv.off)
    <3>1. i \in srv.off..(srv.off + Len(b) - 1)
      BY <1>2, <1>4, <1>5, <1>12, <2>0, <2>4
    <3>2. cell[i] = Erased
      BY <1>0, <1>2, <1>3, <1>4, <1>7, <1>11, <1>12, <2>0, <3>1
    <3>3. WriteFlash(b, Len(b))[i] = b[i - srv.off + 1]
      <4>1. WriteFlash(b, Len(b))[i] =
              IF i \notin srv.off..(srv.off + Len(b) - 1) THEN cell[i]
              ELSE IF cell[i] = Erased THEN b[i - srv.off + 1] ELSE Junk
        BY <1>12, Zenon DEF WriteFlash
      <4> QED BY <3>1, <3>2, <4>1, Zenon
    <3>4. /\ i - srv.off + 1 \in 1..Len(b)
          /\ Len(srv.hash) + (i - srv.off + 1) = i + 1
      <4>1. srv.off = Len(srv.hash)
        BY <1>0, <1>11, <1>12
      <4>2. srv.off <= i /\ i <= srv.off + Len(b) - 1
        BY <1>2, <1>4, <2>0, <3>1
      <4> QED BY <1>2, <1>4, <2>0, <4>1, <4>2
    <3>5. srv'.hash[Len(srv.hash) + (i - srv.off + 1)] = b[i - srv.off + 1]
      BY <1>8, <3>4, Zenon
    <3> QED BY <2>2, <3>3, <3>4, <3>5
  <2> QED BY <2>3, <2>4
<1>13. DigestInv'
  BY <1>9, <1>12 DEF DigestInv
<1>14. EraseInv'
  <2>1. CASE srv'.st = "DFU_FINISHED"
    BY <2>1 DEF EraseInv
  <2>2. CASE srv'.st # "DFU_FINISHED"
    <3>1. srv'.st = "DFU_STARTED" /\ Len(b) = Sector
      BY <1>5, <1>6, <2>2
    <3>2. srv'.erase = Len(srv'.hash) + Sector
      BY <1>4, <1>5, <1>7, <1>8, <3>1
    <3>3. ASSUME Begun = 0, ~failed', NEW i \in Addr, srv'.off <= i, i < srv'.erase
          PROVE  cell'[i] = Erased
      <4>1. i \in srv.erase..(srv.erase + Sector - 1)
        BY <1>0, <1>4, <1>5, <1>7, <1>11, <3>1, <3>3, Units DEF Addr
      <4> QED BY <1>0, <3>3, <4>1 DEF EraseSector
    <3> QED BY <1>9, <3>1, <3>2, <3>3 DEF EraseInv
  <2> QED BY <2>1, <2>2
<1>15. SwitchedImageIntact'
  BY <1>5 DEF SwitchedImageIntact
<1> QED BY <1>10, <1>13, <1>14, <1>15 DEF BankInv

\* The commands and data of a session.
LEMMA ServerRxBank ==
  ASSUME SessionOK, BankInv, ServerRx
  PROVE  BankInv'
<1>0. /\ srv \in SrvRec /\ srv.off \in Nat /\ srv.hash \in Seq(Int)
      /\ srv.erase \in Nat /\ cell \in [Addr -> Int]
      /\ Sector \in Nat /\ Sector > 0
  BY Units DEF SessionOK, SrvOK, SrvRec, FlashOK
<1>1. ASSUME srv' = SrvReset
      PROVE  BankInv'
  BY <1>1, BankLeft, ResetType
<1>2. CASE ModeGet
  <2>1. /\ srv'.st = "MODE_GET" /\ srv'.hash = <<>> /\ srv'.erase = 0
        /\ srv'.off = srv.off
    BY <1>0, <1>2 DEF ModeGet, SrvRec
  <2> QED BY <2>1 DEF BankInv, OffsetInv, EraseInv, DigestInv, SwitchedImageIntact,
                      Sized
<1>3. CASE ImageSizeGet
  <2>1. /\ srv.st = "MODE_GET"
        /\ ~failed' => cell' = EraseSector(cell, srv.erase)
        /\ srv' = [srv EXCEPT !.st = "IMAGE_SIZE_GET", !.size = Head(c2s).len,
                              !.erase = srv.erase + Sector, !.timer = TRUE]
    BY <1>3, ExpectsTable DEF ImageSizeGet
  <2>2. srv.hash = <<>> /\ srv.erase = 0
    BY <2>1 DEF BankInv, EraseInv
  <2>3. /\ srv'.st = "IMAGE_SIZE_GET"
        /\ srv'.hash = srv.hash /\ srv'.off = srv.off
        /\ srv'.erase = srv.erase + Sector
    BY <1>0, <2>1 DEF SrvRec
  <2>4. Begun' = Begun
    BY <2>3 DEF Begun
  <2>5. Len(srv.hash) = 0
    BY <2>2
  <2>6. OffsetInv'
    BY <2>3 DEF OffsetInv
  <2>7. ~failed' => \A i \in Addr : i < Sector => cell'[i] = Erased
    BY <1>0, <2>1, <2>2, Units DEF EraseSector, Addr
  <2>8. EraseInv'
    BY <1>0, <2>2, <2>3, <2>5, <2>7 DEF EraseInv
  <2>9. DigestInv'
    <3>1. ASSUME Begun' = 0
          PROVE  srv'.off = 0
      <4>1. srv.off - 0 = 0
        BY <2>4, <2>5, <3>1 DEF Begun
      <4> QED BY <1>0, <2>3, <4>1
    <3> QED BY <3>1, Units DEF DigestInv, Addr
  <2>10. SwitchedImageIntact'
    BY <2>3 DEF SwitchedImageIntact
  <2> QED BY <2>6, <2>8, <2>9, <2>10 DEF BankInv
<1>4. CASE StartDfu
  <2>1. CASE srv' = SrvReset
    BY <1>1, <2>1
  <2>2. CASE srv' = [srv EXCEPT !.st = "DFU_STARTED", !.timer = TRUE,
                                !.buf = [k \in DOMAIN srv.buf |-> Garbage]]
    <3>1. srv.st = "IMAGE_SIZE_GET" /\ UNCHANGED flash
      BY <1>4, ExpectsTable DEF StartDfu
    <3>2. /\ srv'.st = "DFU_STARTED" /\ srv'.off = srv.off /\ srv'.size = srv.size
          /\ srv'.hash = srv.hash /\ srv'.erase = srv.erase
      BY <1>0, <2>2 DEF SrvRec
    <3>3. Begun' = Begun
      BY <3>2 DEF Begun
    <3> QED BY <3>1, <3>2, <3>3 DEF BankInv, OffsetInv, EraseInv, DigestInv,
                                    SwitchedImageIntact, Sized, flash
  <2> QED BY <1>4, <2>1, <2>2 DEF StartDfu
<1>5. CASE Verification
  <2>1. CASE srv.hash = Image(0, Head(c2s).len)
    <3>1. /\ srv.st = "DFU_FINISHED" /\ cell' = cell /\ failed' = failed
          /\ mixed' = (Head(c2s).len # srv.size)
          /\ srv' = [srv EXCEPT !.st = "VERIFICATION_PASS", !.timer = TRUE]
      BY <1>5, <2>1, ExpectsTable DEF Verification
    <3>2. ~failed /\ ~mixed' => Holds(srv.size)
      BY <2>1, <3>1, DigestPasses
    <3>3. /\ srv'.st = "VERIFICATION_PASS" /\ srv'.off = srv.off
          /\ srv'.size = srv.size
      BY <1>0, <3>1 DEF SrvRec
    <3>4. SwitchedImageIntact'
      BY <3>1, <3>2, <3>3 DEF SwitchedImageIntact, Holds
    <3> QED BY <3>3, <3>4 DEF BankInv, OffsetInv, EraseInv, DigestInv, Sized
  <2>2. CASE srv.hash # Image(0, Head(c2s).len)
    BY <1>1, <1>5, <2>2 DEF Verification
  <2> QED BY <2>1, <2>2
<1>6. CASE Reboot
  <2>1. /\ srv.st = "VERIFICATION_PASS" /\ UNCHANGED flash
        /\ srv'.st = "WAIT_LAST_CMD" /\ srv'.size = srv.size
    BY <1>0, <1>6, ExpectsTable DEF Reboot, SrvRec
  <2> QED BY <2>1, BankAccepted DEF Accepting
<1>7. ASSUME NEW o, Ignored(o)
      PROVE  BankInv'
  <2>1. /\ UNCHANGED flash /\ srv'.st = srv.st /\ srv'.off = srv.off
        /\ srv'.size = srv.size /\ srv'.hash = srv.hash /\ srv'.erase = srv.erase
    BY <1>0, <1>7 DEF Ignored, SrvRec
  <2> QED BY <2>1, BankKept
<1>8. CASE DataBuffered
  <2> DEFINE b == Buffered(Head(c2s))
  <2>1. srv.st = "DFU_STARTED" /\ UNCHANGED flash
    BY <1>8 DEF DataBuffered
  <2>2. CASE Len(b) > Sector
    <3>1. srv' = [SrvReset EXCEPT !.st = "OVERRUN"]
      BY <1>8, <2>2 DEF DataBuffered
    <3>2. srv'.st = "OVERRUN"
      BY <3>1, ResetType DEF SrvRec
    <3> QED BY <3>2, BankLeft
  <2>3. CASE ~(Len(b) > Sector)
    <3>1. srv' = [srv EXCEPT !.buf = b, !.st = IF srv.off = srv.size
                                                 THEN "DFU_FINISHED" ELSE srv.st]
      BY <1>8, <2>3 DEF DataBuffered
    <3> HIDE DEF b
    <3>2. /\ srv'.st \in {"DFU_STARTED", "DFU_FINISHED"} /\ srv'.off = srv.off
          /\ srv'.st = "DFU_FINISHED" => srv.off = srv.size
          /\ srv'.size = srv.size /\ srv'.hash = srv.hash
          /\ srv'.erase = srv.erase
      BY <1>0, <2>1, <3>1 DEF SrvRec
    <3>3. Begun' = Begun
      BY <3>2 DEF Begun
    <3> QED BY <2>1, <3>2, <3>3 DEF BankInv, OffsetInv, EraseInv, DigestInv,
                                    SwitchedImageIntact, Sized, flash
  <2> QED BY <2>2, <2>3
<1> QED
  BY <1>1, <1>2, <1>3, <1>4, <1>5, <1>6, <1>7, <1>8, DataFlushedBank
  DEF ServerRx, PeerReset, DataUnexpected

\* Every step keeps the invariant of the bank.
LEMMA BankStep ==
  ASSUME SessionOK, BankInv, [Next]_vars
  PROVE  BankInv'
<1>0. srv \in SrvRec
  BY DEF SessionOK, SrvOK
<1>1. ASSUME UNCHANGED <<srv, flash>>
      PROVE  BankInv'
  BY <1>1, BankKept
<1>2. CASE \E n \in Sizes : AppBleDfuStart(n)
  BY <1>1, <1>2 DEF AppBleDfuStart
<1>3. CASE ClientRx
  <2>1. \E i : Indicated(i)
    BY <1>3 DEF ClientRx, ModeAnswered, SizeAnswered, VerificationAnswered, Answered,
                StartAnswered, RebootAnswered, OutOfTurn, Refused
  <2> QED BY <1>1, <2>1 DEF Indicated
<1>4. CASE DataTxDone \/ DataTxIgnored \/ DataReadFails \/ ClientTimeout
  BY <1>1, <1>4 DEF DataTxDone, DataTxIgnored, DataReadFails, ClientTimeout
<1>5. CASE ServerRx
  BY <1>5, ServerRxBank
<1>6. CASE IndSent
  <2>1. CASE srv' = srv
    BY <1>1, <1>6, <2>1 DEF IndSent
  <2>2. CASE srv.st = "WAIT_LAST_CMD" /\ srv' = [srv EXCEPT !.st = "DISCONNECTING"]
    <3>1. srv'.st = "DISCONNECTING" /\ srv'.size = srv.size /\ UNCHANGED flash
      BY <1>0, <1>6, <2>2 DEF IndSent, SrvRec
    <3> QED BY <2>2, <3>1, BankAccepted DEF Accepting
  <2> QED BY <1>6, <2>1, <2>2 DEF IndSent
<1>7. CASE ServerTimeout
  <2>1. srv'.st = "IDLE"
    BY <1>0, <1>7 DEF ServerTimeout, SrvRec
  <2> QED BY <2>1, BankLeft
<1>8. CASE Disconnected
  <2>1. CASE srv' = SrvReset
    BY <2>1, ResetType, BankLeft
  <2>2. CASE /\ srv.st = "DISCONNECTING"
             /\ srv' = [srv EXCEPT !.st = "REBOOTED", !.timer = FALSE]
    <3>1. srv'.st = "REBOOTED" /\ srv'.size = srv.size /\ UNCHANGED flash
      BY <1>0, <1>8, <2>2 DEF Disconnected, SrvRec
    <3> QED BY <2>2, <3>1, BankAccepted DEF Accepting
  <2> QED BY <1>8, <2>1, <2>2 DEF Disconnected
<1>9. CASE UNCHANGED vars
  BY <1>1, <1>9 DEF vars, flash
<1> QED BY <1>2, <1>3, <1>4, <1>5, <1>6, <1>7, <1>8, <1>9 DEF Next

(* For images of any sizes, any number of sessions and any loss of calls   *)
(* and of the link: from the digest that app_dfu_srv_control_cb accepts to *)
(* the switch of the images in app_dfu_srv_disconn_cb, the bank holds an   *)
(* image of the announced size, although the digest is taken of the buffer *)
(* and neither the offset nor the buffer is cleared when a session begins; *)
(* unless a flash access of the session failed, which the server ignores,  *)
(* or the digest was of an image of another size.                          *)
THEOREM BankHoldsImage == Spec => []SwitchedImageIntact
<1>1. Init => BankInv
  BY ResetType DEF Init, BankInv, OffsetInv, EraseInv, DigestInv,
                   SwitchedImageIntact, Sized
<1>2. SessionOK /\ BankInv /\ [Next]_vars => BankInv'
  BY BankStep
<1>3. BankInv => SwitchedImageIntact
  BY DEF BankInv
<1> QED BY <1>1, <1>2, <1>3, SessionInit, SessionStep, PTL DEF Spec
=============================================================================
