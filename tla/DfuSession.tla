------------------------------ MODULE DfuSession ------------------------------
(***************************************************************************)
(* Firmware update over BLE: app_dfu_cli.c on the peer that holds the new  *)
(* image and app_dfu_srv.c on the device being updated.  Each callback of  *)
(* the BLE stack, and each timer callback, is one step.  Commands and data *)
(* reach the server, and indications the client, in order; the link may be *)
(* lost at any time.  Addresses are relative to new_img_addr, and a byte   *)
(* stands for its position in the image that the client reads, sends and   *)
(* digests.                                                                *)
(***************************************************************************)
EXTENDS Integers, Sequences

CONSTANTS
    Chunk,        \* BLE_TRANSMIT_SIZE
    Sector,       \* FLASH_WRITE_SIZE
    BankLen,      \* total_bank_size
    Sizes,        \* image sizes given to app_ble_dfu_start
    MaxSessions,  \* bound: calls of app_ble_dfu_start
    CallsFail,    \* TRUE: calls of the BLE stack, malloc, flash reads
                  \* and flag writes may fail
    MaxFaults     \* bound: callbacks in which a flash access fails

ASSUME UnitAssumption ==
    /\ Chunk \in Nat \ {0} /\ Sector \in Nat \ {0} /\ BankLen \in Nat \ {0}
    /\ Sector % Chunk = 0 /\ BankLen % Sector = 0
ASSUME SizeAssumption ==
    Sizes \subseteq Nat /\ \A n \in Sizes : n >= Chunk
ASSUME BoundAssumption ==
    MaxSessions \in Nat /\ CallsFail \in BOOLEAN /\ MaxFaults \in Nat

VARIABLES
    cli,       \* dfu_cli_env and whether dfu_cli_timer runs
    srv,       \* dfu_srv_env and whether dfu_srv_timer runs
    cell,      \* the bank being written
    spilled,   \* something behind the bank was erased or written
    c2s,       \* commands and data on their way to the server
    s2c,       \* indications on their way to the client
    acks,      \* confirmed indications, not yet reported to the server
    tx,        \* data writes done, not yet reported to the client
    closing,   \* the server asked for disconnection
    sessions,  \* calls of app_ble_dfu_start so far
    faults,    \* callbacks in which a flash access failed so far
    failed,    \* history: there was one since the MODE command
    mixed      \* history: a digest passed for an image of another size

vars == <<cli, srv, cell, spilled, c2s, s2c, acks, tx, closing, sessions, faults,
          failed, mixed>>

Addr == 0..(BankLen - 1)

\* Contents that are no byte of the image: flash before the update, erased
\* flash, flash written twice, and the bytes of a buffer fresh from malloc.
Old == -1
Erased == -2
Junk == -3
Garbage == -4

CliReset == [st |-> "IDLE", off |-> 0, size |-> 0, timer |-> FALSE]
SrvReset == [st |-> "IDLE", off |-> 0, size |-> 0, buf |-> <<>>, hash |-> <<>>,
             erase |-> 0, timer |-> FALSE]

\* Bytes from..from+n-1 of the image.
Image(from, n) == [k \in 1..n |-> from + k - 1]
Cmd(o, from, n) == [op |-> o, from |-> from, len |-> n]
Ind(o, ok) == [op |-> o, ok |-> ok]

flash == <<cell, spilled, faults, failed, mixed>>

\* Both sides ignore whether the stack took a message.
Sent(q, m) == {Append(q, m)} \cup {l \in {q} : CallsFail}

-----------------------------------------------------------------------------
(* The client                                                              *)

\* app_ble_dfu_start.  When the connection parameters cannot be updated the
\* command is already on its way, and the client is still idle.
AppBleDfuStart(n) ==
    /\ cli.st = "IDLE"
    /\ sessions < MaxSessions
    /\ sessions' = sessions + 1
    /\ \/ /\ c2s' = Append(c2s, Cmd("MODE", 0, 0))
          /\ cli' = [CliReset EXCEPT !.size = n, !.st = "MODE_SET"]
       \/ /\ CallsFail
          /\ c2s' \in Sent(c2s, Cmd("MODE", 0, 0))
          /\ cli' = [CliReset EXCEPT !.size = n]
    /\ UNCHANGED <<srv, flash, s2c, acks, tx, closing>>

\* app_dfu_cli_control_cb is called for an indication, which the BLE stack
\* confirms.  It begins by stopping the timer.
Indicated(i) ==
    /\ s2c # <<>>
    /\ Head(s2c) = i
    /\ s2c' = Tail(s2c)
    /\ acks' = acks + 1
    /\ UNCHANGED <<srv, flash, closing, sessions>>

Waiting == [MODE |-> "MODE_SET", IMAGE_SIZE |-> "IMAGE_SIZE_GET",
            START_DFU |-> "DFU_STARTED", VERIFICATION |-> "VERIFICATION",
            REBOOT |-> "REBOOT"]

\* Mutant: the timer, stopped by the answer, is not started again.
AnsweredUntimed(o, next, cmd) ==
    /\ Indicated(Ind(o, TRUE))
    /\ cli.st = Waiting[o]
    /\ cli' = [cli EXCEPT !.st = next, !.timer = FALSE]
    /\ c2s' \in Sent(c2s, cmd)
    /\ tx' = tx

\* The answer the client waits for: it sends the next command.
Answered(o, next, cmd) ==
    /\ Indicated(Ind(o, TRUE))
    /\ cli.st = Waiting[o]
    /\ cli' = [cli EXCEPT !.st = next, !.timer = TRUE]
    /\ c2s' \in Sent(c2s, cmd)
    /\ tx' = tx

ModeAnswered ==
    Answered("MODE", "IMAGE_SIZE_GET", Cmd("IMAGE_SIZE", 0, cli.size))
SizeAnswered == Answered("IMAGE_SIZE", "DFU_STARTED", Cmd("START_DFU", 0, 0))
VerificationAnswered == Answered("VERIFICATION", "REBOOT", Cmd("REBOOT", 0, 0))

\* The first data is a full chunk whatever the size of the image.
StartAnswered ==
    /\ Indicated(Ind("START_DFU", TRUE))
    /\ cli.st = "DFU_STARTED"
    /\ cli' = [cli EXCEPT !.st = "VERIFICATION", !.timer = TRUE, !.off = @ + Chunk]
    /\ \E d \in Sent(c2s, Cmd("DATA", cli.off, Chunk)) :
         c2s' = d /\ tx' = tx + Len(d) - Len(c2s)

\* The client is done: it clears its state and then starts the timer.
RebootAnswered ==
    /\ Indicated(Ind("REBOOT", TRUE))
    /\ cli.st = "REBOOT"
    /\ cli' = [CliReset EXCEPT !.timer = TRUE]
    /\ UNCHANGED <<c2s, tx>>

\* An answer out of turn is dropped, after the timer was stopped.
OutOfTurn(o) ==
    /\ Indicated(Ind(o, TRUE))
    /\ cli.st # Waiting[o]
    /\ cli' = [cli EXCEPT !.timer = FALSE]
    /\ UNCHANGED <<c2s, tx>>

\* An error, or the server gave up.
Refused(o) ==
    /\ Indicated(Ind(o, FALSE))
    /\ cli' = CliReset
    /\ UNCHANGED <<c2s, tx>>

\* Mutant: the last chunk is sent as a full one.
FullChunk == IF cli.off < cli.size THEN Chunk ELSE 0

\* app_dfu_cli_data_tx_cb: the next chunk, and the digest after the last one.
\* Nothing is sent when the first chunk was the whole image.
NextLen == IF cli.size - cli.off > Chunk THEN Chunk ELSE cli.size - cli.off

DataTxDone ==
    /\ tx > 0
    /\ cli.st = "VERIFICATION"
    /\ NextLen > 0
    /\ cli' = [cli EXCEPT !.off = @ + NextLen]
    /\ \E d \in Sent(c2s, Cmd("DATA", cli.off, NextLen)) :
         /\ tx' = tx - 1 + Len(d) - Len(c2s)
         /\ IF cli.off + NextLen = cli.size
              THEN c2s' \in Sent(d, Cmd("VERIFICATION", 0, cli.size))
              ELSE c2s' = d
    /\ UNCHANGED <<srv, flash, s2c, acks, closing, sessions>>

\* Nothing is left to send, or the client is in another state.
DataTxIgnored ==
    /\ tx > 0
    /\ cli.st # "VERIFICATION" \/ NextLen = 0
    /\ tx' = tx - 1
    /\ UNCHANGED <<cli, srv, flash, c2s, s2c, acks, closing, sessions>>

\* raw_flash_read fails, behind the end of the flash for one.
DataReadFails ==
    /\ CallsFail
    /\ tx > 0
    /\ cli.st = "VERIFICATION"
    /\ NextLen > 0
    /\ cli' = CliReset
    /\ tx' = tx - 1
    /\ UNCHANGED <<srv, flash, c2s, s2c, acks, closing, sessions>>

\* app_dfu_cli_ota_timer_timeout_cb
ClientTimeout ==
    /\ cli.timer
    /\ cli' = [cli EXCEPT !.st = "IDLE", !.timer = FALSE]
    /\ c2s' \in Sent(c2s, Cmd("RESET", 0, 0))
    /\ UNCHANGED <<srv, flash, s2c, acks, tx, closing, sessions>>

-----------------------------------------------------------------------------
(* The server                                                              *)

Expects == [MODE |-> "IDLE", IMAGE_SIZE |-> "MODE_GET",
            START_DFU |-> "IMAGE_SIZE_GET", VERIFICATION |-> "DFU_FINISHED",
            REBOOT |-> "VERIFICATION_PASS"]

\* The server is called for a command or for data.
Written(o) ==
    /\ srv.st \notin {"REBOOTED", "OVERRUN"}
    /\ c2s # <<>>
    /\ Head(c2s).op = o
    /\ c2s' = Tail(c2s)
    /\ UNCHANGED <<cli, acks, tx, closing, sessions>>

Answer(o, ok) == s2c' \in Sent(s2c, Ind(o, ok))

\* Mutant: the first address of the sector is missed.
EraseSectorShort(c, a) ==
    [i \in Addr |-> IF i \in (a + 1)..(a + Sector - 1) THEN Erased ELSE c[i]]

EraseSector(c, a) == [i \in Addr |-> IF i \in a..(a + Sector - 1) THEN Erased ELSE c[i]]
Behind(a) == spilled \/ a > BankLen

\* raw_flash_write and raw_flash_erase may fail, which the server ignores: an
\* erase leaves the sector as it was, a write stops on the way.
EraseResults == {TRUE} \cup {ok \in {FALSE} : faults < MaxFaults}
WriteResults(n) == {n} \cup {k \in 0..(n - 1) : faults < MaxFaults}

\* app_dfu_srv_control_cb: the offset and the buffer of an earlier session are
\* still there if that one ended with a timeout.
ModeGet ==
    /\ Written("MODE")
    /\ srv.st = Expects["MODE"]
    /\ srv' = [srv EXCEPT !.st = "MODE_GET", !.erase = 0, !.hash = <<>>,
                          !.timer = TRUE]
    /\ Answer("MODE", TRUE)
    /\ failed' = FALSE
    /\ mixed' = FALSE
    /\ UNCHANGED <<cell, spilled, faults>>

ImageSizeGet ==
    /\ Written("IMAGE_SIZE")
    /\ srv.st = Expects["IMAGE_SIZE"]
    /\ \E ok \in EraseResults :
         /\ cell' = IF ok THEN EraseSector(cell, srv.erase) ELSE cell
         /\ faults' = IF ok THEN faults ELSE faults + 1
         /\ failed' = (failed \/ ~ok)
    /\ spilled' = Behind(srv.erase + Sector)
    /\ mixed' = mixed
    /\ srv' = [srv EXCEPT !.st = "IMAGE_SIZE_GET", !.size = Head(c2s).len,
                          !.erase = @ + Sector, !.timer = TRUE]
    /\ Answer("IMAGE_SIZE", TRUE)

\* A new buffer; temp_buf_used_size is not touched.
StartDfu ==
    /\ Written("START_DFU")
    /\ srv.st = Expects["START_DFU"]
    /\ \/ /\ srv' = [srv EXCEPT !.st = "DFU_STARTED", !.timer = TRUE,
                                !.buf = [k \in DOMAIN @ |-> Garbage]]
          /\ Answer("START_DFU", TRUE)
       \/ /\ CallsFail
          /\ srv' = SrvReset
          /\ Answer("START_DFU", FALSE)
    /\ UNCHANGED flash

Verification ==
    /\ Written("VERIFICATION")
    /\ srv.st = Expects["VERIFICATION"]
    /\ IF srv.hash = Image(0, Head(c2s).len)
         THEN /\ srv' = [srv EXCEPT !.st = "VERIFICATION_PASS", !.timer = TRUE]
              /\ Answer("VERIFICATION", TRUE)
              /\ mixed' = (Head(c2s).len # srv.size)
         ELSE /\ srv' = SrvReset
              /\ Answer("VERIFICATION", FALSE)
              /\ mixed' = mixed
    /\ UNCHANGED <<cell, spilled, faults, failed>>

Reboot ==
    /\ Written("REBOOT")
    /\ srv.st = Expects["REBOOT"]
    /\ srv' = [srv EXCEPT !.st = "WAIT_LAST_CMD", !.timer = TRUE]
    /\ Answer("REBOOT", TRUE)
    /\ UNCHANGED flash

\* A command in another state gets no answer, after the timer was stopped.
Ignored(o) ==
    /\ Written(o)
    /\ srv.st # Expects[o]
    /\ srv' = [srv EXCEPT !.timer = FALSE]
    /\ UNCHANGED <<flash, s2c>>

PeerReset ==
    /\ Written("RESET")
    /\ srv' = SrvReset
    /\ UNCHANGED <<flash, s2c>>

\* app_dfu_srv_data_cb: the data goes to the buffer.  A full buffer, or the end
\* of the image, is digested and written, and the next sector is erased.
Buffered(d) == srv.buf \o Image(d.from, d.len)
Flushes(b) == Len(b) = Sector \/ Len(b) + srv.off = srv.size

\* Mutant: cur_offset is advanced before the write.
WriteFlashLate(b, n) ==
    [i \in Addr |-> IF i \notin (srv.off + Len(b))..(srv.off + Len(b) + n - 1)
                      THEN cell[i]
                      ELSE IF cell[i] = Erased THEN b[i - srv.off - Len(b) + 1] ELSE Junk]

\* The first n bytes of the buffer are programmed.
WriteFlash(b, n) ==
    [i \in Addr |-> IF i \notin srv.off..(srv.off + n - 1)
                      THEN cell[i]
                      ELSE IF cell[i] = Erased THEN b[i - srv.off + 1] ELSE Junk]

\* A failed write is logged and a failed erase not even that: the digest and
\* the offsets go on as if both had worked.
DataFlushed ==
    /\ Written("DATA")
    /\ srv.st = "DFU_STARTED"
    /\ LET b == Buffered(Head(c2s)) IN
         /\ Len(b) <= Sector
         /\ Flushes(b)
         /\ \E n \in WriteResults(Len(b)), ok \in EraseResults :
              /\ cell' = IF ok THEN EraseSector(WriteFlash(b, n), srv.erase)
                               ELSE WriteFlash(b, n)
              /\ faults' = IF ok /\ n = Len(b) THEN faults ELSE faults + 1
              /\ failed' = (failed \/ ~ok \/ n # Len(b))
         /\ spilled' = (Behind(srv.off + Len(b)) \/ Behind(srv.erase + Sector))
         /\ srv' = [srv EXCEPT !.hash = @ \o b, !.buf = <<>>, !.off = @ + Len(b),
                               !.erase = @ + Sector,
                               !.st = IF srv.off + Len(b) = srv.size
                                        THEN "DFU_FINISHED" ELSE @]
    /\ UNCHANGED <<mixed, s2c>>

\* When an odd rest of an aborted session is in the buffer, more may come than
\* it holds: the heap is overwritten and nothing is said of the server any more.
DataBuffered ==
    /\ Written("DATA")
    /\ srv.st = "DFU_STARTED"
    /\ LET b == Buffered(Head(c2s)) IN
         /\ Len(b) > Sector \/ ~Flushes(b)
         /\ srv' = IF Len(b) > Sector
                     THEN [SrvReset EXCEPT !.st = "OVERRUN"]
                     ELSE [srv EXCEPT !.buf = b, !.st = IF srv.off = srv.size
                                                          THEN "DFU_FINISHED" ELSE @]
    /\ UNCHANGED <<flash, s2c>>

DataUnexpected ==
    /\ Written("DATA")
    /\ srv.st # "DFU_STARTED"
    /\ srv' = SrvReset
    /\ UNCHANGED <<flash, s2c>>

\* app_dfu_srv_ind_cb: an indication was confirmed.
IndSent ==
    /\ srv.st \notin {"REBOOTED", "OVERRUN"}
    /\ acks > 0
    /\ acks' = acks - 1
    /\ \/ /\ srv.st = "WAIT_LAST_CMD"
          /\ srv' = [srv EXCEPT !.st = "DISCONNECTING"]
          /\ closing' = TRUE
       \/ /\ srv.st # "WAIT_LAST_CMD" \/ CallsFail
          /\ UNCHANGED <<srv, closing>>
    /\ UNCHANGED <<cli, flash, c2s, s2c, tx, sessions>>

\* app_dfu_srv_ota_timer_timeout_cb only goes back to IDLE.
ServerTimeout ==
    /\ srv.timer
    /\ srv' = [srv EXCEPT !.st = "IDLE", !.timer = FALSE]
    /\ Answer("RESET", FALSE)
    /\ UNCHANGED <<cli, flash, c2s, acks, tx, closing, sessions>>

\* Disconnection, asked for or not: app_dfu_cli_disconn_cb and
\* app_dfu_srv_disconn_cb, which switches the images, if it can, and reboots.
Disconnected ==
    /\ srv.st \notin {"REBOOTED", "OVERRUN"}
    /\ cli' = CliReset
    /\ \/ /\ srv.st = "DISCONNECTING"
          /\ srv' = [srv EXCEPT !.st = "REBOOTED", !.timer = FALSE]
       \/ /\ srv.st # "DISCONNECTING" \/ CallsFail
          /\ srv' = SrvReset
    /\ c2s' = <<>>
    /\ s2c' = <<>>
    /\ acks' = 0
    /\ tx' = 0
    /\ closing' = FALSE
    /\ UNCHANGED <<flash, sessions>>

-----------------------------------------------------------------------------
Init ==
    /\ cli = CliReset
    /\ srv = SrvReset
    /\ cell = [i \in Addr |-> Old]
    /\ spilled = FALSE
    /\ c2s = <<>>
    /\ s2c = <<>>
    /\ acks = 0
    /\ tx = 0
    /\ closing = FALSE
    /\ sessions = 0
    /\ faults = 0
    /\ failed = FALSE
    /\ mixed = FALSE

ClientRx ==
    \/ ModeAnswered \/ SizeAnswered \/ StartAnswered \/ VerificationAnswered
    \/ RebootAnswered
    \/ \E o \in DOMAIN Waiting : OutOfTurn(o)
    \/ \E o \in DOMAIN Waiting \cup {"RESET"} : Refused(o)

ServerRx ==
    \/ ModeGet \/ ImageSizeGet \/ StartDfu \/ Verification \/ Reboot
    \/ \E o \in DOMAIN Expects : Ignored(o)
    \/ PeerReset
    \/ DataFlushed \/ DataBuffered \/ DataUnexpected

Next ==
    \/ \E n \in Sizes : AppBleDfuStart(n)
    \/ ClientRx \/ DataTxDone \/ DataTxIgnored \/ DataReadFails \/ ClientTimeout
    \/ ServerRx \/ IndSent \/ ServerTimeout
    \/ Disconnected

Spec == Init /\ [][Next]_vars

\* The link layer repeats what it sends until it arrives or the link is lost,
\* a timer that is not stopped expires, and a link that is to be closed closes.
Fairness ==
    /\ WF_vars(ClientRx)
    /\ WF_vars(DataTxDone \/ DataTxIgnored \/ DataReadFails)
    /\ WF_vars(ClientTimeout)
    /\ WF_vars(ServerRx)
    /\ WF_vars(IndSent)
    /\ WF_vars(ServerTimeout)
    /\ WF_vars(closing /\ Disconnected)

FairSpec == Spec /\ Fairness

-----------------------------------------------------------------------------
(* Properties                                                              *)

CliStates == {"IDLE"} \cup {Waiting[o] : o \in DOMAIN Waiting}
SrvStates == {"DFU_STARTED", "WAIT_LAST_CMD", "DISCONNECTING", "REBOOTED", "OVERRUN"}
             \cup {Expects[o] : o \in DOMAIN Expects}

\* The client never sends more than its image, and the buffer never holds a full
\* sector between two calls.
TypeOK ==
    /\ cli \in [st : CliStates, off : Nat, size : Nat, timer : BOOLEAN]
    /\ cli.off <= cli.size
    /\ srv \in [st : SrvStates, off : Nat, size : Nat, buf : Seq(Int),
                hash : Seq(Int), erase : Nat, timer : BOOLEAN]
    /\ Len(srv.buf) < Sector
    /\ cell \in [Addr -> Int]
    /\ spilled \in BOOLEAN /\ closing \in BOOLEAN /\ mixed \in BOOLEAN /\ failed \in BOOLEAN
    /\ c2s \in Seq([op : DOMAIN Expects \cup {"DATA", "RESET"}, from : Nat, len : Nat])
    /\ s2c \in Seq([op : DOMAIN Waiting \cup {"RESET"}, ok : BOOLEAN])
    /\ acks \in Nat /\ tx \in Nat /\ sessions \in 0..MaxSessions
    /\ faults \in 0..MaxFaults

Holds(n) == \A i \in Addr : i < n => cell[i] = i

\* From the digest it accepts to the switch of the images and the reboot, the
\* server's bank holds an image of the size it was told: the digest is taken of
\* what was received, not of the flash, yet no stale offset or buffer of an
\* aborted session, lost data or unerased flash gets through.  The exceptions
\* are what the code cannot notice: a flash access of the session failed, or
\* the accepted digest is of an image of another size than the one announced (a
\* stale offset that is the difference of two sizes).
SwitchedImageIntact ==
    /\ srv.st \in {"VERIFICATION_PASS", "WAIT_LAST_CMD", "DISCONNECTING", "REBOOTED"}
    /\ ~failed /\ ~mixed
    => Holds(srv.size)

\* When the client reports success in its first session or in the next one, the
\* bank of the server holds its image, with the same two exceptions.  Answers
\* name no session: the late ones of many aborted sessions could be taken for
\* those of a later one.
SuccessIsTrue ==
    [][RebootAnswered /\ sessions <= 2 /\ ~failed /\ ~mixed => Holds(cli.size)]_vars

\* A client that got its first answer comes to an end, with success, an error
\* or its timeout, whatever is lost on the way.  The exception is a start that
\* failed half-way and left a second MODE command on its way: the answer to
\* that one is out of turn, stops the client's timer, and may strand it.
StrayMode == \/ \E k \in DOMAIN c2s : c2s[k].op = "MODE"
             \/ \E k \in DOMAIN s2c : s2c[k].op = "MODE"
ClientEnds ==
    cli.st \notin {"IDLE", "MODE_SET"} /\ cli.timer /\ ~StrayMode ~> cli.st = "IDLE"

\* config_gdm32.h reserves what is behind RE_IMG_1_END for user data.
UserDataKept == ~spilled
=============================================================================
