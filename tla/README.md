# Verification of the GD32VW55x SDK

TLA+ models, TLC runs and TLAPS proofs for the parts of the GD32VW55x
Wi-Fi/BLE SDK that hold its own logic and are hard to test: firmware update and
boot, the BLE update session, the NVDS key/value store on flash, and the Wi-Fi
management task.

## 1. The system

Most of the repository is third-party or closed (FreeRTOS, lwIP, mbedtls,
wpa_supplicant, FatFS, BLE mesh, cloud SDKs, MAC and BLE libraries, peripheral
drivers).  The SDK's own components are these.

| Component | State | Operations | Talks to |
|---|---|---|---|
| MBL boot loader (`MBL/mainboot`) | none of its own; reads and writes the ROM status area: image flags, version counter, running image | find an image, validate it, mark it, jump | ROM API, update code (through the flags only) |
| HTTP OTA client (`MSDK/app/ota_demo.c`) | download offset, erase address | request, receive and write, three flag writes | lwIP sockets, flash, status area |
| BLE DFU server (`MSDK/ble/app/app_dfu_srv.c`) | session state, working bank, offsets, buffer, timer | mode, size, start, data, verification, reboot, reset, disconnection, timeout | BLE callbacks, flash, status area |
| BLE DFU client (`MSDK/ble/app/app_dfu_cli.c`) | session state, offset, digest, timer | start, answers, data sent, disconnection, timeout | BLE callbacks, flash; the server, over the air |
| NVDS store (`MSDK/plf/src/nvds`) | flash pages (header, entry states, entries); RAM: used and free page lists, `next_free_idx`, `entry_cnt_used`, namespaces | put, get, del, find, clean, load, page allocation with garbage collection | flash, one mutex; used by Wi-Fi, BLE and applications |
| Wi-Fi event loop (`wifi_eloop.c`) | event handlers, message queue, sorted timeouts | register, cancel, dispatch | management task, timers |
| Wi-Fi management (`wifi_management.c`) | connection state machine, retry count, flags, `mgmt_wait_queue` | scan, connect, disconnect, AP, monitor, mode switch, roaming, retries | eloop, netlink, DHCP, API callers |
| Wi-Fi netlink and vif (`wifi_netlink.c`, `wifi_vif.c`) | configuration of the interface | requests to the MAC, events of the MAC forwarded to the eloop | MAC library, management |
| DHCP server (`dhcpd.c`) | lease table | discover, request, release, expiry | lwIP |
| Lists, cyclic buffer, wakelock, OS wrapper, raw flash, AT commands | small | small | everybody |

What is hard:

- *Crash recovery.*  Update and store are sequences of persistent writes, and
  power can be lost between any two of them, again during recovery.
- *Ordering.*  MBL decides on flags that outlive the image they describe; the
  order of the writes that replace them is the only protection.
- *Partial failure.*  Results of status writes are ORed together or ignored.
- *Limits.*  The store takes its last free page, reclaims the page it is
  writing to, or finds exactly the room it needs.
- *Interleaving.*  API callers, eloop handlers, timers and BLE callbacks.
- *Wrapping time* in eloop timeouts.

What makes each component correct: MBL always finds an image it may start and
never starts one it may not; an update leaves the bank it runs from alone (a BLE
update may not, section 3); NVDS is a map while power is on, and loses at most what
was being written when it is not (again with exceptions, section 4); every connect request ends in one notification; a timeout fires once, in
order; a lease is held by one client.

## 2. Plan

1. `BootOta`, `BootOtaProofs`: boot and update (done).
2. `KvStore`, `NvdsFlash`: the store and what it promises (done, except BULK
   elements, namespaces and encryption); `NvdsFlashProofs`, `NvdsLogProofs`,
   `NvdsMapProofs`: its types, its log, and that it is a map while power stays on
   (done).
3. `DfuSession`, `DfuSessionProofs`: the BLE update session, client and server (done).
4. `WifiManagement`, `WifiManagementProofs`, `WifiDrivenProofs`: the Wi-Fi management task
   and the calls that wait for it (done, except what section 8 lists).
5. Proofs that are left: what power losses may cost a store of SMALL elements
   (`PowerLossContained`, `OneLiveCopy`, `OthersUndisturbed`), and `SuccessIsTrue`.
6. Models that would come next: times in the event loop (a clock that wraps), BULK
   elements of the store, the DHCP server.

## 3. Boot and update: `BootOta`

`flag`, `bank`, `fwVer` and `runImg` are persistent: `SYS_IMAGEx_STATUS`, the two
image banks, the version counter and `SYS_RUNNING_IMG`.  A bank is `partial`
(erased or being written), `bad` (complete, fails authentication) or `good`, with
a version.  `mode` says what the processor does, `sel` is `boot_idx` in MBL and
`running_idx`/`working_bank` in an update, `exec` is the bank executed.  `hurt` is a history
variable: what an update did to the bank it was running from since an authentic image was
last started (`none`, `overrun`, or `wrongBank`, which only a wrong record of the running
image can bring about).

| Actions | Code |
|---|---|
| `BootImageFind`, `BootStatusUnreadable` | `boot_image_find`, and the branch of `main` for its errors |
| `ImageValid`, `ImageInvalid` | `image_x_validate`, the VERIFY_FAIL write of `main` |
| `MarkVerifyOk`, `SetRunningAndJump` | the last writes of `main` and the jump |
| `FetchStart`, `FetchFail`, `FetchDone` | `http_rsp_image`; `app_dfu_srv_control_cb` and `app_dfu_srv_data_cb` |
| `DfuOverrun` | `app_dfu_srv_data_cb` writing or erasing ahead past the end of bank 0, into bank 1 |
| `MarkRunningOld`, `ClearNewFlags`, `MarkNewNewer` | the three writes of `ota_demo_task` |
| `MarkRunningOld`, `SwitchBle` | the two writes of `app_dfu_srv_disconn_cb` |
| `Reset` | power loss, watchdog or reboot, at any time |

The mask ROM is closed; its status and image calls are modelled from how the
code uses them: an item is created by the first write, a write is atomic, a
version lower than the counter is refused.  `VerifyImages` is the boot option
(`IBL_VERIFY_NONE` or not), `StatusFaults` lets every status access fail.  One
update runs at a time: HTTP and BLE at once are not modelled.  Only a `good` bank, or one
that was good until the update itself damaged it, executes update code.

The HTTP client compares the image with the bank before it writes (`ota_demo.c:341`).  The BLE
server compares nothing: it stores any size, writes at `new_img_addr + cur_offset`, and after
each write erases one sector more.  Bank 0 ends where bank 1 begins, so with image 1 running
an update that is too large, that begins at a stale offset, or whose last sector is the last
one of the bank destroys the running image.  `DfuOverrun` may happen at any moment of a BLE
download into bank 0; `DfuSession` has the offsets that lead to it.

Runs (three versions, so that an older, an equal and a newer image exist):

- `boot_update` (3483 states): validation on, no status faults.  `AlwaysBootable`: in every
  state a reset would lead to an acceptable image, at once or after one image
  was marked VERIFY_FAIL.  `RunningBankKept`: no step changes the bank that is executed, but
  an overrun.  `RunningIsCurrent`, and `BackToApp`: the device always comes back to an image.
- `boot_plain` (4098 states): no validation, so the flags alone protect.
  `StaleFlagsHarmless`: VERIFY_OK and IA_OK left over from an earlier image never
  start a half-written bank.  `OnlyOneNewer`.
- `boot_faults` (432594 states): any status access may fail.  `JumpOnlyToAccepted`, `TypeOK`.

`AlwaysBootable`, `RunningBankKept`, `RunningIsCurrent`, `BackToApp` and `StaleFlagsHarmless` say
nothing once an overrun has destroyed the running image, until an authentic image is started
again: without that exception each of them is false, and the device may have no image left.
A bank 1 that is destroyed while image 0 runs is an ordinary half-written bank and is not
excepted.

With status faults `OnlyOneNewer`, which `rom_image.h` states, does not hold: when the
first flag write of an update fails, the later ones are made all the same and both
images are NEWER.  `boot_image_find` then takes image 0 first.

Fairness (`FairSpec`): MBL runs alone on the processor, so a step it can take is
taken unless a reset comes first.  Resets may come during a boot, but not during
every boot for ever (strong fairness of the steps after the choice), and a
device that spins in `BootFailed` is power-cycled at some point.  Nothing is
assumed about downloads.

## 4. The store: `KvStore`, `NvdsFlash`

`KvStore` is the promise of `nvds_flash.h`: a map with put, get, del and clean; a
put that does not fit is reported and costs the key its previous value, since
the code deletes the old element first.  `ImplementsKvStore` is its specification
under the mapping `KvStoreView` (INSTANCE ... WITH).

`NvdsFlash` has the flash pages (`flash`), the RAM of `struct page_env_tag` (`used`,
`free`, `nextFree`, `cntUsed`) and the call in progress (`pc`, `op`, `pg`, `vic`, `rng`).
Each flash write or sector erase is a step.  `kv` and `res` record what the caller
can observe when a call has returned.

| Actions | Code |
|---|---|
| `PutSame`, `PutStart`, `MarkUpdated`, `Deleted` | `nvds_data_put`, `data_element_put` up to the delete, `data_element_del` |
| `DelStart`, `DelMissing` | `nvds_data_del` |
| `SanityFail`, `HasRoom`, `MarkFull`, `StillNoRoom`, `RoomNow` | the room checks of `data_element_put` |
| `RequestFails`, `RequestPage`, `EraseFree`, `WriteHeader`, `MarkCandidate`, `CopyEntry`, `CopyMark`, `EraseVictim` | `new_page_request` |
| `WriteEntry`, `WriteData`, `MarkUsed`, `Stored` | the writes of `data_element_put` |
| `CleanStart`, `CleanPage` | `nvds_clean` |
| `PagesLoad`, `LoadInterrupted` | `pages_load` |
| `Crash`, `CrashTorn` | power loss between two accesses, or inside an erase or header write |

`Visited` and `LoadVisited` are the two different walks of the code over a page: a
search skips the data of every header, loading only that of USED headers, and
both may take a data entry for a header.  Programming flash that is not erased
leaves the AND of old and new (`Nor`): any length below both may come out.  The search
keeps its position in a `uint8_t`, and a length in a data entry taken for a header can make it
wrap; `LenAssumption` (`N + JunkLen[v] <= 256`) excludes that, so values whose bytes read as a
length beyond the 256th entry are outside the model.

`recopied` is a history variable: a reclaim chose a page that an earlier, interrupted reclaim
had already marked CANDIDATE.  A clean that runs to its end clears it.

Abstractions: a program operation is atomic except for page headers; an
erase that is cut leaves a page with an invalid header; CRCs detect every
change; encryption is off, as in the source; flash I/O errors, the listing
functions, BULK elements and named namespaces are left out; `entry_states` in RAM
equals the table in flash.  `nvds_mutex` serialises the calls, so one is in
progress at a time.

Runs:

- `nvds_power_on`: 3 pages of 2 entries, 3 keys, SMALL and MIDDLE values, up to
  sequence number 3.  Three pages give allocation with and without reclaiming;
  three keys and two entries make pages fill up with live entries.
  `ImplementsKvStore`, `NoSpaceOnlyWhenFull`, `CountsExact`, `TypeOK`, and
  `EveryCallReturns` under weak fairness of the steps of a call: the task that
  made it is scheduled until it returns.
- `nvds_power_loss`: 3 pages of 2 entries, two keys with a SMALL value, up to sequence number
  3, three power losses anywhere, also while loading (320,147 states).  With three pages a
  reclaim can follow an interrupted one, which two never allow.  `OneLiveCopy`: nothing
  deleted or replaced comes back.  `OthersUndisturbed`: a call changes its own key only,
  whatever earlier losses left behind.  `PowerLossContained`: a loss costs at most the element
  in hand and elements of the page being reclaimed.  All three except `recopied`, which the run
  reaches: without the exception TLC finds `OneLiveCopy` violated (a cut reclaim, a cut clean
  that makes a free page again, then a reclaim of the CANDIDATE page, whose old copies live
  on beside the first copies).  The same instance up to sequence number 4 holds as well
  (903,030 states).
- `nvds_power_loss_middle`: 2 pages of 3 entries, SMALL and MIDDLE, one power loss (170,049
  states).  `PowerLossContained` and `TypeOK` only: with MIDDLE elements the other two are not
  claimed after a loss.
- `nvds_put_lost` (finding): the entry after the last USED one need not be erased
  after a power loss; the next put programs over it and returns NVDS_OK although
  nothing can be read.
- `nvds_no_space` (finding): power loss while a page is being reclaimed leaves no
  free page, and nothing finishes the reclaim: NVDS_E_NO_SPACE for ever.

Further facts from the model.  With MIDDLE elements `OthersUndisturbed`
does not hold after a power loss: a put cut between marking its header and its
data leaves an element that reads well until the next reclaim copies only the
header.  Nor does `OneLiveCopy`, once a page has five entries or more: a delete that is cut in the
middle of a MIDDLE element lets `pages_load` take a data entry for a header and skip an erased
entry; elements put behind it are not seen by `element_find`, and a reclaim then copies two live
ones.  And a `nvds_clean` that is cut after an unfinished reclaim can leave the
CANDIDATE page last in the used list: every put then fails with NVDS_E_FAIL
(`SanityFail`) until the next clean.

Keys, and values of the same length, are interchangeable in `Spec`, so the
power-loss runs use symmetry; they check no liveness.

## 5. The BLE update session: `DfuSession`

`cli` and `srv` are `dfu_cli_env` and `dfu_srv_env` with their timers; `c2s` and `s2c` the
commands, data and indications on their way, in order; `acks` and `tx` the reports
of the stack (indication confirmed, data sent) not yet delivered; `cell` the bank
being written, `spilled` whether anything behind it was touched; `faults` counts the callbacks
in which a flash access failed.  Two history variables name what the server cannot notice:
`failed`, a write or an erase of this session failed; `mixed`, the accepted digest is of an image
of another size than the one announced.  A byte of the
image is its position, a digest is the sequence of bytes it was taken of, and
addresses are relative to `new_img_addr`.

| Actions | Code |
|---|---|
| `AppBleDfuStart` | `app_ble_dfu_start`, with both early returns |
| `ModeAnswered`, `SizeAnswered`, `StartAnswered`, `VerificationAnswered`, `RebootAnswered`, `OutOfTurn`, `Refused` | `app_dfu_cli_control_cb` |
| `DataTxDone`, `DataTxIgnored`, `DataReadFails` | `app_dfu_cli_data_tx_cb`, `app_dfu_cli_send_verification_cmd` |
| `ModeGet`, `ImageSizeGet`, `StartDfu`, `Verification`, `Reboot`, `Ignored`, `PeerReset` | `app_dfu_srv_control_cb` |
| `DataFlushed`, `DataBuffered`, `DataUnexpected` | `app_dfu_srv_data_cb` |
| `IndSent` | `app_dfu_srv_ind_cb` |
| `ClientTimeout`, `ServerTimeout` | the two timer callbacks |
| `Disconnected` | both disconnection callbacks |

Abstractions: a callback is atomic, also against the timer callback; a disconnection
is seen by both sides at once; what the server does after its buffer overran (`OVERRUN`) is
not followed.  `CallsFail` lets every call of the stack, `malloc`, `raw_flash_read` and the flag
writes fail, whether or not the code looks at the result.  In up to `MaxFaults` callbacks of the
server `raw_flash_write` stops after any part of the data, or `raw_flash_erase` does nothing: the
first is only logged, the second not even that, and the digest and the offset go on.

Runs (a sector is two chunks, so that a buffer can be half full):

- `dfu_session`: two sessions, an image of five bytes (a sector and an odd rest), one callback
  with a failing flash access (657,035 states).  Two sessions are what a stale offset, buffer,
  answer or confirmation needs.  `SwitchedImageIntact`: the digest is taken of the buffer, yet
  what it accepts is in the bank, because the end of the image is found by the offset and a
  stale one makes the digest cover too little; unless `failed` or `mixed`.
  `SuccessIsTrue`: what the client reports as done in its first session or in the retry is
  in the bank, with the same exceptions.  Nothing is claimed of later sessions, since answers
  do not say which session they belong to.
  `ClientEnds`: under weak fairness of deliveries (the link layer repeats until the link
  is lost) and of running timers.  `TypeOK`.  The session may stop (no more starts, server
  rebooted), so deadlock is not checked.
- `dfu_user_data` (finding): an image of 13 bytes fits a bank of 20 with a sector to spare;
  the server times out after three sectors, the client sends it again, and the server
  writes on from there, past the end of the bank.  The first sector behind
  the stale offset had been erased ahead; what follows is written over the old contents.

Further facts from the model.  `failed` is a real exception and the run reaches it: a write that
fails is digested all the same, verified, and the images are switched.  `mixed` needs two image
sizes that differ by a stale offset, and a session that a half-failed start left behind (a
stray MODE command): with images of 5 and 9 bytes and sectors of 4, the IMAGE_SIZE of the larger
image meets the data and the digest of the smaller one, which is accepted although it was written
four bytes too far.  That takes three sessions with calls that fail, more than the run has;
the proof covers it.  With a third session and no failing calls the odd rest of an
aborted one overruns the buffer (`OVERRUN`).  A verified update is dropped when the server's
500 ms timer expires between the confirmation of REBOOT and the disconnection, or when
the client's timer, which it starts after reporting success, sends RESET first.  A client
in MODE_SET has no timer: if the server ignores the command, both wait until the link is
lost.

## 6. Wi-Fi management: `WifiManagement`

`sm` is the data of the interface: the mode (`type`), the state (`st`; the three machines
share it, a union in the code), `retry_count`, the flags (`delayed` is
`delayed_connect_retry`), the pending timeouts (`timers`, and `links` for the link polls,
of which there may be several), the event queue and `mgmt_wait_queue`.  Three ghosts: `lost`,
a message of the task or of the MAC met a full queue; `up` in an answer, the station was
connected when it was posted; `lacks`, what the state was entered without: a scan, because of
`delayed_connect_retry`, or a timer, because `eloop_timeout_register` had no memory.  `mac` is the closed MAC library, as netlink uses it: a scan
under way, and the link (`none`, `joining`, `joined`, `failed`, `open`, `leaving`).  `task`
holds the call each other task is in, as a position in a script of sends, flushes and waits.

| Actions | Code |
|---|---|
| `ScanCmd`, `ConnectCmdIdle`, `ConnectCmdConnected`, `AutoConnectCmd`, `LinkIsOngoing`, `DisconnectCmd` | commands, in the states where they do the same |
| `ScanDoneScan`, `ScanFailScan`, `ConnectFailScan`, `AssocSuccess`, `DhcpStart`, `DhcpSuccess`, `AttemptFails` | the rows of SCAN, CONNECT, HANDSHAKE, DHCP with the state entries `EnterScan`, ... |
| `ScanDone`, `ScanDoneConnected`, `ScanDoneFallThrough`, `ScanFail`, `LinkLost`, `RoamingStart` | IDLE, CONNECTED and the started SoftAP and monitor; the SCAN_DONE row of CONNECTED has no `break` and posts a second answer |
| `StartCmd`, `SwitchMode` | SoftAP and monitor start, `mgmt_switch_mode` |
| `Ignored` | empty rows and `unexpected_events` |
| `DhcpPolling`, `LinkStatusPolling`, `ConnectRetry` | the timeout handlers |
| `MacScanEnd`, `MacJoin`, `MacHandshake`, `MacLeft`, `MacDrop`, `MacRoam` | events of the MAC, through `wifi_netlink_msg_forward` |
| `HandshakeFails`, `SaQueryFails` | CONNECT_FAIL and DISCONNECT of the supplicant (`wifi_wpa.c`) |
| `Call`, `CallSend`, `CallNoMemory`, `CallFlush`, `CallBlock`, `CallFetch`, `CallTimeout` | `wifi_management_connect`, `_connect_with_bssid`, `_disconnect`, `_scan`, `_ap_start`, `_monitor_start`, `_sta_start` |

A handler is one step, because only the two queues, `scan_blocked` and `wvif_type` are
touched by other tasks; the one handler that posts twice is two steps.  A call is one step
for each access to shared state.  A timeout fires at any moment after it is registered,
in any order, and a wait may time out whenever its queue is empty.  Roaming and automatic
connection have their own retry limit in the code; both limits are `RetryLimit` here.  Every registration
of a timeout may fail for lack of memory; the callers ignore it, and so does the model
(`Register`).  The MAC is assumed to take a disconnect request, whose result
`wifi_netlink.c:1609` ignores as well: `DownIsQuiet` rests on it.

Runs:

- `wifi_management`: two tasks, each kind of call, queues of two entries, one retry, two DHCP
  polls, and two calls, link losses or roamings in all (`MaxOutside`); 2,060,910 states.  The
  connect does not wait for its answer here: that adds states of the wait queue only, which the
  other calls have too, and the run below has the one that waits.  Two outside
  events are what a stale event needs: one that leaves it behind and one that
  starts what it hits; short queues make overflow frequent.  `RetryBacked`: the unsigned
  `retry_count` is decremented without a test.  `PollsEndWithState`, `DownIsQuiet`: nothing of
  an attempt outlives it.  `OnlyCommandsConnect`: nothing but a command brings a station up.
  `ConnectedMeansLink`: a CONNECTED station has a link or will hear that it is gone.
  `StrandedOnlyDelayed`: every state of an attempt has something to wait for, unless a message was
  lost, SCAN was entered without a scan because of the flag, or the timer that SCAN or DHCP
  needs was refused.  `TypeOK`.
- `wifi_connect_ok` (finding): one blocked connect with the queue sizes and the retry limit of the
  code (and two DHCP polls where it has 200).  When the last scan cannot be started, the failure
  is an event without a reason, and the call returns 0, success, although the station is
  IDLE.  A DHCP failure in the last attempt carries no reason either, but 200 polls of 100 ms
  take as long as the call waits, so the call times out first in practice; the trace takes the
  scans.

The tasks are interchangeable, so the first run uses symmetry; it checks no liveness.
Both stop when the outside events are used up, so deadlock is not checked.  No fairness is
stated: the calls end by their timeouts whatever the task does, and that an attempt ends
depends on the MAC library, of which the source says nothing; `Driven` is the
safety part of it.

Further facts from the model:

- `StrandedOnlyDelayed` names a real case.  A failed attempt sets `delayed_connect_retry` and the
  retry timer; a late SCAN_DONE moves the station on before the timer fires, and
  DHCP_SUCCESS cancels the timer but not the flag.  At the next loss of the link SCAN is
  entered, sees the flag, and starts nothing: the station stays there until a disconnect.
- A retry timer or a DHCP poll that could not be registered has the same effect: nobody looks at
  the result, and SCAN stays until a disconnect, DHCP also until the link is lost.
- A DHCP poll may run on in CONNECTED, after DHCP_SUCCESS of an earlier link ended DHCP; its
  event is ignored there.
- A disconnect may be answered by a DISCONN_DONE of an earlier IDLE entry, before its own
  command was handled; a roaming CONNECT_CMD queued behind the DISCONNECT_CMD connects again.
- Two callers of a blocking function take each other's answers; a second connect
  during an attempt makes the first one fail (`LinkIsOngoing`).
- `scan` and `monitor_start` flush the wait queue after they have sent their command, and can
  throw their own answer away.
- A CONNECT_FAIL that arrives in SCAN ends the attempt without an answer to the caller, who
  then waits for the timeout.
- A full event queue loses SCAN_DONE, CONNECT_FAIL or DISCONNECT for good (`lost`).

## 7. Proofs

A theorem holds for every value of the constants that satisfies the ASSUMEs of its model
and the hypotheses it states.  Every inductive invariant was checked by TLC on small
instances before it was proved.

| Module | Theorem | States | Hypotheses |
|---|---|---|---|
| `BootOtaProofs` | `TypeCorrect` | `TypeOK` | |
| | `DeviceAlwaysBootable`, `RunningImageKept`, `RunningImageCurrent` | `AlwaysBootable`, `RunningBankKept`, `RunningIsCurrent` | validation on, no status faults |
| | `JumpsAreAccepted` | `JumpOnlyToAccepted` | validation on |
| | `AtMostOneNewer` | `OnlyOneNewer` | no status faults |
| | `StaleFlagsAreHarmless` | `StaleFlagsHarmless` | validation off, no status faults |
| `NvdsFlashProofs` | `TypeCorrect` | `TypeOK` | |
| `NvdsLogProofs` | `CountsAreExact` | `CountsExact` | power stays on |
| `NvdsMapProofs` | `StoreIsMap` | `ImplementsKvStore` | power stays on |
| | `OneCopyWithPower`, `OthersKept` | `OneLiveCopy`, `OthersUndisturbed` | power stays on |
| | `PutOkWithPower`, `RefusedOnlyWhenFull` | `PutOkStored`, `NoSpaceOnlyWhenFull` | power stays on |
| `DfuSessionProofs` | `TypeCorrect` | `TypeOK` | |
| | `BankHoldsImage` | `SwitchedImageIntact` | |
| `WifiManagementProofs` | `WifiTypes`, `RetryNeverWraps`, `PollsEnd`, `DownStaysQuiet`, `ConnectedIsBacked`, `UpByCommand` | `TypeOK`, `RetryBacked`, `PollsEndWithState`, `DownIsQuiet`, `ConnectedMeansLink`, `OnlyCommandsConnect` | |
| `WifiDrivenProofs` | `AttemptsAreDriven` | `StrandedOnlyDelayed` | |

### `BootOtaProofs`

- `BootInv`, for a device that validates.  `AlwaysBootable` alone is not inductive: marking
  the running image OLDER keeps it only because that image carries VERIFY_OK, gets IA_OK in
  the same write, and is as new as the version counter.  `BootInv` says so: between a
  reset and the jump some authentic, current image satisfies one of the rules of
  `boot_image_find`; while an image runs it is the one in `exec`, it is VERIFY_OK
  and its version is the counter's; while an update writes flags, the new image
  is either not preferred yet or the running one is proven.  All of it is said of a
  device whose running image no overrun has destroyed; the invariant holds again from the
  next jump to an authentic image.  `RunningBankKept` follows from the part that `exec` is
  the image in `SYS_RUNNING_IMG`, which is where both updates look to choose their bank.
- `JumpInv`, whatever status accesses fail: after `image_x_validate` the selected image is
  authentic and its version is that of the counter; and the counter never goes back.
- `NewerInv`: an image whose item was never created is not NEWER, and before the last flag
  write of an update the running image is not either.  With status faults this is false
  (section 3), so the hypothesis is needed.
- `PlainInv`, for a device that does not validate: no image is marked failed, some image is
  usable, and when none is NEWER the one `boot_image_find` takes is complete; MBL holds on to
  that choice until it jumps; while an image runs it is the one in `SYS_RUNNING_IMG`, usable
  and VERIFY_OK; again unless an overrun destroyed it.

### `NvdsFlashProofs`, `NvdsLogProofs`, `NvdsMapProofs`

`TypeInv` covers power losses at any access: beside `TypeOK` it says that every header, also
one that a program operation on unerased flash left behind, leaves room for its data
(`HdrFits`), and what each access relies on (`Prepared`): there is a page in the list it
takes one from, the entries it writes or marks are in the page, the copying loop never has
more copied than read.

`LogInv` describes the log while power stays on.

- `Lists`: a page is in one list at most, and free pages are blank.
- `PageInv`: up to `next_free_idx` a page is headers, each followed by its own data, and all
  entries of an element share its state (`Layout`); nothing there is erased (`Touched`);
  elements are complete (`Whole`), except the one being written and the one being copied;
  `entry_cnt_used` is the number of entries that are USED or about to be.
- `Stage`, `Phase`: how far a delete, a write, a marking or a copying loop has come.

`CountsExact` needs all of it: the count goes up by the size of an element before its entries
are marked one by one, and down after they are, so it can only be exact if the
walk meets each element once and whole.  After a power loss the page layout is what
is lost: the entry after the last USED one may be programmed, a header may stand without
its data.  That is why these theorems assume `MaxCrashes = 0`; they are about every state a
device can be in that has kept its power, not about a restriction of its calls.

`MapInv` adds what the log stands for.  The live headers are those of the used pages and,
during a reclaim, those of the victim that the loop has not reached.  They are exactly the
map `Expect`, which is `kv` with the call's own key changed as far as the call has got:
one header for each key that has a value, with that value (`Maps`).  Four lemmas
say what a step may do to it: leave the live headers (`MapsSame`), remove one, add one, or
move one to another page.  `HeadersRead` shows that the walk of `element_find` meets every
header, and with `ReadsRight` what a get returns is the map; the refinement of `KvStore`
follows by cases on what a call returns (`Result`).

`SpaceInv` is what `NoSpaceOnlyWhenFull` needs beside: a free page is left whenever a page is
requested, the victim has the fewest used entries of all pages, and while it is copied
`next_free_idx` of the new page plus the entries still to be copied is the victim's count.  So
when the new element does not fit behind the copies, it fits in no page.

The entries a walk visits are a set of indices (`Walk`), and least elements are found with the
well-foundedness of finite subsets (`LeastNat`): the proofs use no induction over data.

### `DfuSessionProofs`

`SessionOK` has the types, that a client sends within its image and that an IMAGE_SIZE is one
of `Sizes`.  `BankInv` is the argument for the missing reset of `cur_offset`:

- `OffsetInv`: in DFU_FINISHED the offset is the announced size.
- `EraseInv`: a session whose digest began at offset 0 (`Begun`) has erased flash in front of it,
  one sector ahead of the offset.
- `DigestInv`: in such a session, unless a flash access failed, everything digested is in the
  bank at its place.

A digest that began at a stale offset is shorter than the announced size by that offset.  It is
accepted only as the digest of a smaller image, and that is what `mixed` says; otherwise the
accepted digest has the announced size, began at offset 0, and the bank holds it.  No
assumption on the image sizes is needed.

### `WifiManagementProofs`, `WifiDrivenProofs`

One invariant `WifiInv` carries the first six theorems.  Its parts:

- `Good`: types, and what relates fields of the machine: a retry timer needs a retry left, polls
  need their states, a machine that is down has no timers.  The retry part is
  inductive because every registration is under `retry_count > 0`, EnterIdle cancels the
  timer, and only `mgmt_connect_retry` itself decrements the count.
- `Told`, `QueueTold`, `StateTold`: the link in the MAC against the events still queued.  That
  CONNECTED is backed by a link is not inductive: the step from DHCP to CONNECTED keeps it
  only if the same holds in DHCP, and the step into DHCP only if it holds of the
  DHCP_START that is handled, which may have waited in the queue while the link was lost.  So
  the invariant says, of both states and of each DHCP_START in the queue, that the link is
  there or its DISCONNECT follows, unless a message was lost.
- `CallsOK`: each task is at a step of its script.

`StrandedOnlyDelayed` needs `DriveInv` beside: each ASSOC_SUCCESS in the queue is about the
link the MAC still has, or an event that ends HANDSHAKE follows it in the queue; and in CONNECT
and HANDSHAKE a link that is being closed has its failure queued.  Otherwise a stale
ASSOC_SUCCESS could lead into HANDSHAKE with nothing to follow.  In SCAN and DHCP `lacks` tells the
states that were entered without their scan or timer from the others, whose retry or poll is
then shown to be pending until it fires or its successor event is queued.

The helpers and state entries have lemmas of their own (what `Send`, `Post`, `EnterIdle`, ...
preserve); the step lemmas have one case per action.  A retry limit of at least 2, which
`LimitAssumption` asks for, is what the code has.

### Only model-checked

- Liveness: `BackToApp`, `EveryCallReturns`, `ClientEnds` (TLAPS does not prove it).
- The store after power losses: `OneLiveCopy`, `OthersUndisturbed`, `PowerLossContained`, for the
  instances the runs name and with the exceptions of section 4 (a CANDIDATE page reclaimed
  again, MIDDLE elements).
- `SuccessIsTrue`, which is bounded to the first session and its retry.

## 8. Not modelled

The components marked `not_modelled` in `PROJECT.json`: third-party code, which is almost all of
the repository's two million lines, closed libraries, drivers, text and socket I/O.
Of the SDK's own code:

- Wi-Fi management: WPS, EAP-TLS, concurrent mode (two interfaces), IPv6 polling, the
  events of the supplicant's frames, STOP_AP_CMD and channel switches of a started SoftAP,
  the setters, the checks of arguments.  In the event loop: times.  Timeouts are sorted by a
  plain comparison of a clock that wraps, and run by a wrap-aware one; that
  order is inside what the model allows, the delay it causes is not shown.
- NVDS: BULK elements, named namespaces, encryption, the listing functions.
- The DHCP server, SoftAP provisioning, the cyclic buffer, wakelocks, the BLE managers.
- The composition of `DfuSession` with `BootOta`: `BootOta` has its own abstract download.
