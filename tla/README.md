# A formal model of LibOSDP

LibOSDP implements both ends of the Open Supervised Device Protocol: the control
panel (CP) that polls up to 126 peripheral devices (PDs) on a half-duplex line,
and the PD that answers. This directory holds TLA+ models of its core, the TLC
configurations that check them and TLAPS proofs about them. Every definition is
translated from the C source; `PROJECT.json` maps each to its lines.

## Inventory

| Component | State | Operations | Hard behaviour |
|---|---|---|---|
| CP protocol FSM (`osdp_cp.c`: `state_update`, `get_next_*_state`, `cp_transition_effects`, `cp_state_change`) | `pd->state`, `request`, SC flags, SCBK | one pass per refresh | transitions overridden by requests; callbacks in the middle of a pass; default-key fallback; ENFORCE_SECURE |
| CP commands (`osdp_cp.c`) | `cmd_queue`, `active_cmd`, `engine_cmd` | submit, flush, cancel, complete | exactly-once completion across outages and re-entrant callbacks |
| CP exchange (`cp_phy_state_update`, `cp_process_reply`, `cp_decode_response`) | `phy_state`, `phy_retry_count`, `cmd_id`, `reply_id`, timers | build, send, wait, retry | BUSY, timeouts and NAK(MSG_CHK) share a retry budget; partial failure of build and send |
| CP bus (`osdp_cp_refresh`) | current PD, bus busy | round robin | one exchange at a time on the line |
| Link (`osdp_phy.c`: sequence numbers, reply cache) | `seq_number`, `phy_tx_seq`, `last_tx_len`, `last_cmd_id` | next, rewind, repeat | lost, repeated and late packets; restarts of either end |
| Framing (`osdp_phy.c`, `osdp_common.c`) | `packet_buf`, receive ring | scan for SOM, length, CRC | resynchronisation in a noisy stream |
| PD FSM (`osdp_pd.c`) | `pd->state`, event queue, parked reply | receive, decode, callback, build, send | transport back-pressure, events against inline replies, SC and link timeouts |
| Secure channel (`osdp_sc.c`, `crypto/`) | session keys, MAC chain, SCBK | handshake, MAC, encrypt | loss of a KEYSET acknowledgement, MAC chains in step |
| File transfer (`osdp_file.c`) | offset, state, flags | CP sends, PD stores | abort, delays asked for by the PD, interleaving with polls |
| Multipart, PIV, biometrics (`osdp_multipart.c`, `osdp_piv.c`, `osdp_bio.c`) | one reassembly slot per PD | segment, reassemble | one slot, several engines, timeouts |
| Transparent reader (`osdp_trs.c`) | card session band, nested FSM | open, APDU, close, probe | app band against library probe |
| Metrics, diagnostics | counters, capture file | report | none: nothing feeds back |
| Bindings and ports (`python/`, `dotnet/`, `osdp.hpp`, `esp-idf/`, `zephyr/`, `platformio/`) | none of the protocol | wrap the C API | none |

How they interact: the application calls `osdp_cp_refresh()`, which runs one pass
of `state_update()` for the PD that has the bus. A pass drives the exchange FSM,
which calls the link code to frame and number a packet and the secure channel to
MAC it. When an exchange ends, the same pass judges the reply, completes the
application's command through a callback and picks the next state. API calls post
bits in `pd->request` or put commands in the queue. Nothing runs in parallel:
concurrency means the order of API calls, callbacks, replies and timers. The PD
mirrors this with `osdp_pd_refresh()`.

What makes each component correct:

- CP FSM: no plain-text or default-key traffic where the application asked for
  security; an outage leaves nothing of the old session behind; lifecycle calls
  take effect.
- CP commands: an accepted command is handed back exactly once, and OK means that
  the PD answered it.
- CP exchange: retries are bounded and repeat the command they retry.
- Link: the PD executes a command at most once however often it is repeated, and
  the CP takes no reply for the answer to another command.
- PD FSM: an event is reported once; a command whose reply cannot be sent at once
  is neither forgotten nor executed again.
- Secure channel: the ends agree on the key, or can return to agreement.
- Engines: a long-running command ends once, and the shared slot is released.

The places where this can go wrong in ways a test would hardly reach are the
`hazards` of `PROJECT.json`, each at its line.

## Plan

In the order in which it was carried out:

1. **CpFsm**: protocol FSM, exchange FSM, commands and lifecycle API of one PD,
   against an environment that may do anything. Proofs in **CpFsmProofs**.
2. **Rpc** and **Link**: what the link promises, and the sequence protocol of both
   ends over a lossy, slow line, shown to implement it. Proofs in **LinkProofs**.
3. **PdCore**: the PD from the receive path to the completion of an event, against
   a CP that may do anything. Proofs in **PdCoreProofs**.
4. **FileTransfer**: the sender's engine in the CP, the receiver's in the PD and the
   file that is stored, over a link that answers repeats from the cache. Proofs in
   **FileTransferProofs**.
5. **SecureChannel**: both ends of a session: handshake, keys, MAC chain, KEYSET,
   over a line that loses and garbles frames. Proofs in **SecureChannelProofs**.
6. **CpBus**: several PDs in `osdp_cp_refresh()` on one line, each reduced to what
   the bus sees of it. Proofs in **CpBusProofs**.
7. **Engines**: card and biometric operations of both ends over the multipart
   engine, and the completion slot they share with a file transfer. Proofs in
   **EnginesProofs**.
8. **Trs**: the card session, the application's band and the library's own probe.
   Proofs in **TrsProofs**.

The runs put one question each; where a property is proved for every instance, or
a violation repeats what another one shows, the run made way for one of a module
that came later, and the result is kept under *Seen while modelling* or *Proofs*.

Every safety property and action property that a run checks is a theorem now. Open:
the refinement of Rpc on a line that garbles frames, for which Rpc has to say how often a
command may then be executed; an instance of Trs whose callbacks call more of the API
than `submit`.

## Modules

### CpFsm

One PD as the CP sees it. Variables carry the names of the fields they model:
`state`, `phy` (`phy_state`), `retry` (`phy_retry_count`), `cmd`, `reply`,
`request`, `queue`, `active`, the security flags, `scbk`. `crc` is the flag
`CP_USE_CRC` with the capability the PD declared. `err` and `next` are the locals
of `state_update()`; `owner`, `outcome`, `answered`, `onlineSecure` and `wire` are
history variables that only the properties read.

*Grain.* A refresh is one pass of `state_update()`. It is split where the code
hands control to the application (`pc`): after the completion callback
(`settled`), and inside `cp_state_change()` when the SC-status notification fires
before `pd->state` is assigned (`entering`). `inApp` says that application code
has control; the API actions require it. The callbacks that are not given a label
commute with what follows them: the event callback of `cp_decode_response()` may
submit or flush, but the rest of the pass reads neither queue nor owner; the
notifications of `cp_transition_effects()` and the PD-status notification come
where a lifecycle call is read as if it had been made before or after the pass.

*Exchange.* `PhyBuild`, `PhySend`, `PhySendWait` are the SEND states; each outcome
of `cp_process_reply()` is an action: `PhyReply`, `PhyTimeout`, `PhyBusy`,
`PhyNakCheck`, `PhySeqMismatch`, `PhyBadFrame`, `PhySecurityRefusal`,
`PhyDecodeFailure`, `PhyUnknownReply`. The PD and the transport are not
constrained: any of them may happen in answer to any command, except that the
decoder's own order checks on CCRYPT and RMAC_I (`InOrder`) are kept.

*Pass.* `IdleHandshake`, `IdleDequeue`, `IdlePoll` pick a command
(`state_get_cmd`); `Settle` judges a finished exchange (`state_check_reply`,
`cp_cmd_failure_is_soft`, `cp_keyset_complete`, `cp_complete_cmd`); `Advance` and
`LinkReset` choose the next state and enter it; `EnterState` finishes
`cp_state_change()`.

*Data.* Commands are `PLAIN` (answered by an ACK), `QUERY` (answered by a report),
`MFG` and `KEYSET`. NAK codes are three classes: those the CP blames on the
command (`NAK_APP`), MSG_CHK, and those it blames on the link (`NAK_LINK`); the
NAK its own decoder records is `NAK_LOCAL`. Timers are nondeterministic.

*Left out of CpFsm.* The TRS states (Trs), file, PIV and biometric commands
(FileTransfer, Engines), other PDs (CpBus); sequence numbers (a mismatch is a nondeterministic reply); `CP_REQ_OFFLINE`, which only a
finished file transfer posts (`osdp_file.c:103`, see FileTransfer); `osdp_cp_cancel`,
which acts on the file, PIV and biometric engines only; `pd->peer_rx_size` and
identity checks. Submitting an object twice while the library owns it is a misuse
of the API and not modelled.

### Rpc and Link

`Rpc` is what the two ends rely on: one command at a time, executed at most once,
answered by its own reply or given up. The exceptions are written down in it: a
command that restarts the sequence is executed whenever the PD sees it, and a PD
that restarted has forgotten what it did.

`Link` is how the code provides that. CP: `cpSeq`/`txSeq` are `seq_number` and
`phy_tx_seq`; `CpSend` and `CpRetry` are SEND_CMD for a new and a repeated command
(the rewind of the sequence number is `RewoundSeq`); each outcome of
`cp_process_reply()` that treats the sequence differently is an action
(`CpAnswer`, `CpCryptogram`, `CpNak`, `CpUndecodable`, `CpSeqMismatch`, `CpNoise`,
`CpTimeout`); `Settle` is the end of an exchange with the state that follows.
PD: `PdRepeat`, `PdExecute`, `PdRefuse` are the three ways through
`phy_check_packet()`, `PdNoise` is `pd_error_reset()`; `cache` is the staging
buffer with `last_cmd_id`, or `NoReply` when `last_tx_len` is 0.

*The line.* `toPd` is the PD's receive buffer, `toCp` the CP's transport and `rxRb`
what the library has read from it: a retry flushes the second only, a reset of the
phy flushes both, the transport only if the channel has a flush callback. A
full buffer drops the frame (`Put`). A slow PD, or one that parks its reply, is a
command that waits in `toPd` while the CP times out (fault `late`). A PD does answer
within the five minutes of the OFFLINE dwell and within a restart of the CP, hence
the guard `toPd = <<>>` of `CpReconnect` and `CpRestart`.

*Abstractions.* No session is established: where the PD is SC capable
(`ScCapable`) the handshake is attempted, restarts the sequence and fails, which
is how the second attempt and the fallback to ONLINE come into the sequence
protocol. A running session is in SecureChannel. `OUT` is any
command of the application. Command names (`Ids`) tell commands apart for the
properties; one is reused once nothing remembers it, and `CpSend` waits for one.
In the instances six names never run out: TLC finds no idle CP without a free one.
The zero-copy build (`OPT_OSDP_RX_ZERO_COPY`) is not modelled.

### PdCore

One PD with its application; the CP is the environment. Variables carry the names
of the fields: `online`, `sc`, `useScbkd`, `install`, `enforce`, `scbk`, `cmd`
(`cmd_id`), `reply` (`reply_id`), `parked` (`reply_prebuilt`), `queue`, `active`.
`scratch` is the union in which `keyset_pending`, `comset_pending` and `nak_code`
live: receiving anything overwrites the key in it. `owner`, `owed`,
`accepted` are history; `wire` and `handed` are what left the PD and what
was handed back in the last step.

*Grain.* A refresh is one pass of `osdp_pd_update()`, split at the labels of `pc`
where the application gets control (`command`, `completing`) and where the pass may
return early (`idle`, `receive`, `decoded`, `built`). `Begin` is the timers,
`Receive` the phy layer and the decoder, `CallbackReturns` the rest of the decoder,
`Build` is `pd_build_reply_packet()`, `Send` is `pd_send_reply()` with the tail of the pass.
Inside the completion callback `active` still names the event that is handed back
(`pd->active_event` is cleared after the call), and the application may submit that
very event.

*Data.* Commands are classes by what the decoder does with them: POLL; answered by
the library (`ID`, `KEEPACTIVE`); acknowledged (`LED`), answered by an event or an
acknowledgement (`MFG`), by an event or the application's report (`STAT`), `KEYSET`,
`COMSET`; the handshake. A command of several records calls back once in the
model. Whether a cryptogram verifies, a record fits, or a timer has run out is
nondeterministic. A frame with sequence number 0 (`restart`) ends the session; other
sequence numbers belong to Link, so a repeat answered from the cache is
`ReceiveNothing`. In install mode any frame with a security block may ask for the
default key (`HandshakeKey`).

*Left out.* File, biometric and PIV engines (FileTransfer, Engines), the
transparent reader (Trs), the COMSET_DONE timer, packets that tell the PD its receive
size.


### FileTransfer

Both ends of a transfer, an exchange at a time. CP: `tx` is `pd->file` with the
multipart engine in it (`state`, `off`, `last` for `last_len`, `errors`,
`cancel`), `terminal` is `in_terminal`, `engine` the file of `engine_cmd`, `phy`
the exchange (IDLE, SEND, REPLY) and `again` whether the packet to be built is a
retry. PD: `rx` is its `pd->file`; `asks` counts the times finalize() wanted more
time, which stands for `finalize_tstamp`. `cache` is the reply to the command with
the current sequence number. `outcome`, `approved` and `mislabelled` are history.

*Actions.* `CpAborts` and `CpNextChunk` are `osdp_file_tx_get_command()`;
`CpBuildsIdle`, `CpBuildsChunk`, `CpBuildsPing`, `CpBuildFails` and
`CpAssertFails` are the ways through `osdp_file_cmd_tx_build()`; `CpStatProgress`,
`CpStatFinishing` and `CpStatDone` those through `osdp_file_cmd_stat_decode()`;
`CpTakesNak`, `CpTakesAck`, `CpTakesUnexpected`, `CpRetries`, `CpGivesUp` and
`CpTakesBusy` are the other ends of an exchange. `PdRefuses`, `PdRejects` and
`PdWriteFails` are the failures of `osdp_file_cmd_tx_decode()`; `PdAccepts`,
`PdFinishing` and `PdDecides` are the reports of `osdp_file_cmd_stat_build()`.
`Finish` is `file_transition_done()` up to the completion callback and
`CpFinished` the rest, so that the application may call the API in between.

*Data.* A file is a sequence of parts and a part of `disk` says whose part it is:
a file is stored when each part is its own. A chunk is where it starts and how
long it is; the source hands out any number of parts up to `MaxChunk`, and
another number for a retry. The size a frame declares is that of the file it names.

*Abstractions.* The link delivers one frame at a time and answers a repeat from
the cache (Link shows both), but the cache may be lost (`PdForgets`; see *Seen
while modelling*). Replies that cannot be used end in `CpGivesUp`. A short write
stores nothing. A PD refreshes often enough that a frame is answered before the
8 s without a byte are over.

*Left out of FileTransfer.* The control flags of a status report: the PD of this
library always sends 0x01, which sets none. The throttle delay, which only
postpones a chunk. The other users of the completion slot (Engines).

### SecureChannel

Both ends of one channel with the line between them. CP: `state`, `phy`,
`cpSeq`/`txSeq`, `retry` as in Link; `cpActive`, `dflt`, `established`, `enforce` are
the flags SC_ACTIVE, SC_USE_SCBKD, SC_ESTABLISHED and ENFORCE_SECURE, `cpKey` is
`sc.scbk` and `cps` the rest of `pd->sc`. PD: the same with `pdSeq`, `pdCmd`
(`cmd_id`), `cache`, `install`; `stored` is what its application keeps.

*Actions.* `CpSend` and `CpRetry` are SEND_CMD and RETRY_CMD; an exchange ends in
`CpHears`, `CpRefuses` (plain text inside a session, or the reverse), `CpSeqMismatch`,
`CpNoise` or `CpTimeout`, each of which enters the state that follows (`Enter`,
`Succeeds`, `Fails`). `CpScRetry` is the retry of the channel from ONLINE,
`CpReconnect` the end of the OFFLINE dwell. The PD answers a frame by `PdRepeat`,
`PdRefusesSequence`, `PdRefusesSecurity`, `PdBadMac`, `PdAnswers`, `PdKeyset`,
`PdChallenge` or `PdScrypt`; each contains the checks of `phy_check_packet()` and
`osdp_phy_decode_packet()` that come before it, the reply and its sending, which may
fail (`Unsent`). `PdNoise` is `pd_error_reset()`, `PdSilence` the end of a session
nobody used.

*Cryptography is symbolic.* A session is its key and two random numbers, a
cryptogram is the session it proves, a MAC is session, place in the chain and
message. Two are equal only if they were made from the same. Random numbers are
taken again once nothing remembers them (`Random`, `Nonces`), and the place in the
chain is counted modulo `Wrap`, which is larger than what one trouble can shift.

*Left out.* Payload encryption, forged frames, late replies (Link), a KEYSET
the PD's application refuses, and the tolerance of the CP for an unprotected
acknowledgement of a KEYSET, which this library's PD never sends.

### CpBus

What the PDs of one CP share: `current` is `_current_pd`, `buf` the one buffer of
the context (in CP mode `rx_buf` is `tx_buf`) with whose packet it holds, `rx` the
channel. Each PD has `phy`, `retry`, `offline`, `part` (a header has been collected),
its ring `rb`. `air` and `mute` are the PDs at the other end. One step is
`state_update()` for the current PD, with what `osdp_cp_refresh()` decides from its
result (`Becomes`): `Send`, `SendParked`, `SendFails`, `Listen`, `Receive`,
`Timeout`, `WaitOver`, `Kick`, `Reconnect`, `NotDue`.

*Abstractions.* A reply comes in two pieces, head and tail, so that a timeout may
fall between them. A reply to an earlier command of the same PD is `stale`: that
stands for its sequence number. Commands carry nothing. The frames of two PDs
may come interleaved but are not merged on the wire.

### Engines

Operations that outlive an exchange. CP: `piv` and `bio` are the engines' contexts
(`phase`, the operation, fragments sent and reassembled, `cancel`), `slot` is
`pd->engine_cmd`, `active` the command in flight, `file` stands for a transfer that
holds the slot; `status` says where each command is. PD: `ppiv`, `pbio` are its
engines, `events` its queue with the answers of its application, `working` what the
application has still to answer. `wire` is the exchange: built, answered, taken.

*Actions.* `SubmitCardOp`, `SubmitFile`, `SubmitRead`, `osdp_cp_cancel`; `CpSendRead`,
`CpSendCardOp`, `CpPoll` choose what goes out, `CpEndCardOp`, `CpEndRead` and
`CpEndFile` end an operation that stalls, is cancelled or (the file) is over.
`PdCardCommand`, `PdReadCommand`, `PdContinueCardReply`, `PdContinueTemplate`,
`PdPolled` and `PdAborts` are the PD's handlers with the application's callback
inside. `CpAck`, `CpCardFragment`, `CpStrayCardFragment`, `CpFirstTemplate`,
`CpMoreTemplate` and `CpNak` are what the CP makes of a reply; all end in
`ExchangeDone` or `GoOffline`, which contain `osdp_mp_pd_notify()` and
`osdp_engines_abort()`.

*Data.* A fragment is `[of, i, total]`: it carries the operation its content was
computed for, which the program does not know and the property compares. Each
operation is submitted once.

*Left out.* Early termination of a multipart message (no sender here uses it),
progress notifications, allocation of the contexts.

### Trs

The CP's side of a transparent session against a reader. `session` is `pd->trs`
with `step` for its state, `bandOpen` is `band_open`, `flag` is PD_FLAG_TRS_ACTIVE,
`scan` and `over` the presence scan and those of its waits that have run out,
`queue` and `drain` the command queue and the part of it that
`cp_flush_trs_band()` has detached. `reader` is the PD: the mode it is in and
whether it is in sequence. `muddled` and `stuck` are history.

*Grain.* An exchange is one step; a refresh is split where a completion callback
runs, because the application may submit from there while the band is being moved
(`pc`, explained at the head of the module). `OnlineDequeue`, `SessionDequeue`,
`SessionIdle` and `SessionStep` pick the next command, `Answered`, `Declined`, `Lost`,
`BusyThroughout` and `OutOfStep` are how its exchange ends, `Settle` judges it and
moves the session (`osdp_trs_state_update()` and `_err()`), `FlushStep` and `FlushDone` are
`cp_flush_trs_band()`, `Open`, `Adopt` and `Stop` what follows a band marker, and
`ScanDue` opens a probe.

*Data.* Commands are the band markers, `CARD` (anything for the card) and `OTHER`
(anything else); replies are classes by what the code does with them (`Xrd`).

*Left out.* The bytes of APDUs and reports, the backoff of a refused probe (a wait
takes any time), notifications, teardown of a CP in the middle of a session. A
reader that answers mode-set(00) with a report of mode 01 is the fault `keep`, which
the run leaves out: see *Seen while modelling*.

### Proof modules

`CpFsmProofs`, `LinkProofs`, `PdCoreProofs`, `FileTransferProofs`,
`SecureChannelProofs`, `CpBusProofs`, `EnginesProofs` and `TrsProofs` hold the theorems
of the modules they are named for; see *Proofs*.

## Runs

### CpFsm

All instances use a query (which may be flagged as broadcast) and a keyset, two
keys and a retry budget of 1. One retry is enough to tell the first transmission
from a repeat and to exhaust the budget; two commands are enough for one to wait
while the other is in flight and for a flush to meet both; two keys tell a commit
from none. `PLAIN` and `MFG` take the same paths as `QUERY`; the proofs cover all
kinds.

| Run | Environment | Shows |
|---|---|---|
| `cp_safety` | build and send failures, malformed replies, notifications | `Ownership`, `NoSilentDowngrade`, `DefaultKeyConfined`, `QuietWhenDown`, `NoStrayBroadcast`, `EnforceEntersSecure` |
| `cp_live` | one keyset; transport takes every packet, well-formed replies, no notifications | `OkMeansAnswered`, `KeyCommitsOnReply`, `DisableHonoured`, `OfflineReconnects`, `ActiveCompletes` |
| `cp_stale` | send failures | **violation** of `OkMeansAnswered` |

`TypeOK` of this and of the other modules is not among the runs' invariants where
it is a theorem.

In the instances only the query may be broadcast. A KEYSET flagged as broadcast
that `cp_translate_cmd()` refuses leaves the broadcast flag set for the next
packet; `NoStrayBroadcast` is stated for applications that do not ask for that.

### Link

| Run | Environment | Shows |
|---|---|---|
| `link_safety` | frames lost and late, restarts of either end; 5 troubles | `AtMostOnce`, `KeepsPromise` (the refinement of Rpc) |
| `link_rough` | the same with garbled frames, failed sends and replies the CP does not know; 3 troubles | `AnswersAreOwn`, `Recovers` |

Two retries are the least with which a command is repeated after its repeat was
lost. A receive buffer of three frames holds the original and both repeats. The
sequence numbers run through their whole cycle of four, several times. Five
troubles exhaust the retry budget and leave two for the reconnection; with the
four more kinds of `link_rough` three are what stays within reach.
`AtMostOnce` and `KeepsPromise` do not hold once frames can be garbled or sends fail
(the code says so of the send at `osdp_pd.c:1875`; for the other see *Seen while
modelling*), so `link_rough` checks what still must hold: the CP takes no wrong answer, and it
comes back. `AnswersAreOwn` leaves out a command that has number 0 although the PD is
ONLINE: it is the one command that a left-over reply can pass for an answer to, after
troubles more than this run allows (see *Seen while modelling*). Without a flush callback (`Flush` FALSE) it does not come back, see
below. `IgnoreUnsolicited` is FALSE in both: with it a POLL whose reply was
ignored leaves the sequence where it is, the POLLs that follow are repeats to the
PD, and the cached reply to the first is the answer to all of them.

### PdCore

| Run | Environment | Shows |
|---|---|---|
| `pd_core` | any command or refusal, garbled frames, failed and delayed sends | `Ownership`, `ParkedReplyAnswersLast`, `EventOkMeansSent`, `KeyCommitsOnAck`, `EnforceHidesData`, `EventsLeave` |

Two events: one that only a poll can carry and one that may answer a command, so
that one can be queued in front of the other and either can be resubmitted while
the other waits. Two keys. The queue cannot grow beyond the events. Each property
speaks of one exchange at a time and needs no more; the proofs cover every set of
events and keys.

### FileTransfer

| Run | Environment | Shows |
|---|---|---|
| `file_core` | two files of 3 and 2 parts; every fault; 4 troubles | `EngineOwned`, `NothingMissing`, `OkMeansStored`, `TransferEnds` |

Three parts and chunks of one or two give a file that is sent in different ways
each time it is tried, with a chunk that straddles what the PD has. Two files are
the least for one to be left behind when the next is sent; with equal sizes
nothing tells their frames apart (see below), so these are different.
One empty read more than `MaxErrors` = 1 ends a transfer, and one ask for time
is enough to park it. Faults that the code limits itself (an empty source, asks
for time) and those that end a transfer (refusals, failing reads and writes,
cancels) may happen at any time; those that nothing limits (lost replies, lost
links, restarts, a forgotten cache) share the four troubles. Four allow a link
that is lost and a CP that restarts while a reply is repeated.

`OkMeansStored` excludes the exchange in which a substituted CMD_ABORT stands for a
chunk (`mislabelled`): there the acknowledgement of one is taken for the other.
It is a defect, see *Seen while modelling*.

### SecureChannel

| Run | Environment | Shows |
|---|---|---|
| `sc_core` | frames lost and garbled, failed sends, a silent CP, restarts of either end; 3 troubles | `InStep`, `LossKeepsSession`, `CommitMeansStored`, `DefaultKeyOver`, `Resecures` |
| `sc_keyset` | one lost frame | **violation** of `RepeatsReEmit` |

Two keys tell an old from a new one; with one retry, two losses in a row exhaust
the budget and the third trouble meets the handshake that follows. Eight numbers never run
out (TLC would report it: `Random` would have no value), and six places in the chain
are more than twice what `InStep` compares. The CP may be started with or without
ENFORCE_SECURE, the PD in or out of install mode, with the CP's key or none.
`LossKeepsSession` speaks of losses only: a session may end by noise (`hurt`), by the
retries running out, or by a KEYSET. `Resecures` is conditional on the keys
matching in the end: a KEYSET whose acknowledgement is lost for good may leave
them different, and then nothing in the protocol brings them together.

### CpBus

| Run | Environment | Shows |
|---|---|---|
| `bus_core` | 2 PDs, some mute; 2 troubles | `OneExchange`, `BufferIsOwn`, `EveryoneGetsTheBus` |

Two PDs are enough for one to be polled while the other's reply is under way. Three
with one trouble less were checked once (1.1 million states, no error); the proofs
cover every number. `MaxPieces` bounds what a PD has still to send: two replies.

### Engines

| Run | Environment | Shows |
|---|---|---|
| `engines_core` | two challenges, a data object, a template, a transfer; 1 trouble | `SlotIsLive`, `AnswersOwn`, `EveryOpEnds` |

Two fragments each way are the least for a loss in the middle, and for a first
fragment that is not the last. Two operations of one family make an answer that
belongs to the wrong one possible. One trouble (a lost link, a refusal, a restart of
the PD) comes on top of cancels and timeouts, which may happen any time.
`AnswersOwn` is for a PD application that withdraws its answer when it is told that
an operation was aborted (`Withdraws`); without that it is false, see below.

### Trs

| Run | Environment | Shows |
|---|---|---|
| `trs_core` | one command of each kind; callbacks that submit; each fault but `keep`; 1 trouble | `BandMarks`, `ReaderRestored`, `AskNeverLeaks`, `ProbeEnds` |

One command of each kind makes every band there is with one STOP; each may be
submitted again once it is handed back, so bands follow each other. One trouble
at any point is enough to end a session in every step, with a million states.
`BandMarks` excludes, as `muddled`, a band whose session was cut by a reset of the
link: the rest of it stays queued (see below).

None of the systems stops on its own, so every run checks for deadlock.

## Fairness

`osdp.h` asks for a refresh at least every 50 ms, so `WF(osdp_cp_refresh)`: as long
as some pass can change something, one will. This includes the assumption that a
transport which is not ready is ready in the end; SEND_CMD_WAIT has no timeout of
its own, and with a transport that blocks for ever a disable is never looked at.
`SF(Advance(TRUE))` says that time passes: a dwell (OFFLINE, SC retry) that is
looked at again and again has run out one day. No fairness is assumed of the
application or of the PD's answers.

Link assumes that both ends are refreshed (`WF(CpRefresh)`, `WF(PdRefresh)`) and
that the trouble is finite (`MaxTrouble`): nothing promises to reach a PD through a
line that fails for ever. Reconnection after the dwell is part of `CpRefresh`.

PdCore assumes refreshes and callbacks that return (`WF(osdp_pd_refresh)`), a CP
that polls (`SF(DecodePoll(FALSE))`: strong, because other commands may come in
between) and a transport that, asked again and again, takes a reply in the end
(`SF(SendOk)`). `EventsLeave` excludes an enforcing PD: it answers no POLL without
a session, and only the CP can open one.

FileTransfer assumes that both applications refresh (`WF(CpRefresh)`,
`WF(PdRefresh)`). Reconnection is part of `CpRefresh`; the application is not
assumed to submit, nor anything to go wrong.

SecureChannel: both ends are refreshed (`WF(CpRefresh)`, `WF(PdRefresh)`). `SF(CpScRetry)`
is time: the retry of the channel is looked at in ONLINE whenever the exchange is
over, and its deadline passes one day although polls come in between.

CpBus: the CP is refreshed, a channel that is not ready is ready again
(`WF(ChannelReady)`), waits end (`WF(Tick(p))`) and what a PD has to send arrives
(`WF(PdSends(p))`); a PD that does not answer is in `mute`.

Engines: `WF` of both ends' refreshes and of the reconnection; `SF` of `CpEndCardOp`,
`CpEndRead` and `CpEndFile`: each idle refresh asks whether an operation's deadline
has passed, and only progress moves the deadline, of which there is a bounded amount.
The PD's application is not assumed to answer.

Trs: `WF(Refresh)`, `WF(Answered)` (an exchange ends) and `WF(WaitOver(w))` for each
wait. The application is not assumed to do anything; `ProbeEnds` is about one that
leaves queue and scan alone.

## Findings

Each is a run that TLC finds violated; `PROJECT.json` quotes the lines that promise
otherwise.

1. `cp_stale`: after a failed build or send, `reply_id` still holds the reply to
   the previous command. The command that never left is completed OK. The same
   path can commit the key of a KEYSET that was never sent.
2. `sc_keyset`: the PD commits the key with the acknowledgement of a KEYSET and ends
   the session, and the cache with it. If the acknowledgement is lost, the repeat is
   refused instead of answered, and the CP goes OFFLINE with the old key.

### Seen while modelling

Not kept as runs. TLC showed those that are stated of a model with another instance
of it; the others were read.

The CP's states and exchange:

- The restart of the secure channel that a comment promises for a refused reply
  (`osdp_cp.c:1002-1008`) is unreachable: the PD goes offline for the full dwell
  (`osdp_cp.c:1018`).
- SEND_CMD_WAIT has no timeout (`osdp_cp.c:1197`); while it waits a disable is not
  looked at.
- A reply that is ignored as unsolicited (`osdp_cp.c:1224`) ends the exchange and leaves
  the sequence where it is, so the next command looks like a repeat.
- Without the optional flush callback one late reply that arrives in the OFFLINE
  dwell is taken for the answer to the first command of the next session, whose own
  reply then does the same to the session after it (Link with `Flush` FALSE does
  not satisfy `Recovers`).
- `pd_error_reset()` drops the cached reply also on a link without a session
  (`osdp_pd.c:1744`, `osdp_sc.c:287`), although `osdp_phy.c:648-652` says it must be
  re-emitted. A lost reply followed by a garbled repeat makes the PD execute the command
  again when the next repeat arrives (Link with `noise` does not satisfy `AtMostOnce`).
- When no reply to either handshake attempt of an SC capable PD comes through, the first
  command ONLINE goes out with sequence number 0 (`osdp_cp.c:1813`). A late copy of an
  earlier command with number 0 is executed by the PD, since 0 is always accepted and
  never a repeat (`osdp_phy.c:636`), and its reply, which has number 0 too, is taken for
  the answer to the new command. Found by a proof of `AnswersAreOwn` that would not go
  through; TLC confirms it with one retry, late and garbled frames and 6 troubles. Where
  nothing is garbled and no send fails it cannot happen (`LinkImplementsRpc`).
- `notify_sc_status()` is called before `pd->state` is assigned. A second
  `osdp_cp_disable_pd()` from there is accepted and stays pending together with an
  ENABLE, although a comment rules that out.
- The broadcast flag is consumed by the first transmission, so the retry of a
  broadcast command goes to the PD's own address.
- `OSDP_FLAG_IGN_UNSOLICITED` repeats cached replies to POLL, see `link_rough` above.
- `phy_retry_count` is reset when an exchange is DONE, not when it ends in ERR: the
  budget of one command is charged to the next while the PD stays ONLINE.

The PD:

- KEEPACTIVE moves `pd->sc_tstamp` into the future and the same pass sets it back to
  the present (`osdp_pd.c:1809`).
- An event that answers an earlier command, and waits in the queue for a POLL, is
  sent as the reply to the next command of that kind (`osdp_pd.c:288`), where
  `osdp.h:1890` promises a poll response.
- A session that the phy layer ends (`osdp_phy.c:646`) is not reported to the
  application, although the SC_STATUS notification "reports the state" of it.

File transfers:

- When a chunk cannot be built a CMD_ABORT is sent in its place and the transfer ends,
  but `pd->cmd_id` stays CMD_FILETRANSFER. A retry of that packet builds a chunk of a
  transfer that is over, which fails the assertion at `osdp_file.c:154`.
- The PD does not compare the file id of a frame with the transfer it has open
  (`osdp_file.c:316`). After a restart of the CP in the middle of one file, another of
  the same size is stored in it and reported as transferred, where `osdp.h:1155` and
  `osdp.h:2743` promise the file that was named.
- A read that fails takes the link OFFLINE: the reply to the substituted CMD_ABORT
  is an ACK, which is no answer to CMD_FILETRANSFER. The comment at `osdp_cp.c:358`
  wants only the transfer to be aborted.
- A refused chunk, or a cancel whose CMD_ABORT is lost, leaves the PD's transfer
  open. While the link is up it refuses every file of another size
  (`osdp_cp.c:2240`).
- The first frame the PD sees opens, and truncates, its file before its offset is
  looked at (`osdp_file.c:351`); a transfer that continues after the PD gave up
  destroys what had been stored.
- A retry whose read returns another length than the first may lose the verdict of
  the PD, which has concluded and starts anew: the CP then reports a failure of a
  file that was stored.
- `pd->tstamp` is refreshed by any traffic on the line (`osdp_phy.c:736`): on a bus
  with other PDs the 8 s without a byte that end a PD's transfer may never pass.

Card and biometric operations:

- A PD application that keeps its answer to an operation that was aborted sees it sent
  as the answer to the next challenge of the same kind; on a POLL it builds a NAK
  instead, and the CP goes OFFLINE. `Withdraws` is what avoids both.
- After a loss of the link in the middle of a card reply the PD continues it on the
  first polls of the new session; each fragment takes the CP OFFLINE again, until
  none is left.
- CMD_PIVDATA that the application refuses leaves the PD's operation open, unlike the
  other two.
- A BIOREAD that is acknowledged while another template is reassembled takes the slot,
  and is completed by the end of the other; a second one that is answered inline is
  completed OK though its template is lost.
- A repeat that is executed again, because the cache was dropped, calls the PD's
  application twice for the last fragment.

Transparent reader:

- A reader that answers mode-set(00) with a report of mode 01 is taken as restored and
  the session is reported closed (`osdp_trs.c:993`, `osdp_trs.c:1026`; `osdp.h:1258`).
- The branch for ACK of `trs_scan_note_refused()` (`osdp_trs.c:508`) is dead.
- `trs_scan_presence_is_news()` ignores reports nobody asked for, so that a later one
  that does answer the question is suppressed (`osdp_common.h:570`).
- A reset of the link, or a disable, during a session leaves the rest of its band
  queued (`osdp_cp.c:1327`).
- `osdp_cp_flush_commands()` from the completion callback of a marker, or inside
  `cp_flush_trs_band()`, leaves `band_open` wrong; so does a flush while OFFLINE after a
  session died.
- A restart of the channel or the end of a transfer that is asked for in the pass that
  opens a session is overridden by the opening.

Secure channel and bus:

- `osdp.h:40` speaks of one session with the default key; the PD allows any number
  until a KEYSET.
- PD_FLAG_SC_USE_SCBKD of the PD stays set after an attempt with the default key that
  failed, and lets the CP's next attempt with its own key fail once.
- A late reply of one PD that is read in another one's exchange ("Invalid pd
  address", `osdp_phy.c:624`) takes that one OFFLINE, and its own reply may do the same
  to the next.

## Proofs

TLAPS checks every proof to the last leaf. Temporal steps use the invariant rule
only; the rest is first-order.

### CpFsmProofs

For every set of commands and keys, every retry budget and every option
(`CmdsAssumption`, `OptionsAssumption`):

| Theorem | Property |
|---|---|
| `TypeCorrect` | `TypeOK` |
| `DowngradeIsVisible` | `NoSilentDowngrade` |
| `DefaultKeyIsConfined` | `DefaultKeyConfined` |
| `DownIsQuiet` | `QuietWhenDown` |
| `EnforceIsHonoured` | `EnforceEntersSecure` |
| `ExactlyOnce` | `Ownership` |
| `BroadcastStaysPut` | `NoStrayBroadcast`, if no KEYSET is flagged as a broadcast |
| `OkIsAnswered` | `OkMeansAnswered`, if `Faults = {}` |
| `KeyCommitsOnlyOnReply` | `KeyCommitsOnReply`, if `Faults = {}` |
| `FalseOkIsConfined` | a false OK takes the link down with it, for any `Faults` |

The argument: `TypeOK` is inductive as it stands. The session properties are not:
they speak of the moments between two passes (`pc = "app"`) and say nothing of the
labels inside one, nor of what a running handshake may hold. The inductive
invariant is `IInv == TypeOK /\ PhaseInv /\ RequestInv /\ SessionInv`:

- `PhaseInv` ties `pc` to `phy`, `err` and `next` (an exchange that is over has phy
  DONE or ERR at `exchanged` and IDLE after; what `entering` enters is OFFLINE or
  DISABLED) and says that a PD that is down has no exchange and no active command.
- `RequestInv` says when the session requests may be pending, namely not in a PD
  that is down.
- `SessionInv` ties the security flags to the state for every label: which states
  may hold an active session, when `useScbkd` may be set, and that a session on
  the default key exists on the way through SET_SCBK only.

`Advance` is the hard case; `AdvanceSession` goes through the states of the
transition tables one by one. `ExactlyOnce` needs no more than that and two facts about
queues.

The last four rest on three more invariants. `BroadcastInv` follows the flag from the dequeue to the
build; a KEYSET that its session does not survive never gets there, hence the
hypothesis. `ReplyInv` says what may be in `reply_id` when an exchange ends: without
failing builds and sends or malformed replies (`Faults = {}`, the constants of
`cp_live`), nothing that a command accepts, unless a reply was received. With them
`OkMeansAnswered` is false, which is finding 1; what is true for any `Faults` is
`FalseOkIsConfined` (from `OutcomeInv`): an OK that no reply stands behind comes only with
an exchange that failed, so the same pass takes the PD OFFLINE.

### LinkProofs

For every number of retries, every set of names, any line limit and any troubles
(`LinkAssumption`):

| Theorem | Property | Hypothesis |
|---|---|---|
| `TypeCorrect` | `TypeOK` | |
| `ExecutedOnce` | `AtMostOnce` | no garbled frames, no failed sends |
| `AnswersBelong` | `AnswersAreOwn` | `Orderly` |
| `LinkImplementsRpc` | `KeepsPromise` | `Orderly`, no garbled frames, no failed sends |

`Orderly` says that the channel has a flush callback, and that unknown replies, where
they come at all, are not ignored (no `OSDP_FLAG_IGN_UNSOLICITED`); the two sections on
what was seen show what happens otherwise. No garbled frames and no failed sends is
`Faults \cap {"send", "noise"} = {}`: either drops the PD's reply cache, with which it
recognizes a repeat.

`AtMostOnce` says what the PD has done; what makes it inductive is what the PD is
going to do with the frames that are still in its buffer. The invariant is
`TypeOK /\ Asking /\ Line /\ AtMostOnce`, where `Line` has five parts: copies of one
command are next to each other in the buffer (`CopiesFollow`); if the CP waits for a
command its copies come last (`LatestLast`); of the commands in the buffer only the
first may have been executed, and then it meets its reply in the PD's cache
(`ExecutedFirst`); the same goes for the next copy the CP may send of the command it
waits for (`CurrentExecuted`), so that neither is executed again; a command with sequence number 0 is one that restarts
(`ZeroRestarts`), which the promise excepts. `Asking` ties the phy state of the CP to
the command it repeats.

`AnswersAreOwn` speaks of the replies, and a reply may come of anything: of what the CP
has read, of the transport, of the cache, or of a command that still waits at the PD. The
invariant `Pipe` looks at all of them as one queue, in the order in which the CP will meet
them. `Sorted`: what belongs to the current command comes last in it, and left-over
commands come before a handshake. `ReplySound`: each reply but a NAK is
to a command that was executed, and the cached one is the last. `OwnSound` and
`AnsweredSound`: what is the command's own has the command's number, and once it was answered its copies find
that answer. `LeftoverSound`, the core: what is left over has a number that is not due, so
the CP does not take it, and while the CP is ONLINE the PD does not execute it. That a handshake
restarts the numbers does no harm because a reset flushes the queue, or because 0 is
nobody's due; the case where that breaks is the one `AnswersAreOwn` leaves out.

`LinkImplementsRpc` maps each step to one of Rpc: `CpSend` to Issue, `PdExecute` to
Execute, what completes a command to Answer, what gives it up to GiveUp, `PdRestart`
to Forget, and all else to a stutter. That each Answer may happen needs `Pipe`, that
each Execute may needs `Line`. Rpc has no exception for the number 0, so two more
invariants show that it is not needed on a line that garbles nothing: ONLINE, a command
has number 0 only when the handshakes have spent the budget, and is then sent once
(`Spent`), and in that case nothing with the number 0 is left over (`NoZero`).

### PdCoreProofs

For every set of events and keys, every assignment of answers and any faults
(`PdAssumption`):

| Theorem | Property |
|---|---|
| `TypeCorrect` | `TypeOK` |
| `RepliesAnswerLast` | `ParkedReplyAnswersLast` |
| `DefaultKeyIsRetired` | `DefaultKeyRetired` |
| `OkIsTruthful` | `EventOkMeansSent` |
| `KeyCommitsWithAck` | `KeyCommitsOnAck` |
| `EnforcedDataIsHidden` | `EnforceHidesData` |
| `ExactlyOnce` | `Ownership` |

Here even `TypeOK` is not inductive: that the committed key is a key depends on the
union having kept it while the reply was parked. The invariant follows one exchange
from label to label:

- `ParkInv`: a reply is parked from its building to the verdict of the transport,
  and a command is unanswered from its reception until then. So nothing is received
  while a reply is parked, on which the other parts rest.
- `ActiveInv`, `StagedInv`: an event is active exactly while it is the reply, and
  the parked packet answers `cmd` with it; a NAK in its place carries none.
- `KeyInv`: between the KEYSET callback and the acknowledgement the union holds the
  accepted key.
- `EnforceInv`: a command an enforcing PD executes came in a session, and the
  session is still there when the reply is finalized, in the same pass.

The action properties follow from `IInv` and the lemma `OnlySendOkSpeaks`: only
`SendOk` puts a reply on the wire, and but for a new setup only it changes the key.

### FileTransferProofs

For every set of files, all sizes, chunk lengths and limits, and any faults
(`FileAssumption`):

| Theorem | Property |
|---|---|
| `TypeCorrect` | `TypeOK` |
| `TransferIsOwned` | `EngineOwned` |
| `NothingIsMissing` | `NothingMissing` |
| `OkIsStored` | `OkMeansStored`, if no two files have one size |
| `OkIsBacked` | whatever the sizes, OK is backed by a file of that size, whole and approved of |

`TypeOK` is inductive: that an offset stays within its file follows from
`off + last` staying within it. `EngineOwned` needs `Owned`, which adds that inside
a completion callback the command has been handed back; that is what makes the
rest of `file_transition_done()` safe after the application was in control.
`NothingMissing` is inductive on top of `TypeOK`. Its core is `WrittenWhole`: a
frame that fits starts at or before the committed offset, so what it adds to the
offset it has written; `StoredKeeps` is the other half, a file that is truncated
loses its approval.

The PD compares the sizes that frames declare and never the file's id, so that with
two files of one size `OkMeansStored` is false (TLC: `EqualTotals`; see *Seen while
modelling*). Hence there are two theorems. `OkIsBacked` is what holds for any sizes, from
`Attributed`, which follows the verdict from the PD to the CP: an exchange about a chunk
serves one transfer to its end (`OneTransfer`), the line carries one thing at a time
(`OneOnTheLine`), a frame is of the file the CP sends (`OwnFrame`), and a success on its way
to the CP, or in the cache where a repeat would find it, is about a file of that size
which is approved still (`OwnVerdict`): a chunk that opens the file again puts its own
reply in the place of the verdict. With `NothingMissing`, an approved file has no
holes. `OkIsStored` adds `DistinctSizes`, under which a frame that fits is of the file that
is open (`FitsItsFile`), so that no file holds a part of another (`Unmixed`).

### SecureChannelProofs

For any keys, any number of retries and any troubles (`SecureChannelAssumption`):

| Theorem | Property |
|---|---|
| `KeyCommitsAtBothEnds` | `CommitMeansStored` |
| `DefaultKeyEnds` | `DefaultKeyOver` |
| `EndsStayInStep` | `InStep` |
| `LossIsSurvived` | `LossKeepsSession` |
| `TypeCorrect` | `TypeOK`, if there are eight random numbers (`Enough`) |

The exchange is one frame at a time (`OneFrame`), and an acknowledgement on its way to
a CP that waits for that of a KEYSET is the PD's word on this very key (`AckSound`).
The hard part is the cache: a KEYSET whose acknowledgement could not be sent leaves
an ACK there with the key not committed; `CacheSound` shows that its sequence number is
none a repeat would ask for. For the default key, the PD proves a session it has
answered a challenge of: out of install mode no such answer, on the line, in the
cache or taken by the CP, is on the default key (`ChallengedFirst`).

The other two are about the MAC chain, which has to be tied to the sequence numbers and
the cache (`SInv`). `Current`: what is on the line or in the cache is the reply the PD
built last. `CpChain`: while a command is under way its MAC continues the CP's chain.
`Together`: two ends of one session are at the same place, or the PD is one command and its
reply ahead while the CP waits. `Unhurt`: in a session that only lost frames, the PD
either has not seen the command or holds its reply in the cache, with the number and
the MAC the CP waits for; so what arrives continues the session.

`TypeCorrect` hides one argument: `Random` is a choice from `1..Nonces`, and is a number at
all only while one of them is not in use. `NewNumber` counts: a frame names one session, by
its argument or by its MAC, a reply on the line is the one in the cache, and the frame on
the line is a challenge, with one number, when the PD draws (`OneSession`). So seven can be
in use, eight are enough, and `Nonces`, 8 in the runs, leaves nothing out. The other theorems do
not rest on it.

### CpBusProofs

For any number of PDs, retries and troubles (`CpBusAssumption`):

| Theorem | Property |
|---|---|
| `TypeCorrect` | `TypeOK` |
| `OneAtATime` | `OneExchange` |
| `BufferSafe` | `BufferIsOwn` |

The invariant adds `BusHeld`: a PD that is busy is the current one. `OneExchange`
follows from it, and so does that nobody else writes to the buffer while a packet is
parked or a reply half collected.

### EnginesProofs

For any operations, lengths and troubles (`EnginesAssumption`):

| Theorem | Property |
|---|---|
| `TypeCorrect` | `TypeOK` |
| `SlotNeverStolen` | `SlotIsLive` |
| `AnswersAreOwn` | `AnswersOwn`, if the PD's application withdraws (`Withdraws`) |

`TypeCorrect` needs that every command on the wire names an operation (`WireShape`), and
that an engine of the PD has the record its phase calls for (`PdPivShape`, `PdBioShape`).
The slot is written in many places; what makes the property inductive is where the
commands are that are not in it (`Elsewhere`): a BIOREAD waits in the queue once, or
is the command in flight, and then is not in the slot. `OfItsKind` adds that what
runs in an engine is of its kind, so that the family compared by
`osdp_mp_pd_notify()` is never that of another engine.

`AnswersOwn` follows an answer through both ends. `PdOwn`: with `Withdraws`, the PD has at
most one answer to a card command, and it is one to the operation that is open there.
`WireInv`: a card command on the wire is the next fragment of the operation that runs.
`CmdInv` and `ReplyInv` say at which fragment the PD is while the CP sends a command or polls
for its answer, so that what the CP has reassembled is the first fragments of one answer.
Without `Withdraws` the property is false (see *Seen while modelling*).

### TrsProofs

For any sessions, commands and replies (`TrsAssumption`):

| Theorem | Property |
|---|---|
| `TypeCorrect` | `TypeOK` |
| `AskStaysInProbe` | `AskNeverLeaks` |
| `BandsStayWellFormed` | `BandMarks` |
| `ModeIsRestored` | `ReaderRestored`, if `"keep" \notin Faults` |

The inductive invariant `IInv` has `PhaseInv` (what may be under way at each label of a
refresh, and that only a session of the application is flushed), `SessionInv` (a session is a probe's or the application's until its STOP, its step names
the command on the wire, and PD_FLAG_TRS_ACTIVE is up while it runs) and `AskInv`.
`BandMarks` is inductive on top of it; its lemmas say what taking the head of a queue,
appending to it and draining it do to well-formed bands. `ModeInv` adds to
`ReaderRestored` which replies to a mode-set the library takes for a success, and that
the reader is then in mode 00 or has to reconnect; a reader with the fault `keep`
answers otherwise.

### Only model-checked

- Liveness (`DisableHonoured`, `OfflineReconnects`, `ActiveCompletes`, `Recovers`,
  `EventsLeave`, `TransferEnds`, `Resecures`, `EveryoneGetsTheBus`, `EveryOpEnds`,
  `ProbeEnds`): reasoning about fairness is beyond the prover.
- The two violations, `cp_stale` and `sc_keyset`. They are counterexamples; for the first
  `FalseOkIsConfined` bounds the damage.

## Not modelled

- Cryptography: AES, the computation of keys and MACs, payload encryption. It is
  symbolic in SecureChannel, and CpFsm and PdCore let verification go either way.
- Framing: mark, header, length, CRC and checksum, address filter. A frame checks out
  or it does not (`noise`). It is a sequential computation over bytes that no
  interleaving disturbs, and that the repository's unit tests and fuzz harness reach;
  what does depend on the order of things, who collects from which buffer and what
  a half read packet becomes, is in CpBus.
- The modules are composed in pairs (Link under FileTransfer and Engines, by its
  promise), not all at once: CpFsm with both ends of a session and a transfer is out of
  TLC's reach.
- Time: every timer is nondeterministic, so nothing is said about how long anything
  takes.
- Metrics, diagnostics and logging feed nothing back. Bindings and ports wrap the C
  API. The containers of the `utils` submodule are not in the tree; queues are
  sequences (they link the application's own objects, so enqueueing cannot fail).
