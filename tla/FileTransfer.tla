---------------------------- MODULE FileTransfer ----------------------------
(***************************************************************************)
(* A file transfer, end to end: the sender's engine in the CP              *)
(* (src/src/osdp_file.c over src/src/osdp_multipart.c, driven by           *)
(* state_update() of src/src/osdp_cp.c), the receiver's in the PD          *)
(* (CMD_FILETRANSFER and CMD_ABORT of src/src/osdp_pd.c), and the file the *)
(* PD's application stores.                                                *)
(*                                                                         *)
(* The link is what Link shows it to be, an exchange at a time: the PD     *)
(* answers a repeat of the command it has just executed from its cache.    *)
(* A retry builds its packet anew, so it reads the file again.             *)
(*                                                                         *)
(* The throttle (the delay of a status report) only postpones CpNextChunk. *)
(***************************************************************************)
EXTENDS Naturals

CONSTANTS
    Files,          \* pre-agreed file ids
    NoFile,
    Total,          \* the size of each file, in the smallest chunk
    MaxChunk,       \* what fits a packet
    MaxErrors,      \* OSDP_FILE_ERROR_RETRY_MAX
    MaxAsks,        \* bound: how often finalize() says "not yet" within
                    \* OSDP_FILE_FINALIZE_TIMEOUT_MS
    Faults,         \* what may go wrong, out of the set below
    MaxTrouble      \* bound: how often something that has no limit of its own
                    \* may go wrong

ASSUME FileAssumption ==
    /\ NoFile \notin Files
    /\ Total \in [Files -> Nat \ {0}]
    /\ MaxChunk \in Nat \ {0}
    /\ {MaxErrors, MaxAsks, MaxTrouble} \subseteq Nat
    /\ Faults \subseteq {"lost", "rerun", "slow", "away", "cp_restart", "cancel",
                         "busy_pd", "read", "busy", "refuse", "write", "verdict"}

VARIABLES
    online,     \* CP: the PD is ONLINE
    tx,         \* CP: pd->file, the transfer it sends
    terminal,   \* CP: file.in_terminal, the completion callback is running
    engine,     \* CP: the file of pd->engine_cmd
    phy,        \* CP: pd->phy_state
    again,      \* CP: the packet to be built is a retry
    cmdId,      \* CP: pd->cmd_id
    frame,      \* the command on its way to the PD
    reply,      \* the reply on its way to the CP
    cache,      \* PD: the reply to the command of this sequence number
    rx,         \* PD: pd->file, the transfer it receives
    disk,       \* PD: what the application has stored, whose file each part is
    trouble,    \* how often something went wrong
    outcome,    \* history: the status the last transfer was handed back with
    approved,   \* history: files that finalize() approved of since they were
                \* opened last
    mislabelled \* history: a packet of this exchange was not the command
                \* pd->cmd_id names

sender   == <<tx, terminal, engine, outcome>>
exchange == <<phy, again, cmdId, mislabelled>>
line     == <<frame, reply, cache>>
receiver == <<rx, disk, approved>>
vars     == <<online, sender, exchange, line, receiver, trouble>>

-----------------------------------------------------------------------------
(* Vocabulary *)

NoTx == [state |-> "IDLE", file |-> NoFile, off |-> 0, last |-> 0,
         errors |-> 0, cancel |-> FALSE]
NoRx == [file |-> NoFile, off |-> 0, asks |-> 0]

\* osdp_FTSTAT, by status: 0, 1, 2, 3 and the negative ones.
Stats == {"PROCEED", "PROCESSED", "RESETTING", "FINISHING", "REFUSED"}

Chunk(f, off, len) == [cmd |-> "FILE", file |-> f, off |-> off, len |-> len]
Abort   == [cmd |-> "ABORT"]
NoFrame == [cmd |-> "NONE"]
NoCache == [cmd |-> "NONE", reply |-> "NONE"]

Blank(f) == [i \in 1..Total[f] |-> NoFile]
Whole(f) == \A i \in 1..Total[f] : disk[f][i] = f

Trouble(kind) ==
    /\ kind \in Faults
    /\ trouble < MaxTrouble
    /\ trouble' = trouble + 1

-----------------------------------------------------------------------------
(* Variants: how a plausible bug would change a definition below.  No part of
   the specification uses them; each shows that some property has teeth.      *)

\* MayStart: the latch is forgotten, "no transfer is active" has to do.
MayStartFromCompletion == tx.state \notin {"INPROG", "WAIT"}

\* Status: any report at the end of the file is taken for success.
StatusAtEnd(stat) == IF stat = "REFUSED" THEN "FAILED" ELSE "OK"

\* BusyTx: an empty read costs nothing.
PatientTx == [tx EXCEPT !.state = "WAIT", !.last = 0]

\* Fits: the receiver does not look for gaps.
FitsAnywhere(r) == Total[frame.file] = Total[r.file]

-----------------------------------------------------------------------------
(* CP: the life of a transfer *)

\* osdp_mp_is_active()
Active == tx.state \in {"INPROG", "WAIT"}

\* The guards of osdp_file_tx_command().
MayStart == ~terminal /\ ~Active

\* file_transition_done() up to the completion callback: osdp_mp_finish()
\* fires MP_DONE, and osdp_mp_pd_notify() hands the command back.
Finish(status) ==
    /\ tx' = [tx EXCEPT !.state = "DONE"]
    /\ terminal' = TRUE
    /\ engine' = NoFile
    /\ outcome' = status

\* The rest of it, once the callback has returned.
CpFinished ==
    /\ terminal
    /\ terminal' = FALSE
    /\ tx' = NoTx
    /\ UNCHANGED <<online, engine, outcome, exchange, line, receiver, trouble>>

\* Leaving ONLINE for OFFLINE or DISABLED aborts the engines.
GoOffline ==
    /\ online' = FALSE
    /\ IF Active THEN Finish("FAILED") ELSE UNCHANGED sender

\* osdp_cp_submit_command() of an OSDP_CMD_FILE_TX, also from a completion
\* callback.
osdp_cp_submit_command(f) ==
    /\ online
    /\ MayStart
    /\ tx' = [NoTx EXCEPT !.state = "INPROG", !.file = f]
    /\ engine' = f
    /\ UNCHANGED <<online, terminal, outcome, exchange, line, receiver, trouble>>

\* osdp_cp_cancel() of the running transfer.
osdp_cp_cancel ==
    /\ "cancel" \in Faults
    /\ Active
    /\ tx' = [tx EXCEPT !.cancel = TRUE]
    /\ UNCHANGED <<online, terminal, engine, outcome, exchange, line, receiver,
                   trouble>>

-----------------------------------------------------------------------------
(* CP: one exchange *)

Idle == online /\ ~terminal /\ phy = "IDLE"

Kick(cmd) ==
    /\ phy' = "SEND" /\ again' = FALSE /\ cmdId' = cmd
    /\ mislabelled' = FALSE

\* osdp_file_tx_get_command(): a transfer that was cancelled, or whose source
\* stays empty, ends here, and the PD is told.
CpAborts ==
    /\ Idle /\ Active
    /\ tx.cancel \/ tx.errors > MaxErrors
    /\ Finish("FAILED")
    /\ Kick("ABORT")
    /\ UNCHANGED <<online, line, receiver, trouble>>

CpNextChunk ==
    /\ Idle /\ Active
    /\ ~tx.cancel /\ tx.errors <= MaxErrors
    /\ Kick("FILE")
    /\ UNCHANGED <<online, sender, line, receiver, trouble>>

\* The packet is sent.  A new command carries a new sequence number, which
\* the PD's cache does not answer.
Send(f) ==
    /\ phy' = "REPLY"
    /\ frame' = f
    /\ reply' = "NONE"
    /\ cache' = IF again THEN cache ELSE NoCache
    /\ mislabelled' = (mislabelled \/ f.cmd # cmdId)
    /\ UNCHANGED <<again, cmdId>>

Building(cmd) == phy = "SEND" /\ ~terminal /\ cmdId = cmd

CpBuildsAbort ==
    /\ Building("ABORT")
    /\ Send(Abort)
    /\ UNCHANGED <<online, sender, receiver, trouble>>

AtEnd(t) == t.off = Total[t.file]

\* The PD asked for time: everything is sent, keep the channel warm.
CpBuildsIdle ==
    /\ Building("FILE") /\ Active
    /\ tx.state = "WAIT" /\ AtEnd(tx)
    /\ tx' = [tx EXCEPT !.last = 0]
    /\ Send(Chunk(tx.file, tx.off, 0))
    /\ UNCHANGED <<online, terminal, engine, outcome, receiver, trouble>>

\* osdp_mp_tx_build() reads what the application has.
Reads ==
    /\ Building("FILE") /\ Active
    /\ ~(tx.state = "WAIT" /\ AtEnd(tx))

CpBuildsChunk ==
    \E n \in 1..MaxChunk :
        /\ Reads
        /\ tx.off + n <= Total[tx.file]
        /\ tx' = [tx EXCEPT !.state = "INPROG", !.last = n, !.errors = 0]
        /\ Send(Chunk(tx.file, tx.off, n))
        /\ UNCHANGED <<online, terminal, engine, outcome, receiver, trouble>>

BusyTx == [tx EXCEPT !.state = "WAIT", !.last = 0, !.errors = @ + 1]

\* read() returned 0: a header-only frame, and one empty read more.
CpBuildsPing ==
    /\ "busy" \in Faults
    /\ Reads
    /\ tx' = BusyTx
    /\ Send(Chunk(tx.file, tx.off, 0))
    /\ UNCHANGED <<online, terminal, engine, outcome, receiver, trouble>>

\* read() failed: the transfer ends and the packet becomes a CMD_ABORT, while
\* pd->cmd_id still says CMD_FILETRANSFER.
CpBuildFails ==
    /\ "read" \in Faults
    /\ Reads
    /\ Finish("FAILED")
    /\ Send(Abort)
    /\ UNCHANGED <<online, receiver, trouble>>

\* A process that starts over has forgotten everything; a teardown hands the
\* command back.
CpStartsOver ==
    /\ online' = FALSE /\ terminal' = FALSE
    /\ tx' = NoTx
    /\ engine' = NoFile
    /\ outcome' = IF engine = NoFile THEN outcome ELSE "ABORTED"
    /\ phy' = "IDLE" /\ again' = FALSE /\ cmdId' = "NONE" /\ mislabelled' = FALSE
    /\ frame' = NoFrame /\ reply' = "NONE" /\ cache' = NoCache
    /\ UNCHANGED receiver

\* assert(osdp_mp_is_active(&f->mp)) in osdp_file_cmd_tx_build()
CpAssertFails ==
    /\ Building("FILE") /\ ~Active
    /\ CpStartsOver
    /\ UNCHANGED trouble

CpRestarts == Trouble("cp_restart") /\ CpStartsOver

-----------------------------------------------------------------------------
(* CP: the end of an exchange *)

Waiting == phy = "REPLY" /\ ~terminal

\* The reply is taken off the line and the exchange is over.
Take ==
    /\ Waiting /\ reply # "NONE"
    /\ phy' = "IDLE" /\ reply' = "NONE"
    /\ UNCHANGED <<again, cmdId, mislabelled, frame, cache, receiver, trouble>>

\* osdp_mp_tx_commit()
Committed(t) == [t EXCEPT !.off = @ + t.last, !.last = 0]

\* file_outcome_from_wire_status() and engine_status()
Status(stat) == IF stat \in {"PROCESSED", "RESETTING"} THEN "OK" ELSE "FAILED"

Reported == Take /\ cmdId = "FILE" /\ Active /\ reply \in Stats

\* osdp_file_cmd_stat_decode(), by the ways it ends.
CpStatProgress ==
    /\ Reported
    /\ reply # "REFUSED" /\ ~AtEnd(Committed(tx))
    /\ tx' = Committed(tx)
    /\ UNCHANGED <<online, terminal, engine, outcome>>

CpStatFinishing ==
    /\ Reported
    /\ reply = "FINISHING" /\ AtEnd(Committed(tx))
    /\ tx' = [Committed(tx) EXCEPT !.state = "WAIT"]
    /\ UNCHANGED <<online, terminal, engine, outcome>>

\* The PD that is about to reset is left alone: CP_REQ_OFFLINE.
CpStatDone ==
    /\ Reported
    /\ \/ reply = "REFUSED"
       \/ reply # "FINISHING" /\ AtEnd(Committed(tx))
    /\ Finish(Status(reply))
    /\ online' = (reply # "RESETTING")

\* The PD refused the chunk: a soft failure, which aborts the transfer.
CpTakesNak ==
    /\ Take /\ cmdId = "FILE" /\ reply = "NAK"
    /\ IF Active THEN Finish("FAILED") ELSE UNCHANGED sender
    /\ UNCHANGED online

CpTakesAck ==
    /\ Take /\ cmdId = "ABORT" /\ reply = "ACK"
    /\ UNCHANGED <<online, sender>>

\* state_check_reply() fails, as for an ACK to a CMD_FILETRANSFER.
Expected ==
    IF cmdId = "ABORT" THEN {"ACK"}
                       ELSE {"NAK"} \cup (IF Active THEN Stats ELSE {})

CpTakesUnexpected ==
    /\ Take /\ reply \notin Expected
    /\ GoOffline

\* No answer in time, or BUSY.
CpRetries ==
    /\ Trouble("lost")
    /\ Waiting
    /\ phy' = "SEND" /\ again' = TRUE
    /\ frame' = NoFrame /\ reply' = "NONE"
    /\ UNCHANGED <<online, sender, cmdId, mislabelled, cache, receiver>>

\* The retries are used up, or a reply was unusable.
CpGivesUp ==
    /\ Trouble("away")
    /\ Waiting
    /\ phy' = "IDLE" /\ frame' = NoFrame /\ reply' = "NONE"
    /\ GoOffline
    /\ UNCHANGED <<again, cmdId, mislabelled, cache, receiver>>

\* BUSY to the last retry of a chunk: a soft failure like a NAK.
CpTakesBusy ==
    /\ Trouble("busy_pd")
    /\ Waiting /\ cmdId = "FILE"
    /\ phy' = "IDLE" /\ frame' = NoFrame /\ reply' = "NONE"
    /\ IF Active THEN Finish("FAILED") ELSE UNCHANGED sender
    /\ UNCHANGED <<online, again, cmdId, mislabelled, cache, receiver>>

\* A poll between two chunks failed, or the application disabled the PD.
CpLosesLink ==
    /\ Trouble("away")
    /\ Idle
    /\ GoOffline
    /\ UNCHANGED <<exchange, line, receiver>>

\* The handshake went through again: after the dwell, or at once if the PD was
\* disabled and enabled or the process restarted.
CpReturns ==
    /\ ~online /\ ~terminal /\ phy = "IDLE"
    /\ online' = TRUE
    /\ UNCHANGED <<sender, exchange, line, receiver, trouble>>

-----------------------------------------------------------------------------
(* PD *)

Repeat == frame.cmd = cache.cmd

Answer(r) ==
    /\ frame' = NoFrame
    /\ reply' = r
    /\ cache' = [cmd |-> frame.cmd, reply |-> r]
    /\ UNCHANGED <<online, sender, exchange, trouble>>

\* The cached reply is sent again.
PdRepeats ==
    /\ frame.cmd # "NONE" /\ Repeat
    /\ Answer(cache.reply)
    /\ UNCHANGED receiver

Executes(cmd) == frame.cmd = cmd /\ ~Repeat

\* osdp_engines_abort()
PdAborts ==
    /\ Executes("ABORT")
    /\ rx' = NoRx
    /\ Answer("ACK")
    /\ UNCHANGED <<disk, approved>>

\* The application refuses the command, or open() fails.
PdRefuses ==
    /\ "refuse" \in Faults
    /\ Executes("FILE") /\ rx = NoRx
    /\ Answer("NAK")
    /\ UNCHANGED receiver

\* The first frame of a transfer opens the file it names, which truncates it.
\* Later frames are not compared with it.
Opens    == rx = NoRx
Opened   == IF Opens THEN [NoRx EXCEPT !.file = frame.file] ELSE rx
Stored   == IF Opens THEN [disk EXCEPT ![frame.file] = Blank(frame.file)] ELSE disk
Approved == IF Opens THEN approved \ {frame.file} ELSE approved

\* The checks of osdp_mp_rx_consume() for the transfer r: the declared size
\* agrees, there is no gap and no excess.  A header-only frame at the end of the
\* file is a keep-alive.
Fits(r) ==
    /\ Total[frame.file] = Total[r.file]
    /\ \/ frame.len = 0 /\ frame.off >= Total[r.file]
       \/ frame.off <= r.off /\ frame.off + frame.len <= Total[r.file]

\* osdp_file_cmd_tx_decode() fails: a transfer this frame opened is torn down,
\* an older one stays open.
PdRejects ==
    /\ Executes("FILE") /\ ~Fits(Opened)
    /\ rx' = IF Opens THEN NoRx ELSE rx
    /\ disk' = Stored
    /\ approved' = Approved
    /\ Answer("NAK")

PdWriteFails ==
    /\ "write" \in Faults
    /\ Executes("FILE") /\ Fits(Opened) /\ frame.len > 0
    /\ rx' = NoRx
    /\ disk' = Stored
    /\ approved' = Approved
    /\ Answer("REFUSED")

\* The chunk is written and committed; a keep-alive moves nothing.
Received ==
    LET end == frame.off + frame.len
    IN  [Opened EXCEPT !.off = IF frame.len > 0 /\ end > @ THEN end ELSE @]

Written ==
    [Stored EXCEPT ![Received.file] =
        [i \in DOMAIN @ |->
            IF i \in frame.off + 1 .. frame.off + frame.len THEN frame.file
                                                            ELSE @[i]]]

PdReceives(file) ==
    /\ Executes("FILE") /\ Fits(Opened)
    /\ file = Received.file
    /\ disk' = Written

PdAccepts ==
    \E file \in Files :
        /\ PdReceives(file)
        /\ Received.off # Total[file]
        /\ rx' = Received
        /\ approved' = Approved
        /\ Answer("PROCEED")

\* Everything is there: finalize() is asked, now and with every frame that
\* comes until it has an answer.
PdFinishing ==
    \E file \in Files :
        /\ PdReceives(file)
        /\ Received.off = Total[file]
        /\ Received.asks < MaxAsks
        /\ rx' = [Received EXCEPT !.asks = @ + 1]
        /\ approved' = Approved
        /\ Answer("FINISHING")

PdConcludes(stat) ==
    \E file \in Files :
        /\ PdReceives(file)
        /\ Received.off = Total[file]
        /\ rx' = NoRx
        /\ approved' = IF stat = "REFUSED" THEN Approved ELSE Approved \cup {file}
        /\ Answer(stat)

PdDecides ==
    \/ PdConcludes("PROCESSED")
    \/ PdConcludes("RESETTING")
    \/ "verdict" \in Faults /\ PdConcludes("REFUSED")

\* Eight seconds without a byte from the CP: it is offline, or its application
\* stopped refreshing.
PdLosesCp ==
    /\ rx # NoRx
    /\ frame = NoFrame
    /\ IF online THEN Trouble("slow") ELSE UNCHANGED trouble
    /\ rx' = NoRx
    /\ UNCHANGED <<online, sender, exchange, line, disk, approved>>

\* A receive error makes the PD drop its cached reply (see Link).
PdForgets ==
    /\ Trouble("rerun")
    /\ cache # NoCache
    /\ cache' = NoCache
    /\ UNCHANGED <<online, sender, exchange, frame, reply, receiver>>

-----------------------------------------------------------------------------
(* Specification *)

Init ==
    /\ online = FALSE
    /\ tx = NoTx /\ terminal = FALSE /\ engine = NoFile /\ outcome = "NONE"
    /\ phy = "IDLE" /\ again = FALSE /\ cmdId = "NONE" /\ mislabelled = FALSE
    /\ frame = NoFrame /\ reply = "NONE" /\ cache = NoCache
    /\ rx = NoRx /\ disk = [f \in Files |-> Blank(f)] /\ approved = {}
    /\ trouble = 0

\* What an osdp_cp_refresh() does by itself.
CpRefresh ==
    \/ CpFinished \/ CpReturns
    \/ CpAborts \/ CpNextChunk
    \/ CpBuildsAbort \/ CpBuildsIdle \/ CpBuildsChunk \/ CpBuildsPing
    \/ CpBuildFails \/ CpAssertFails
    \/ CpStatProgress \/ CpStatFinishing \/ CpStatDone
    \/ CpTakesNak \/ CpTakesAck \/ CpTakesUnexpected

\* What an osdp_pd_refresh() does with a command.
PdRefresh ==
    \/ PdRepeats \/ PdAborts \/ PdRefuses \/ PdRejects \/ PdWriteFails
    \/ PdAccepts \/ PdFinishing \/ PdDecides

Api == (\E f \in Files : osdp_cp_submit_command(f)) \/ osdp_cp_cancel

Mishap ==
    \/ CpRetries \/ CpGivesUp \/ CpTakesBusy \/ CpLosesLink \/ CpRestarts
    \/ PdLosesCp \/ PdForgets

Next == Api \/ CpRefresh \/ PdRefresh \/ Mishap

Spec == Init /\ [][Next]_vars

\* Both applications refresh for ever.
FairSpec == Spec /\ WF_vars(CpRefresh) /\ WF_vars(PdRefresh)

-----------------------------------------------------------------------------
(* Safety *)

Frames == {Abort} \cup [cmd : {"FILE"}, file : Files, off : Nat, len : Nat]

Replies == Stats \cup {"ACK", "NAK"}

Transfers == [state : {"IDLE", "INPROG", "WAIT", "DONE"},
              file : Files \cup {NoFile}, off : Nat, last : Nat, errors : Nat,
              cancel : BOOLEAN]

TxType ==
    /\ tx \in Transfers
    /\ Active => tx.file # NoFile /\ tx.off + tx.last <= Total[tx.file]

CpType ==
    /\ {online, terminal, again, mislabelled} \subseteq BOOLEAN
    /\ TxType
    /\ engine \in Files \cup {NoFile}
    /\ outcome \in {"NONE", "OK", "FAILED", "ABORTED"}
    /\ phy \in {"IDLE", "SEND", "REPLY"}
    /\ cmdId \in {"NONE", "FILE", "ABORT"}

LineType ==
    /\ frame \in Frames \cup {NoFrame}
    /\ reply \in Replies \cup {"NONE"}
    /\ cache \in [cmd : {"FILE", "ABORT"}, reply : Replies] \cup {NoCache}

PdType ==
    /\ rx \in [file : Files \cup {NoFile}, off : Nat, asks : 0..MaxAsks]
    /\ rx # NoRx => rx.file # NoFile /\ rx.off <= Total[rx.file]
    /\ DOMAIN disk = Files
    /\ \A f \in Files : disk[f] \in [1..Total[f] -> Files \cup {NoFile}]
    /\ approved \subseteq Files

TypeOK == CpType /\ LineType /\ PdType /\ trouble \in 0..MaxTrouble

\* The library holds the submitter's command exactly as long as its engine runs
\* the transfer, also if the completion callback tries to start the next one:
\* neither is left behind without the other (file_transition_done(), in_terminal,
\* osdp_mp_pd_notify()).
EngineOwned ==
    ~terminal => /\ engine = tx.file
                 /\ Active <=> engine # NoFile

\* Up to the offset the PD has committed every byte was written, however often
\* frames were repeated, re-read in other lengths or left over from a transfer
\* that was given up; a file finalize() approved of has no holes
\* (osdp_mp_rx_consume_ex(), osdp_mp_rx_commit(), osdp_file_cmd_stat_build()).
NothingMissing ==
    /\ rx # NoRx => \A i \in 1..rx.off : disk[rx.file][i] # NoFile
    /\ \A f \in approved : \A i \in 1..Total[f] : disk[f][i] # NoFile

\* OSDP_COMPLETION_OK for a file means that the PD's application approved of
\* that file and that what it has stored is that file, where no two files have one
\* size, and as long as the exchange that ended it was about one command: the
\* retry of an abort that took a chunk's place is built as a chunk again (see
\* mislabelled).
OkMeansStored ==
    [][engine # NoFile /\ engine' = NoFile /\ outcome' = "OK" /\ ~mislabelled
        => engine \in approved /\ Whole(engine)]_vars

-----------------------------------------------------------------------------
(* Liveness *)

\* Every transfer ends and its command comes back: an application that never
\* has data, a PD that keeps asking for time and replies that get lost all have
\* their limit (OSDP_FILE_ERROR_RETRY_MAX, OSDP_FILE_FINALIZE_TIMEOUT_MS).
TransferEnds == engine # NoFile ~> engine = NoFile

=============================================================================
