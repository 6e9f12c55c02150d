-------------------------------- MODULE Trs --------------------------------
(***************************************************************************)
(* Transparent reader support: the card session a CP opens on a PD, the    *)
(* band of commands the application queues for it, and the presence scan   *)
(* that opens short sessions of its own (src/src/osdp_trs.c, with the      *)
(* session and band code of src/src/osdp_cp.c), against a reader that runs *)
(* osdp_trs_cmd_decode() or declines.                                      *)
(*                                                                         *)
(* An exchange (send, retries, reply) is one step that ends in a reply, in *)
(* a BUSY that outlasted the retries or in silence.  A refresh is split    *)
(* where a completion callback runs:                                       *)
(*                                                                         *)
(*   "app"       between two refreshes                                     *)
(*   "opening"   a START was handed back in ONLINE; TRS_SETUP comes next   *)
(*   "adopting"  a START was handed back in a probe, not yet adopted       *)
(*   "stopping"  a STOP was handed back, the session not yet told          *)
(*   "settled"   the exchange ended and its command was handed back        *)
(*   "flushing"  what a dead session left is handed back, one at a time    *)
(*   "flushed"   as before, and its STOP has been seen                     *)
(*                                                                         *)
(* INIT stands for the whole handshake INIT..SET_SCBK (module CpFsm).  The *)
(* PD has reported a smart-card interface (trs_capable()).                 *)
(***************************************************************************)
EXTENDS Naturals, Sequences, SequencesExt

CONSTANTS
    Cmds,           \* command objects the application owns
    Kind,           \* [Cmds -> CmdKinds]
    NoCmd,          \* a NULL command pointer
    CallbackCalls,  \* API calls made from completion callbacks
    Faults,         \* what the reader and the line may do wrong
    MaxTrouble      \* bound: how often they do

CmdKinds == {"START", "STOP", "CARD", "OTHER"}

ASSUME TrsAssumption ==
    /\ Kind \in [Cmds -> CmdKinds]
    /\ NoCmd \notin Cmds
    /\ CallbackCalls \subseteq {"submit", "flush", "lifecycle", "scan"}
    /\ Faults \subseteq {"lost", "busy", "resync", "restart", "decline",
                    "keep"}
    /\ MaxTrouble \in Nat

VARIABLES
    pc,        \* where the refresh is, see above
    state,     \* pd->state
    cmd,       \* the command on the wire, "NONE" while phy_state is IDLE
    act,       \* pd->active_cmd
    reply,     \* pd->reply_id of the exchange that ended last
    session,   \* pd->trs: [step, failed, stopPending, probe]
    bandOpen,  \* pd->trs.band_open
    flag,      \* PD_FLAG_TRS_ACTIVE
    scan,      \* pd->trs.scan
    over,      \* the waits of the scan that are over
    request,   \* pd->request
    queue,     \* pd->cmd_queue
    drain,     \* local of cp_flush_trs_band(): the detached queue
    owner,     \* history: who owns each command object
    reader,    \* the PD: [mode |-> pd->trs.mode, synced |-> in sequence]
    muddled,   \* history: the band no longer has the session it was queued for
    stuck,     \* history: mode 00 could not be restored
    trouble    \* how much of MaxTrouble is used up

band     == <<bandOpen, queue, drain, owner, muddled>>
probing  == <<scan, over>>
link     == <<state, cmd, act, reply, request>>
reading  == <<reader, stuck, trouble>>
vars     == <<pc, link, session, flag, band, probing, reading>>

-----------------------------------------------------------------------------
(* Vocabulary *)

States == {"INIT", "ONLINE", "OFFLINE", "DISABLED", "TRS_SETUP", "TRS_RUN"}
InTrs == state \in {"TRS_SETUP", "TRS_RUN"}
cp_is_online == state = "ONLINE" \/ InTrs

\* SET01, SET00, TERMINATE and ASK are the CMD_XWR the library sends for
\* itself: mode-set, card terminate and the scan's card scan.
Xwr == {"SET01", "SET00", "TERMINATE", "ASK", "CARD"}
Markers == {"START", "STOP"}
Wire == Xwr \cup Markers \cup {"POLL", "OTHER", "NONE"}

\* REPLY_XRD by content: card-info report, card present (or not), card data
\* and PIN complete, error report, mode reports.  NAK is one about the
\* command, NAK_LINK one about the link.  SILENCE is REPLY_INVALID.
Xrd == {"INFO", "PRESENT", "ABSENT", "DATA", "ERROR", "MODE00", "MODE01"}
Sightings == {"INFO", "PRESENT"}
ReplyIds == Xrd \cup {"ACK", "NAK", "NAK_LINK", "RAW", "BUSY", "SILENCE"}

Steps == {"SET_MODE", "XMIT", "DISCONNECT_CARD", "TEARDOWN", "DONE"}
Waits == {"mode0", "mode1", "hold", "ask"}

\* The head of the queue is inside an application band.
InBand == \/ pc \in {"opening", "adopting", "flushing"}
          \/ /\ InTrs /\ session.stopPending
             /\ pc \notin {"stopping", "flushed"}

\* Give the scan's question up: trs_scan_forget_ask().
Forgotten(s) == [s EXCEPT !.asking = FALSE, !.asked = FALSE]

-----------------------------------------------------------------------------
(* Variants: how a plausible bug would change a definition below. *)

\* cp_band_admit: a STOP leaves the band open.
BandStaysOpen(k) == IF k = "START" THEN TRUE ELSE bandOpen

\* HoldDeadline: every sighting moves the deadline.
HoldSlides(r) ==
    IF r \in Sightings \cup {"ABSENT", "RAW"} /\ scan.enabled
    THEN over \ {IF session.probe THEN "hold" ELSE "mode0"} ELSE over

\* osdp_trs_state_update_err: a refused mode-set is taken at its word.
GiveUpAtOnce ==
    IF session.step = "XMIT" THEN "TEARDOWN" ELSE "DONE"

\* osdp_trs_probe_reset: the question in flight survives a reconnect.
ResetKeepsAsk(s) ==
    [s EXCEPT !.holding = FALSE, !.support = "UNKNOWN"]

-----------------------------------------------------------------------------
Init ==
    /\ pc = "app" /\ state = "INIT" /\ cmd = "NONE" /\ act = NoCmd
    /\ reply = "SILENCE" /\ request = {}
    /\ session = [step |-> "SET_MODE", failed |-> FALSE,
                  stopPending |-> FALSE, probe |-> FALSE]
    /\ bandOpen = FALSE /\ flag = FALSE
    /\ scan = [enabled |-> FALSE, holding |-> FALSE, asking |-> FALSE,
               asked |-> FALSE, support |-> "UNKNOWN"]
    /\ over = {}
    /\ queue = <<>> /\ drain = <<>>
    /\ owner = [c \in Cmds |-> "app"]
    /\ reader = [mode |-> 0, synced |-> FALSE]
    /\ muddled = FALSE /\ stuck = FALSE /\ trouble = 0

-----------------------------------------------------------------------------
(* The application *)

MayCall(call) == pc = "app" \/ call \in CallbackCalls

\* cp_band_admit(): the band boundary is a position in the queue, decided at
\* the tail.  Nothing is said of sizes and layouts, which never change here.
cp_band_admit(k) ==
    CASE k = "START" -> ~bandOpen
      [] k = "STOP"  -> bandOpen
      [] k = "CARD"  -> bandOpen
      [] k = "OTHER" -> ~bandOpen

BandAfter(k) ==
    IF k = "START" THEN TRUE ELSE IF k = "STOP" THEN FALSE ELSE bandOpen

osdp_cp_submit_command(c) ==
    /\ MayCall("submit")
    /\ owner[c] = "app"
    /\ cp_is_online
    /\ cp_band_admit(Kind[c])
    /\ bandOpen' = BandAfter(Kind[c])
    /\ queue' = Append(queue, c)
    /\ owner' = [owner EXCEPT ![c] = "lib"]
    /\ UNCHANGED <<pc, link, session, flag, drain, muddled, probing, reading>>

\* The band markers go out with the queue; band_open is taken from the state
\* machine.  Between a marker's completion and the state change it brings, the
\* state machine has not caught up yet.
osdp_cp_flush_commands ==
    /\ MayCall("flush")
    /\ queue # <<>> \/ bandOpen
    /\ queue' = <<>>
    /\ owner' = [c \in Cmds |-> IF c \in ToSet(queue) THEN "app" ELSE owner[c]]
    /\ bandOpen' = (flag /\ session.stopPending)
    /\ muddled' = ~(cp_is_online /\ pc \in {"app", "settled"})
    /\ UNCHANGED <<pc, link, session, flag, drain, probing, reading>>

osdp_cp_trs_scan_enable ==
    /\ MayCall("scan")
    /\ scan' = [scan EXCEPT !.enabled = TRUE, !.holding = FALSE]
    /\ over' = over \ {"mode0"}
    /\ UNCHANGED <<pc, link, session, flag, band, reading>>

osdp_cp_trs_scan_disable ==
    /\ MayCall("scan")
    /\ scan.enabled
    /\ scan' = [scan EXCEPT !.enabled = FALSE, !.holding = FALSE]
    /\ UNCHANGED <<pc, link, session, flag, band, over, reading>>

\* osdp_cp_disable_pd(), osdp_cp_enable_pd()
Lifecycle(r) ==
    /\ MayCall("lifecycle")
    /\ (r = "DISABLE") <=> (state # "DISABLED")
    /\ r \notin request
    /\ request' = request \cup {r}
    /\ UNCHANGED <<pc, state, cmd, act, reply, session, flag, band, probing,
                   reading>>

-----------------------------------------------------------------------------
(* Picking the next command.  MODE 01 makes the reader a pipe. *)

\* A command is dequeued and handed back without going on the wire:
\* cp_discard_cmd(), whose completion callback runs at label l.
Discard(l) ==
    /\ owner' = [owner EXCEPT ![Head(queue)] = "app"]
    /\ queue' = Tail(queue)
    /\ pc' = l
    /\ UNCHANGED <<link, session, flag, bandOpen, drain, muddled, probing,
                   reading>>

\* cp_setup_active_cmd()
Dequeue ==
    /\ act' = Head(queue)
    /\ cmd' = Kind[Head(queue)]
    /\ queue' = Tail(queue)
    /\ UNCHANGED <<pc, state, reply, request, session, flag, bandOpen, drain,
                   owner, muddled, probing, reading>>

\* A command of the library's own, or a poll.
Issue(c) ==
    /\ cmd' = c
    /\ act' = NoCmd
    /\ UNCHANGED <<pc, state, reply, request, flag, band, reading>>

Idle == pc = "app" /\ cmd = "NONE"

\* cp_get_online_command(): a START opens a session, anything else is sent.
OnlineDequeue ==
    /\ Idle /\ state = "ONLINE" /\ queue # <<>>
    /\ IF Kind[Head(queue)] = "START" THEN Discard("opening") ELSE Dequeue

osdp_trs_scan_probe_due == scan.enabled /\ ~bandOpen /\ "mode0" \in over

OnlinePoll ==
    /\ Idle /\ state = "ONLINE" /\ queue = <<>>
    /\ ~osdp_trs_scan_probe_due
    /\ Issue("POLL")
    /\ UNCHANGED <<session, scan, over>>

\* cp_get_trs_command() in XMIT with something queued.
SessionDequeue ==
    /\ Idle /\ InTrs /\ session.step = "XMIT" /\ queue # <<>>
    /\ CASE session.probe /\ Kind[Head(queue)] = "START" -> Discard("adopting")
         [] Kind[Head(queue)] = "STOP" -> Discard("stopping")
         [] OTHER -> Dequeue

osdp_trs_probe_expired ==
    \/ ~scan.enabled
    \/ (IF scan.holding THEN "hold" ELSE "mode1") \in over

osdp_trs_scan_ask_due ==
    /\ scan.enabled /\ session.probe /\ ~scan.asking
    /\ scan.support # "NO"
    /\ scan.asked => "ask" \in over

\* ... and with nothing queued: the probe is over, asks, or polls.
SessionIdle ==
    /\ Idle /\ InTrs /\ session.step = "XMIT" /\ queue = <<>>
    /\ \/ /\ session.probe /\ osdp_trs_probe_expired
          /\ session' = [session EXCEPT !.step = "TEARDOWN"]
          /\ Issue("SET00")
          /\ UNCHANGED <<scan, over>>
       \/ /\ ~(session.probe /\ osdp_trs_probe_expired)
          /\ osdp_trs_scan_ask_due
          /\ scan' = [scan EXCEPT !.asking = TRUE, !.asked = TRUE]
          /\ over' = over \ {"ask"}
          /\ Issue("ASK")
          /\ UNCHANGED session
       \/ /\ ~(session.probe /\ osdp_trs_probe_expired)
          /\ ~osdp_trs_scan_ask_due
          /\ Issue("POLL")
          /\ UNCHANGED <<session, scan, over>>

\* trs_local_cmd_build(): the session's own steps.
StepCommand == [SET_MODE |-> "SET01", DISCONNECT_CARD |-> "TERMINATE",
                TEARDOWN |-> "SET00"]

SessionStep ==
    /\ Idle /\ InTrs /\ session.step \in DOMAIN StepCommand
    /\ Issue(StepCommand[session.step])
    /\ UNCHANGED <<session, scan, over>>

-----------------------------------------------------------------------------
(* The reader *)

\* osdp_trs_reply_build(): what the reader's application may have to say.
AppReply == {"INFO", "PRESENT", "ABSENT", "DATA", "ERROR"}

\* osdp_trs_cmd_decode() and the CMD_XWR handler around it: mode commands are
\* answered by the library, card commands only in mode 01 and by the
\* application, now or (ACK) on a later poll.  A reader that declines answers
\* a mode-set with an error or with the mode it stays in.
Accepts(c) ==
    CASE c \in {"SET01", "SET00"} -> {"ACK"}
      [] c = "TERMINATE" -> IF reader.mode = 1 THEN {"ACK"} ELSE {"NAK"}
      [] c = "CARD"  -> IF reader.mode = 1
                        THEN {"DATA", "ERROR", "ACK", "NAK"} ELSE {"NAK"}
      [] c = "ASK"   -> IF reader.mode = 1
                        THEN {"PRESENT", "ABSENT", "ERROR", "ACK", "NAK"}
                        ELSE {"NAK"}
      [] c = "POLL"  -> {"ACK", "RAW"} \cup AppReply
      [] c = "OTHER" -> {"ACK", "NAK"}
      [] OTHER -> {}
ModeReport == IF reader.mode = 1 THEN "MODE01" ELSE "MODE00"
Declines(c) ==
    CASE c = "SET01" -> {"NAK", "ERROR", ModeReport}
      [] c = "SET00" ->
            {"NAK", "ERROR"} \cup (IF "keep" \in Faults THEN {ModeReport} ELSE {})
      [] OTHER -> {}

ModeAfter(c) ==
    IF c = "SET01" THEN 1 ELSE IF c = "SET00" THEN 0 ELSE reader.mode

\* trs_scan_note_answered(), then trs_scan_note_card()
trs_scan_note_card(s, r) ==
    IF ~s.enabled \/ ~session.probe THEN s
    ELSE [s EXCEPT !.holding = (@ \/ r \in Sightings) /\ r # "ABSENT"]

ScanAfter(r) ==
    trs_scan_note_card(
        IF scan.asking /\ r \in {"PRESENT", "ABSENT"}
        THEN [scan EXCEPT !.support = "YES"] ELSE scan, r)

\* The hold is a fixed budget from the first sighting; outside a probe any
\* card or keypad activity restarts the mode-0 wait.
HoldDeadline(r) ==
    IF ~scan.enabled THEN over
    ELSE IF ~session.probe
    THEN IF r \in Sightings \cup {"ABSENT", "RAW"}
         THEN over \ {"mode0"} ELSE over
    ELSE IF r \in Sightings /\ ~scan.holding THEN over \ {"hold"} ELSE over

\* The exchange is over and the command in flight handed back.
Ended(r) ==
    /\ pc' = "settled"
    /\ reply' = r
    /\ act' = NoCmd
    /\ owner' = IF act = NoCmd THEN owner ELSE [owner EXCEPT ![act] = "app"]
    /\ scan' = ScanAfter(r)
    /\ over' = HoldDeadline(r)
    /\ UNCHANGED <<state, cmd, session, flag, bandOpen, queue, drain, muddled,
                   stuck>>

OnWire == pc = "app" /\ cmd # "NONE"
Spend(f) == f \in Faults /\ trouble < MaxTrouble /\ trouble' = trouble + 1

\* A reader out of sequence refuses every command.
Answered ==
    /\ OnWire /\ cmd \notin Markers
    /\ \E r \in IF reader.synced THEN Accepts(cmd) ELSE {"NAK_LINK"} :
          /\ Ended(r)
          /\ reader' = IF reader.synced
                       THEN [reader EXCEPT !.mode = ModeAfter(cmd)] ELSE reader
    /\ UNCHANGED <<request, trouble>>

Declined ==
    /\ OnWire /\ reader.synced
    /\ Spend("decline")
    /\ \E r \in Declines(cmd) : Ended(r)
    /\ UNCHANGED <<request, reader>>

\* The command, or every reply to it and to its repeats, was lost.
Lost ==
    /\ OnWire /\ cmd \notin Markers
    /\ Spend("lost")
    /\ Ended("SILENCE")
    /\ reader' \in {reader, [reader EXCEPT !.mode =
                                 IF reader.synced THEN ModeAfter(cmd) ELSE @]}
    /\ UNCHANGED request

BusyThroughout ==
    /\ OnWire /\ cmd \notin Markers
    /\ Spend("busy")
    /\ Ended("BUSY")
    /\ UNCHANGED <<request, reader>>

\* A reply out of sequence: the CP asks for LINK_RESET.
OutOfStep ==
    /\ OnWire /\ cmd \notin Markers
    /\ Spend("resync")
    /\ Ended("NAK_LINK")
    /\ request' = request \cup {"LINK_RESET"}
    /\ UNCHANGED reader

\* osdp_trs_cmd_build() has no encoding for the band's markers.
NotBuilt ==
    /\ OnWire /\ cmd \in Markers
    /\ Ended("SILENCE")
    /\ UNCHANGED <<request, reader, trouble>>

\* The PD loses power: osdp_pd_setup().
ReaderRestarts ==
    /\ pc = "app"
    /\ Spend("restart")
    /\ reader' = [mode |-> 0, synced |-> FALSE]
    /\ UNCHANGED <<pc, link, session, flag, band, probing, stuck>>

-----------------------------------------------------------------------------
(* The verdict: state_check_reply() and cp_cmd_failure_is_soft() *)

cp_check_online_response ==
    CASE cmd \in Xwr  -> reply \in {"ACK"} \cup (Xrd \ {"ERROR"})
      [] cmd = "POLL" -> reply \in {"ACK", "RAW"} \cup Xrd
      [] OTHER        -> reply = "ACK"

\* A card command is the application's to fail, the library's own steps and
\* the scan's question are not.
cp_cmd_is_app_owned ==
    \/ cmd = "OTHER"
    \/ cmd \in Xwr /\ session.step = "XMIT" /\ ~scan.asking

cp_cmd_failure_is_soft ==
    /\ cp_is_online
    /\ cp_cmd_is_app_owned
    /\ reply \in {"BUSY", "NAK"} \/ (cmd \in Xwr /\ reply = "ERROR")

Failed == ~cp_check_online_response /\ ~cp_cmd_failure_is_soft

-----------------------------------------------------------------------------
(* Advancing the session: osdp_trs_state_update() and _err().  Each gives the
   next step, whether the session failed, and the scan's record.             *)

\* The PD ACKs a mode-set it obeys; a mode report names the mode it stays in.
Advanced ==
    CASE session.step = "SET_MODE" ->
            [step |-> IF reply \in {"ACK", "MODE01"} THEN "XMIT" ELSE "DONE",
             failed |-> reply \notin {"ACK", "MODE01"}, scan |-> scan]
      [] session.step = "XMIT" ->
            [step |-> "XMIT", failed |-> session.failed,
             scan |-> [scan EXCEPT !.asking = FALSE]]
      [] session.step = "DISCONNECT_CARD" ->
            [step |-> "TEARDOWN", failed |-> session.failed, scan |-> scan]
      [] OTHER -> [step |-> "DONE", failed |-> session.failed, scan |-> scan]

\* trs_scan_note_refused(): the reader answered, if only to say no.
RefusedAsk == scan.asking /\ reply \in {"NAK", "NAK_LINK", "ACK"} \cup Xrd

\* Mode 01 must not be left on: try once to restore mode 00.
AfterError ==
    IF session.step \in {"SET_MODE", "XMIT", "DISCONNECT_CARD"}
    THEN "TEARDOWN" ELSE "DONE"

AdvancedOnError ==
    IF RefusedAsk
    THEN [step |-> session.step, failed |-> session.failed,
          scan |-> [scan EXCEPT !.asking = FALSE, !.support = "NO"]]
    ELSE [step |-> AfterError, failed |-> TRUE,
          scan |-> [scan EXCEPT !.asking = FALSE]]

-----------------------------------------------------------------------------
(* cp_state_change(): entering a state.  `at` is the session as it stands. *)

Resume == pc' = "app" /\ cmd' = "NONE"

\* No session step: the lifecycle bits override the protocol's choice.
Override(n) == IF "ENABLE" \in request THEN "INIT"
               ELSE IF "DISABLE" \in request THEN "DISABLED" ELSE n

\* osdp_trs_probe_reset()
osdp_trs_probe_reset(s) ==
    [Forgotten(s) EXCEPT !.holding = FALSE, !.support = "UNKNOWN"]

\* Leaving a session other than through ONLINE leaves its band behind.
Leave(n) ==
    /\ Resume
    /\ state' = n
    /\ muddled' = (muddled \/ InBand)
    /\ IF n = "INIT"
       THEN /\ session' = [session EXCEPT !.probe = FALSE]
            /\ scan' = osdp_trs_probe_reset(scan)
            /\ over' = {}
       ELSE UNCHANGED <<session, scan, over>>
    /\ UNCHANGED <<flag, bandOpen, queue, drain>>

\* The next state lies within the session, or is ONLINE again.
EnterRun(at) ==
    /\ Resume
    /\ state' = "TRS_RUN"
    /\ session' = [session EXCEPT !.step = at.step, !.failed = at.failed]
    /\ scan' = at.scan
    /\ over' = IF state = "TRS_SETUP" /\ session.probe
               THEN over \ {"mode1"} ELSE over
    /\ UNCHANGED <<flag, bandOpen, queue, drain, muddled>>

EnterOnline(at) ==
    /\ cmd' = "NONE"
    /\ flag' = FALSE
    /\ session' = [session EXCEPT !.step = at.step, !.failed = at.failed,
                                  !.probe = FALSE]
    /\ IF session.probe   \* osdp_trs_probe_close()
       THEN /\ scan' = [Forgotten(at.scan) EXCEPT !.holding = FALSE]
            /\ over' = {}
       ELSE scan' = at.scan /\ over' = over
    /\ IF ~session.probe /\ session.stopPending   \* cp_flush_trs_band()
       THEN pc' = "flushing" /\ state' = state /\ drain' = queue /\ queue' = <<>>
       ELSE pc' = "app" /\ state' = "ONLINE" /\ UNCHANGED <<drain, queue>>
    /\ UNCHANGED <<bandOpen, muddled>>

\* state_update() after the exchange: the request bits, then the session.
Settle ==
    /\ pc = "settled"
    /\ LET at == IF Failed THEN AdvancedOnError ELSE Advanced
           n  == CASE "LINK_RESET" \in request -> "OFFLINE"
                   [] "LINK_RESET" \notin request /\ InTrs ->
                         IF at.step = "DONE" THEN "ONLINE" ELSE "TRS_RUN"
                   [] OTHER -> IF Failed THEN "OFFLINE" ELSE "ONLINE"
           m  == Override(n)
       IN /\ CASE m = "TRS_RUN" -> EnterRun(at)
               [] m = "ONLINE" /\ InTrs -> EnterOnline(at)
               [] m = "ONLINE" /\ ~InTrs ->
                     Resume /\ UNCHANGED <<state, session, flag, scan, over,
                                           bandOpen, queue, drain, muddled>>
               [] OTHER -> Leave(m)
          /\ stuck' = IF m = "ONLINE" /\ InTrs
                      THEN session.step = "TEARDOWN" /\ Failed ELSE stuck
    /\ request' = {}
    /\ reply' = "SILENCE"     \* nothing reads it before the next exchange ends
    /\ UNCHANGED <<act, owner, reader, trouble>>

\* cp_flush_trs_band(): the detached queue is handed back up to the STOP.
FlushStep ==
    /\ pc = "flushing" /\ drain # <<>>
    /\ owner' = [owner EXCEPT ![Head(drain)] = "app"]
    /\ drain' = Tail(drain)
    /\ pc' = IF Kind[Head(drain)] = "STOP" THEN "flushed" ELSE "flushing"
    /\ UNCHANGED <<link, session, flag, bandOpen, queue, muddled, probing,
                   reading>>

\* What is left goes ahead of what the callbacks submitted; with no STOP seen
\* the tail is inside the band that was dropped, or so it is assumed.
FlushDone ==
    /\ pc = "flushed" \/ (pc = "flushing" /\ drain = <<>>)
    /\ queue' = drain \o queue /\ drain' = <<>>
    /\ bandOpen' = (bandOpen /\ pc = "flushed")
    /\ muddled' = (muddled \/ (pc = "flushing" /\ queue # <<>>))
    /\ pc' = "app" /\ state' = "ONLINE"
    /\ UNCHANGED <<cmd, act, reply, request, session, flag, owner, probing,
                   reading>>

\* CP_REQ_TRS_OPEN, CP_REQ_TRS_SCAN: the entry of TRS_SETUP, which a probe
\* turns into one without a band (osdp_trs_probe_note_open()).
EnterSetup(probe) ==
    /\ Resume
    /\ state' = "TRS_SETUP"
    /\ session' = [step |-> "SET_MODE", failed |-> FALSE,
                   stopPending |-> ~probe, probe |-> probe \/ session.probe]
    /\ flag' = TRUE
    /\ scan' = IF probe THEN [Forgotten(scan) EXCEPT !.holding = FALSE]
               ELSE scan
    /\ UNCHANGED <<over, bandOpen, queue, drain, muddled>>

Open ==
    /\ pc = "opening"
    /\ IF Override("TRS_SETUP") = "TRS_SETUP"
       THEN EnterSetup(FALSE) ELSE Leave(Override("TRS_SETUP"))
    /\ request' = {}
    /\ UNCHANGED <<act, reply, owner, reading>>

ScanDue ==
    /\ Idle /\ state = "ONLINE" /\ queue = <<>>
    /\ osdp_trs_scan_probe_due
    /\ IF Override("TRS_SETUP") = "TRS_SETUP"
       THEN EnterSetup(TRUE) ELSE Leave(Override("TRS_SETUP"))
    /\ request' = {}
    /\ UNCHANGED <<act, reply, owner, reading>>

\* osdp_trs_probe_adopted()
Adopt ==
    /\ pc = "adopting"
    /\ pc' = "app"
    /\ session' = [session EXCEPT !.probe = FALSE, !.stopPending = TRUE]
    /\ scan' = [Forgotten(scan) EXCEPT !.holding = FALSE]
    /\ over' = {}
    /\ UNCHANGED <<link, flag, band, reading>>

Stop ==
    /\ pc = "stopping"
    /\ pc' = "app"
    /\ session' = [session EXCEPT !.stopPending = FALSE,
                                  !.step = "DISCONNECT_CARD"]
    /\ cmd' = "TERMINATE" /\ act' = NoCmd
    /\ UNCHANGED <<state, reply, request, flag, band, probing, reading>>

\* A pass with nothing to send only looks at the lifecycle bits.
IdlePass ==
    /\ Idle /\ request # {}
    /\ state \in {"OFFLINE", "DISABLED"} \/ queue = <<>>
    /\ Leave(Override(state))
    /\ request' = {}
    /\ UNCHANGED <<act, reply, owner, reading>>

-----------------------------------------------------------------------------
(* Outside the session: the dwell and the handshake.  Its first packet has
   sequence number 0: osdp_trs_pd_reset() takes the reader to mode 00.       *)

Redial ==
    /\ Idle /\ state = "OFFLINE" /\ request = {}
    /\ Leave("INIT")
    /\ UNCHANGED <<act, reply, request, owner, reading>>

osdp_trs_pd_reset == [mode |-> 0, synced |-> TRUE]

Connect(n) ==
    /\ Idle /\ state = "INIT" /\ request = {}
    /\ state' = n
    /\ flag' = (flag /\ n # "ONLINE")
    /\ reader' = osdp_trs_pd_reset
    /\ stuck' = FALSE
    /\ UNCHANGED <<pc, cmd, act, reply, request, session, band, probing,
                   trouble>>

Unreachable ==
    /\ Idle /\ state = "INIT" /\ request = {}
    /\ Spend("lost")
    /\ state' = "OFFLINE"
    /\ UNCHANGED <<pc, cmd, act, reply, request, session, flag, band, probing,
                   reader, stuck>>

\* Time passes; each wait counts only where it is looked at.
InProbe == InTrs /\ session.probe /\ session.step = "XMIT"
Pending == [mode0 |-> state = "ONLINE" /\ scan.enabled,
            mode1 |-> InProbe,
            hold  |-> InProbe /\ scan.holding,
            ask   |-> InProbe /\ scan.enabled /\ scan.asked]

WaitOver(w) ==
    /\ w \notin over
    /\ Pending[w]
    /\ over' = over \cup {w}
    /\ UNCHANGED <<pc, link, session, flag, band, scan, reading>>

-----------------------------------------------------------------------------
Api ==
    \/ \E c \in Cmds : osdp_cp_submit_command(c)
    \/ osdp_cp_flush_commands
    \/ osdp_cp_trs_scan_enable
    \/ osdp_cp_trs_scan_disable
    \/ \E r \in {"DISABLE", "ENABLE"} : Lifecycle(r)

Refresh ==
    \/ OnlineDequeue \/ OnlinePoll \/ SessionDequeue \/ SessionIdle
    \/ SessionStep \/ NotBuilt \/ Settle \/ FlushStep \/ FlushDone
    \/ Open \/ ScanDue \/ Adopt \/ Stop \/ IdlePass \/ Redial
    \/ Connect("ONLINE")

Line == Answered \/ Declined \/ Lost \/ BusyThroughout \/ OutOfStep

Next ==
    \/ Api \/ Refresh \/ Line
    \/ ReaderRestarts \/ Unreachable
    \/ \E w \in Waits : WaitOver(w)

Spec == Init /\ [][Next]_vars

\* Refreshes go on, an exchange ends (in silence if need be) and time passes.
FairSpec ==
    /\ Spec
    /\ WF_vars(Refresh) /\ WF_vars(Answered)
    /\ \A w \in Waits : WF_vars(WaitOver(w))

-----------------------------------------------------------------------------
(* Properties *)

SessionType == [step : Steps, failed : BOOLEAN, stopPending : BOOLEAN,
                probe : BOOLEAN]
ScanType == [enabled : BOOLEAN, holding : BOOLEAN, asking : BOOLEAN,
             asked : BOOLEAN, support : {"UNKNOWN", "YES", "NO"}]

FlowOK ==
    /\ pc \in {"app", "opening", "adopting", "stopping", "settled", "flushing",
              "flushed"}
    /\ state \in States
    /\ cmd \in Wire /\ act \in Cmds \cup {NoCmd} /\ reply \in ReplyIds
    /\ request \subseteq {"LINK_RESET", "DISABLE", "ENABLE"}

SessionOK ==
    /\ session \in SessionType
    /\ scan \in ScanType
    /\ over \subseteq Waits
    /\ flag \in BOOLEAN

BandOK ==
    /\ bandOpen \in BOOLEAN /\ muddled \in BOOLEAN
    /\ queue \in Seq(Cmds) /\ drain \in Seq(Cmds)
    /\ owner \in [Cmds -> {"app", "lib"}]

ReaderOK ==
    /\ reader \in [mode : {0, 1}, synced : BOOLEAN]
    /\ stuck \in BOOLEAN
    /\ trouble \in 0..MaxTrouble

\* The session, the scan, the band and the reader keep their types.
TypeOK == FlowOK /\ SessionOK /\ BandOK /\ ReaderOK

\* The commands that only stand inside a band, and those that leave the next
\* one inside.
NeedsBand(c) == Kind[c] \in {"CARD", "STOP"}
LeavesBand(c) == Kind[c] \in {"START", "CARD"}

\* From `before` to `after`, every command of s stands where its predecessor
\* leaves it.
WellFormedBands(before, s, after) ==
    \A i \in 0..Len(s) :
        (IF i = 0 THEN before ELSE LeavesBand(s[i]))
            = (IF i = Len(s) THEN after ELSE NeedsBand(s[i + 1]))

\* band_open, which decides at submission time, describes the tail of a queue
\* that always reads as well-formed bands from where the session stands, as
\* long as the session it was queued for has not been cut.
BandMarks == ~muddled => WellFormedBands(InBand, drain \o queue, bandOpen)

\* A reader that stays on line is left in mode 00 after every session, or the
\* CP tried to restore it and was told (or heard) that it failed.
ReaderRestored ==
    pc = "app" /\ state = "ONLINE" /\ reader.synced =>
        reader.mode = 0 \/ stuck

\* The presence question is the probe's alone: it is never left pending when
\* the application takes the session over, nor put in an application session,
\* where it would stand for the application's own card commands.
AskNeverLeaks ==
    /\ cmd = "ASK" => session.probe
    /\ pc = "app" /\ InTrs /\ ~session.probe => ~scan.asking

\* Unless the application queues something for it or changes the scan, every
\* probe ends: the reader is given back, whatever comes and goes in front of
\* it and however often it tells.
ScanCall == osdp_cp_trs_scan_enable \/ osdp_cp_trs_scan_disable
ProbeEnds ==
    <>[](queue = <<>>) /\ <>[][~ScanCall]_vars
        => []<>~(InTrs /\ session.probe)

=============================================================================
