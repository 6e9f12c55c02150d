------------------------------- MODULE CpFsm -------------------------------
(***************************************************************************)
(* The control panel's state machine for one PD (src/src/osdp_cp.c):       *)
(* the protocol FSM state_update(), the command exchange FSM               *)
(* cp_phy_state_update(), the command queue with its completions, and the  *)
(* lifecycle API an application may call between two refreshes or from     *)
(* inside a callback.  The PD and the transport are the environment: any   *)
(* reply, malformed or not, or none, may answer any command.               *)
(*                                                                         *)
(* One refresh runs state_update() once.  The pass is split where it hands *)
(* control to application code, so that an API call made from a callback   *)
(* is interleaved exactly where the code lets it happen:                   *)
(*                                                                         *)
(*   "app"       between two refreshes                                     *)
(*   "exchanged" the exchange ended (phy DONE or ERR); no callback yet     *)
(*   "settled"   the completion callback has fired, next state undecided   *)
(*   "entering"  the SC-status notification of cp_state_change() has       *)
(*               fired; pd->state still holds the state being left         *)
(*                                                                         *)
(* Calls made from the event callback of cp_decode_response(), from the    *)
(* notifications of cp_transition_effects() and from the PD-status         *)
(* notification commute with the rest of the pass (nothing that follows    *)
(* reads what they write, or what they write is read as if the call had    *)
(* come before or after the pass), so they need no label of their own.     *)
(***************************************************************************)
EXTENDS Naturals, Sequences, Functions

CONSTANTS
    Cmds,                  \* command objects the application owns
    Kind,                  \* [Cmds -> CmdKinds]
    Broadcast,             \* the commands flagged OSDP_CMD_FLAG_BROADCAST
    Keys, KeyOf,           \* SCBK values; the one a keyset command carries
    MaxRetries,            \* OSDP_CMD_MAX_RETRIES
    Notify,                \* OSDP_FLAG_ENABLE_NOTIFICATION
    IgnoreUnsolicited,     \* OSDP_FLAG_IGN_UNSOLICITED
    KeyConfigured,         \* an SCBK was given at setup (else SC is disabled)
    Faults,                \* which of "build", "send", "malformed" may happen
    NoCmd                  \* a NULL command pointer

CmdKinds == {"PLAIN", "QUERY", "MFG", "KEYSET"}

ASSUME CmdsAssumption ==
    /\ Kind \in [Cmds -> CmdKinds]
    /\ Broadcast \subseteq Cmds
    /\ KeyOf \in [Cmds -> Keys]
    /\ Keys # {}
    /\ NoCmd \notin Cmds
ASSUME OptionsAssumption ==
    /\ MaxRetries \in Nat
    /\ Notify \in BOOLEAN
    /\ IgnoreUnsolicited \in BOOLEAN
    /\ KeyConfigured \in BOOLEAN
    /\ Faults \subseteq {"build", "send", "malformed"}

VARIABLES
    pc,           \* where state_update() is, see above
    inApp,        \* application code has control and may call the API
    state,        \* pd->state
    phy,          \* pd->phy_state
    retry,        \* pd->phy_retry_count
    cmd,          \* pd->cmd_id
    reply,        \* pd->reply_id, a NAK together with the class of its code
    request,      \* pd->request
    queue,        \* pd->cmd_queue
    active,       \* pd->active_cmd
    scActive,     \* PD_FLAG_SC_ACTIVE
    useScbkd,     \* PD_FLAG_SC_USE_SCBKD
    established,  \* PD_FLAG_SC_ESTABLISHED
    capable,      \* PD_FLAG_SC_CAPABLE
    enforce,      \* PD_FLAG_ENFORCE_SECURE
    scbk,         \* pd->sc.scbk
    crc,          \* PD_FLAG_CP_USE_CRC and whether the PD declared CRC-16
    bcast,        \* PD_FLAG_PKT_BROADCAST
    err,          \* local of state_update(): did the exchange fail hard?
    next,         \* local of state_update(): the state being entered
    owner,        \* history: who owns each command object
    outcome,      \* history: status of the completion fired in this pass
    answered,     \* history: a valid reply to the command in flight came in
    onlineSecure, \* history: SC was active when ONLINE was last entered
    wire          \* history: address the packet in flight was sent to

exchange == <<phy, retry, cmd, reply, crc, bcast, answered, wire>>
security == <<scActive, useScbkd, established, capable, enforce, scbk,
              onlineSecure>>
commands == <<queue, active, owner, outcome>>
control  == <<pc, inApp, state, request, err, next>>
vars     == <<exchange, security, commands, control>>

-----------------------------------------------------------------------------
(* Vocabulary *)

States == {"INIT", "CAPDET", "SC_CHLNG", "SC_SCRYPT", "SET_SCBK", "ONLINE",
           "OFFLINE", "DISABLED"}
PhyStates == {"IDLE", "SEND_CMD", "SEND_CMD_WAIT", "REPLY_WAIT", "WAIT",
              "RETRY_CMD", "DONE", "ERR"}
Requests == {"RESTART_SC", "LINK_RESET", "DISABLE", "ENABLE"}

\* PLAIN stands for LED, BUZ, TEXT, TDSET (answered by an ACK), QUERY for the
\* status requests, OUT and COMSET (answered by a report), MFG also covers
\* the reply that reports a vendor error.
CmdIds == CmdKinds \cup {"ID", "CAP", "CHLNG", "SCRYPT", "POLL", "NONE"}

\* NAK_APP: CMD_LEN, CMD_UNKNOWN, BIO_TYPE, BIO_FMT, RECORD; NAK_CHK: MSG_CHK;
\* NAK_LINK: SEQ_NUM, SC_UNSUP, SC_COND.  NAK_LOCAL is the SC_COND the CP's own
\* decoder records when it refuses a reply.  REPORT is any reply that carries
\* application data.
Naks == {"NAK_APP", "NAK_CHK", "NAK_LINK", "NAK_LOCAL"}
WireReplies == {"NAK_APP", "NAK_CHK", "NAK_LINK", "ACK", "PDID", "PDCAP",
                "CCRYPT", "RMAC_I", "REPORT", "MFGERRR", "UNKNOWN"}
ReplyIds == WireReplies \cup Naks \cup {"INVALID", "BUSY"}

cp_is_online == state = "ONLINE"
cp_phy_running == phy \notin {"IDLE", "DONE", "ERR"}
sc_is_capable == capable /\ KeyConfigured

-----------------------------------------------------------------------------
(* Variants: how a plausible bug would change a definition below.  No part of
   the specification uses them; each shows that some property has teeth.      *)

\* Drained: flush hands back the command in flight too.
DrainedWithActive ==
    Range(queue) \cup ({active} \ {NoCmd})

\* BroadcastFlagAfterInit: packet_init forgets to clear the flag.
BroadcastFlagKept == bcast

\* Spent: the retry is not charged.
RetryNotCounted == retry

\* ReplyAfterSend: the reply id of the previous exchange is not cleared.
ReplyIdKept == reply

\* cp_cmd_failure_is_soft: neither the phy state nor the NAK code is checked.
AnyNakIsSoft ==
    /\ cp_is_online
    /\ cmd \in CmdKinds
    /\ reply \in Naks \cup {"BUSY"}

\* KeysetAcked: the reply is not checked.
KeysetDone == cp_is_online /\ cmd = "KEYSET"

\* WithoutSc: ENFORCE_SECURE forgotten on one failure path.
WithoutScWhenScryptFails ==
    IF enforce /\ state # "SC_SCRYPT" THEN "OFFLINE" ELSE "ONLINE"

\* MayFallBackToScbkd: SC_ESTABLISHED is not checked.
ScbkdAfterAnyFailure == ~enforce /\ ~useScbkd

\* AfterDwell: pending commands keep the PD offline.
DwellRestarts(elapsed) == IF elapsed /\ queue = <<>> THEN "INIT" ELSE "OFFLINE"

\* Lifecycle: the request is dropped unless the PD is online.
DisableOnlyOnline(n) ==
    IF "ENABLE" \in request THEN "INIT"
    ELSE IF "DISABLE" \in request /\ cp_is_online THEN "DISABLED" ELSE n

\* StopsSession: entering DISABLED forgets sc_deactivate().
StopsOnlyOffline(n) == n = "OFFLINE" /\ n # state
-----------------------------------------------------------------------------
(* Initial state: osdp_cp_setup() *)

Init ==
    /\ pc = "app" /\ inApp = TRUE
    /\ state = "INIT" /\ phy = "IDLE" /\ retry = 0
    /\ cmd = "NONE" /\ reply = "INVALID" /\ request = {}
    /\ queue = <<>> /\ active = NoCmd
    /\ owner = [c \in Cmds |-> "app"] /\ outcome = "none"
    /\ scActive = FALSE /\ useScbkd = FALSE /\ established = FALSE
    /\ capable = FALSE
    /\ enforce \in {e \in BOOLEAN : e => KeyConfigured}
    /\ scbk \in Keys
    /\ crc = [use |-> TRUE, declared |-> FALSE] /\ bcast = FALSE
    /\ err = FALSE /\ next = "INIT"
    /\ answered = FALSE /\ onlineSecure = FALSE /\ wire = "none"

-----------------------------------------------------------------------------
(* The application API.  osdp.h lets a callback submit, flush and query; the
   lifecycle calls carry no guard against being made from one either.        *)

\* cp_submit_command(): accepted only while the PD is online.  The
\* application submits a command object only while it owns it.
SubmitAccepted(c) ==
    /\ cp_is_online
    /\ c \in Broadcast => ~enforce
    /\ Kind[c] = "KEYSET" => scActive

osdp_cp_submit_command(c) ==
    /\ inApp
    /\ owner[c] = "app"
    /\ SubmitAccepted(c)
    /\ queue' = Append(queue, c)
    /\ owner' = [owner EXCEPT ![c] = "lib"]
    /\ UNCHANGED <<active, outcome, exchange, security, control>>

\* cp_drain_queue(): the queue is detached, then every command in it is
\* handed back.  The command in flight is not in the queue.
Drained == Range(queue)

osdp_cp_flush_commands ==
    /\ inApp
    /\ queue # <<>>
    /\ queue' = <<>>
    /\ owner' = [c \in Cmds |-> IF c \in Drained THEN "app" ELSE owner[c]]
    /\ UNCHANGED <<active, outcome, exchange, security, control>>

osdp_cp_disable_pd ==
    /\ inApp
    /\ state # "DISABLED"
    /\ "DISABLE" \notin request
    /\ request' = request \cup {"DISABLE"}
    /\ UNCHANGED <<pc, inApp, state, err, next, exchange, security, commands>>

osdp_cp_enable_pd ==
    /\ inApp
    /\ state = "DISABLED"
    /\ "ENABLE" \notin request
    /\ request' = request \cup {"ENABLE"}
    /\ UNCHANGED <<pc, inApp, state, err, next, exchange, security, commands>>

\* osdp_cp_modify_flag(): ENFORCE_SECURE is a one-way latch that needs a key.
osdp_cp_modify_flag ==
    /\ inApp
    /\ KeyConfigured
    /\ ~enforce
    /\ enforce' = TRUE
    /\ UNCHANGED <<scActive, useScbkd, established, capable, scbk,
                   onlineSecure, exchange, commands, control>>

-----------------------------------------------------------------------------
(* The exchange FSM: cp_phy_state_update().  An action that leaves phy in
   DONE or ERR continues into state_update() at label "exchanged"; every
   other one ends the refresh (INPROG or DEFER).                             *)

\* The exchange is over: the rest of state_update() runs in the same refresh.
Ended(p) ==
    /\ phy' = p
    /\ pc' = "exchanged" /\ inApp' = FALSE
    /\ UNCHANGED <<state, err, next>>

\* The refresh returns with the exchange still under way.
Yield(p) ==
    /\ phy' = p
    /\ UNCHANGED <<pc, inApp, state, err, next>>

\* WAIT until OSDP_CMD_RETRY_WAIT_MS is over.
PhyWaitOver ==
    /\ pc = "app" /\ phy = "WAIT"
    /\ Yield("RETRY_CMD")
    /\ UNCHANGED <<retry, cmd, reply, crc, bcast, answered, wire, request,
                   security, commands>>

\* reply_id is cleared only once the bytes are out.
ReplyAfterSend == "INVALID"

\* osdp_phy_send_packet(): the transport takes the bytes, is not ready, or
\* fails.
PhySend ==
    \/ /\ Yield("REPLY_WAIT")
       /\ reply' = ReplyAfterSend
    \/ /\ Yield("SEND_CMD_WAIT")
       /\ UNCHANGED reply
    \/ /\ "send" \in Faults
       /\ Ended("ERR")
       /\ UNCHANGED reply

\* osdp_phy_packet_init() consumes the broadcast flag of the packet it starts.
PacketAddress == IF bcast THEN "bcast" ELSE "pd"
BroadcastFlagAfterInit == FALSE

\* cp_build_packet() needs a secure channel for a KEYSET; any other command
\* may fail to build for want of buffer space.
BuildMayFail == "build" \in Faults \/ (cmd = "KEYSET" /\ ~scActive)
BuildMaySucceed == cmd = "KEYSET" => scActive

PhyBuild ==
    /\ pc = "app" /\ phy \in {"SEND_CMD", "RETRY_CMD"}
    /\ bcast' = BroadcastFlagAfterInit
    /\ \/ /\ BuildMaySucceed
          /\ wire' = PacketAddress
          /\ PhySend
       \/ /\ BuildMayFail
          /\ Ended("ERR")
          /\ UNCHANGED <<reply, wire>>
    /\ UNCHANGED <<retry, cmd, crc, answered, request, security, commands>>

PhySendWait ==
    /\ pc = "app" /\ phy = "SEND_CMD_WAIT"
    /\ PhySend
    /\ UNCHANGED <<retry, cmd, crc, bcast, answered, wire, request, security,
                   commands>>

MayRetry == retry < MaxRetries
Spent == retry + 1

\* Spend one unit of the retry budget, or hand over to `exhausted`.
RetryOr(exhausted) ==
    IF MayRetry
    THEN retry' = Spent /\ Yield("WAIT")
    ELSE exhausted

\* cp_phy_state_done() resets the budget; the error path leaves it.
PhyDone == retry' = 0 /\ Ended("DONE")
PhyError == UNCHANGED retry /\ Ended("ERR")

\* No reply in resp_timeout_ms.
PhyTimeout ==
    /\ pc = "app" /\ phy = "REPLY_WAIT"
    /\ RetryOr(PhyError)
    /\ UNCHANGED <<cmd, reply, crc, bcast, answered, wire, request, security,
                   commands>>

\* osdp_phy_check_packet() recognised a BUSY.
PhyBusy ==
    /\ pc = "app" /\ phy = "REPLY_WAIT"
    /\ reply' = "BUSY"
    /\ RetryOr(PhyDone)
    /\ UNCHANGED <<cmd, crc, bcast, answered, wire, request, security,
                   commands>>

\* Out-of-step sequence number in a reply.
PhySeqMismatch ==
    /\ pc = "app" /\ phy = "REPLY_WAIT"
    /\ reply' = "NAK_LINK"
    /\ request' = request \cup {"LINK_RESET"}
    /\ PhyDone
    /\ UNCHANGED <<cmd, crc, bcast, answered, wire, security, commands>>

\* A frame whose CRC, address or header does not check out.
PhyBadFrame ==
    /\ pc = "app" /\ phy = "REPLY_WAIT"
    /\ PhyError
    /\ UNCHANGED <<cmd, reply, crc, bcast, answered, wire, request, security,
                   commands>>

\* osdp_phy_decode_packet() refused the reply: plain text inside a secure
\* channel (the session stays), a bad MAC (the session is dropped) or a
\* security block without a session.  cp_process_reply() turns every refusal
\* of the decoder into OSDP_CP_ERR_GENERIC.
PhySecurityRefusal ==
    /\ pc = "app" /\ phy = "REPLY_WAIT"
    /\ reply' = "NAK_LOCAL"
    /\ scActive' \in {FALSE, scActive}
    /\ PhyError
    /\ UNCHANGED <<cmd, crc, bcast, answered, wire, request, useScbkd,
                   established, capable, enforce, scbk, onlineSecure,
                   commands>>

\* Replies the decoder accepts as well formed for this command, in this
\* session: the handshake replies only answer their own command, before SC.
InOrder(r) ==
    /\ r = "CCRYPT" => ~scActive /\ cmd = "CHLNG"
    /\ r = "RMAC_I" => ~scActive /\ cmd = "SCRYPT"

\* cp_decode_response() fails after it has stored the reply id: bad length, a
\* handshake reply out of order, or a cryptogram that does not verify.
PhyDecodeFailure(r) ==
    /\ pc = "app" /\ phy = "REPLY_WAIT"
    /\ "malformed" \in Faults \/ ~InOrder(r) \/ r = "CCRYPT"
    /\ r # "UNKNOWN"
    /\ reply' = r
    /\ PhyError
    /\ UNCHANGED <<cmd, crc, bcast, answered, wire, request, security,
                   commands>>

\* A reply id the CP does not know.
PhyUnknownReply ==
    /\ pc = "app" /\ phy = "REPLY_WAIT"
    /\ reply' = "UNKNOWN"
    /\ IF cmd = "POLL" /\ IgnoreUnsolicited THEN PhyDone ELSE PhyError
    /\ UNCHANGED <<cmd, crc, bcast, answered, wire, request, security,
                   commands>>

\* A NAK(MSG_CHK) under CRC-16: fall back to checksum if the PD never declared
\* CRC support, resend within the budget if it did.
FallBackToChecksum == crc.use /\ ~crc.declared
ResendWithinBudget == crc.use /\ crc.declared /\ MayRetry

PhyNakCheck ==
    /\ pc = "app" /\ phy = "REPLY_WAIT"
    /\ FallBackToChecksum \/ ResendWithinBudget
    /\ reply' = "NAK_CHK"
    /\ crc' = IF FallBackToChecksum THEN [crc EXCEPT !.use = FALSE] ELSE crc
    /\ RetryOr(PhyDone)
    /\ UNCHANGED <<cmd, bcast, answered, wire, request, security, commands>>

\* A well-formed reply.  PDCAP refreshes what the PD can do, whatever it
\* answers; a REPORT is dispatched to the event callback.
PhyReply(r) ==
    /\ pc = "app" /\ phy = "REPLY_WAIT"
    /\ r # "UNKNOWN" /\ InOrder(r)
    /\ r = "NAK_CHK" => ~(FallBackToChecksum \/ ResendWithinBudget)
    /\ reply' = r
    /\ answered' = TRUE
    /\ IF r = "PDCAP"
       THEN /\ capable' \in BOOLEAN
            /\ crc' \in {crc} \cup {[use |-> b, declared |-> b] : b \in BOOLEAN}
       ELSE UNCHANGED <<capable, crc>>
    /\ PhyDone
    /\ UNCHANGED <<cmd, bcast, wire, request, scActive, useScbkd, established,
                   enforce, scbk, onlineSecure, commands>>

-----------------------------------------------------------------------------
(* state_update() with the exchange FSM at rest: pick a command. *)

\* state_get_cmd() outside ONLINE; "NONE" is the code's -1.
HandshakeCmd ==
    [INIT |-> "ID", CAPDET |-> "CAP", SC_CHLNG |-> "CHLNG",
     SC_SCRYPT |-> "SCRYPT", SET_SCBK |-> "KEYSET",
     OFFLINE |-> "NONE", DISABLED |-> "NONE"]

\* cp_phy_kick(): the next refresh builds and sends c.
Kick(c) ==
    /\ cmd' = c
    /\ phy' = "SEND_CMD"
    /\ answered' = FALSE /\ wire' = "none"
    /\ UNCHANGED <<retry, reply, crc, control>>

\* Nothing to send: state_update() goes on to the transition with no error.
NoCommand(callback) ==
    /\ cmd' = "NONE"
    /\ pc' = "settled" /\ inApp' = callback
    /\ UNCHANGED <<phy, retry, reply, crc, answered, wire, state, request, err,
                   next>>

IdleHandshake ==
    /\ pc = "app" /\ phy = "IDLE" /\ state # "ONLINE"
    /\ IF HandshakeCmd[state] = "NONE" THEN NoCommand(FALSE)
                                       ELSE Kick(HandshakeCmd[state])
    /\ UNCHANGED <<bcast, security, commands>>

\* cp_translate_cmd(): a KEYSET queued in a session that is gone is refused.
Translates(c) == Kind[c] = "KEYSET" => scActive

\* cp_get_online_command() and cp_setup_active_cmd()
IdleDequeue ==
    /\ pc = "app" /\ phy = "IDLE" /\ state = "ONLINE"
    /\ queue # <<>>
    /\ LET c == Head(queue)
       IN /\ queue' = Tail(queue)
          /\ bcast' = (bcast \/ c \in Broadcast)
          /\ IF Translates(c)
             THEN /\ active' = c
                  /\ Kick(Kind[c])
                  /\ UNCHANGED <<owner, outcome>>
             ELSE /\ NoCommand(TRUE)
                  /\ owner' = [owner EXCEPT ![c] = "app"]
                  /\ outcome' = "FAILED"
                  /\ UNCHANGED active
    /\ UNCHANGED security

\* cp_get_poll_command(): paced by OSDP_PD_POLL_TIMEOUT_MS.
IdlePoll ==
    /\ pc = "app" /\ phy = "IDLE" /\ state = "ONLINE"
    /\ queue = <<>>
    /\ Kick("POLL") \/ NoCommand(FALSE)
    /\ UNCHANGED <<bcast, security, commands>>

-----------------------------------------------------------------------------
(* state_update() once the exchange is over: judge the reply. *)

\* cp_check_online_response()

cp_check_online_response ==
    \/ reply = "ACK"
    \/ /\ reply \notin Naks \cup {"INVALID"}
       /\ \/ cmd = "POLL" /\ (reply \in {"REPORT", "MFGERRR"}
                                \/ IgnoreUnsolicited)
          \/ cmd \in {"QUERY", "MFG"} /\ reply = "REPORT"

ExpectedReply ==
    [INIT |-> "PDID", CAPDET |-> "PDCAP", SC_CHLNG |-> "CCRYPT",
     SC_SCRYPT |-> "RMAC_I", SET_SCBK |-> "ACK"]

\* No exchange is ever started from OFFLINE or DISABLED.
state_check_reply ==
    IF state = "ONLINE" THEN cp_check_online_response
    ELSE /\ state \in DOMAIN ExpectedReply
         /\ reply = ExpectedReply[state]

\* cp_cmd_failure_is_soft(): the PD answered an application's command and
\* declined it; the link is not at fault.

cp_cmd_failure_is_soft ==
    /\ cp_is_online
    /\ phy = "DONE"
    /\ cmd \in CmdKinds
    /\ reply \in {"BUSY", "NAK_APP"} \/ (cmd = "MFG" /\ reply = "MFGERRR")

\* cp_keyset_complete(), run by cp_check_online_response() on the ACK of a
\* KEYSET: commit the new key and ask for a fresh handshake.
KeysetAcked == cp_is_online /\ cmd = "KEYSET" /\ reply = "ACK"
HoldsKeyset == active # NoCmd /\ Kind[active] = "KEYSET"

KeysetComplete ==
    IF KeysetAcked
    THEN /\ scbk' = IF ~useScbkd /\ HoldsKeyset THEN KeyOf[active] ELSE scbk
         /\ useScbkd' = FALSE
         /\ scActive' = FALSE
         /\ request' = request \cup {"RESTART_SC"}
    ELSE UNCHANGED <<scbk, useScbkd, scActive, request>>

\* cp_complete_cmd() hands the command back; active_cmd is cleared when the
\* callback returns, and nothing the callback may call reads it.
CompleteActive(status) ==
    IF active = NoCmd
    THEN UNCHANGED <<owner, outcome>>
    ELSE /\ owner' = [owner EXCEPT ![active] = "app"]
         /\ outcome' = status

Settle ==
    /\ pc = "exchanged"
    /\ KeysetComplete
    /\ CompleteActive(IF state_check_reply THEN "OK" ELSE "FAILED")
    /\ active' = NoCmd
    /\ err' = (IF state_check_reply THEN phy = "ERR"
                                    ELSE ~cp_cmd_failure_is_soft)
    /\ phy' = "IDLE"
    /\ pc' = "settled"
    /\ inApp' = (active # NoCmd \/ (KeysetAcked /\ Notify))
    /\ UNCHANGED <<queue, retry, cmd, reply, crc, bcast, answered, wire,
                   established, capable, enforce, onlineSecure, state, next>>

-----------------------------------------------------------------------------
(* state_update(): choose the next state and enter it. *)

\* Where a PD goes that has no secure channel.
WithoutSc == IF enforce THEN "OFFLINE" ELSE "ONLINE"

\* The SCBK failed: may the default key be tried?
MayFallBackToScbkd == ~enforce /\ ~useScbkd /\ ~established

\* get_next_ok_state(); the two timers (OSDP_PD_SC_RETRY_MS since the last
\* attempt at SC, the OFFLINE dwell) may or may not have run out.
AfterDwell(elapsed) == IF elapsed THEN "INIT" ELSE "OFFLINE"

get_next_ok_state(elapsed) ==
    CASE state = "INIT"      -> "CAPDET"
      [] state = "CAPDET"    -> IF sc_is_capable THEN "SC_CHLNG" ELSE WithoutSc
      [] state = "SC_CHLNG"  -> "SC_SCRYPT"
      [] state = "SC_SCRYPT" -> IF useScbkd THEN "SET_SCBK" ELSE "ONLINE"
      [] state = "SET_SCBK"  -> "SC_CHLNG"
      [] state = "ONLINE"    -> IF sc_is_capable /\ ~scActive /\ elapsed
                                THEN "SC_CHLNG" ELSE "ONLINE"
      [] state = "OFFLINE"   -> AfterDwell(elapsed)
      [] state = "DISABLED"  -> "DISABLED"

\* get_next_err_state()
get_next_err_state ==
    CASE state = "SC_CHLNG"  -> IF MayFallBackToScbkd THEN "SC_CHLNG"
                                                      ELSE WithoutSc
      [] state = "SC_SCRYPT" -> WithoutSc
      [] state = "SET_SCBK"  -> IF enforce \/ useScbkd THEN "OFFLINE"
                                ELSE "ONLINE"
      [] state = "DISABLED"  -> "DISABLED"
      [] OTHER               -> "OFFLINE"

get_next_state(elapsed) ==
    IF err THEN get_next_err_state ELSE get_next_ok_state(elapsed)

\* cp_transition_effects(): n is the state the tables picked.
ScActiveAfter ==
    \/ state = "SC_SCRYPT" /\ ~err
    \/ scActive /\ state # "SET_SCBK"

UseScbkdAfter(n) ==
    CASE state = "CAPDET" /\ ~err   -> useScbkd /\ n # "SC_CHLNG"
      [] state = "SET_SCBK" /\ ~err -> FALSE
      [] state = "SC_CHLNG" /\ err  -> \/ n = "SC_CHLNG"
                                       \/ n = "OFFLINE" /\ useScbkd
      [] OTHER                      -> useScbkd

EstablishedAfter(n) ==
    established \/ (state = "SC_SCRYPT" /\ ~err /\ n # "SET_SCBK")

\* The lifecycle requests are looked at last and override everything.
Lifecycle(n) == IF "ENABLE" \in request THEN "INIT"
                ELSE IF "DISABLE" \in request THEN "DISABLED" ELSE n

\* cp_state_change(), up to the point where pd->state is assigned.  OFFLINE
\* and DISABLED first end the session and notify the application of it.
StopsSession(n) == n \in {"OFFLINE", "DISABLED"} /\ n # state
RetryAfterEntering(n) ==
    IF n # state /\ n \in {"INIT", "SC_CHLNG", "DISABLED"} THEN 0 ELSE retry

ChangeState(n, sc, pending) ==
    /\ next' = n
    /\ err' = FALSE
    /\ outcome' = "none"
    /\ IF StopsSession(n)
       THEN /\ pc' = "entering" /\ inApp' = Notify
            /\ state' = state
            /\ scActive' = FALSE
            /\ request' = pending \ {"RESTART_SC"}
            /\ onlineSecure' = onlineSecure
       ELSE /\ pc' = "app" /\ inApp' = TRUE
            /\ state' = n
            /\ scActive' = sc
            /\ request' = pending
            /\ onlineSecure' = IF n = "ONLINE" /\ state # "ONLINE"
                               THEN sc ELSE onlineSecure

\* Link integrity trumps the transition tables.
LinkReset ==
    /\ pc = "settled"
    /\ "LINK_RESET" \in request
    /\ ChangeState(Lifecycle("OFFLINE"), scActive,
                   request \ {"LINK_RESET", "DISABLE", "ENABLE"})
    /\ retry' = RetryAfterEntering(Lifecycle("OFFLINE"))
    /\ UNCHANGED <<useScbkd, established, capable, enforce, scbk,
                   phy, cmd, reply, crc, bcast, answered, wire,
                   queue, active, owner>>

Advance(elapsed) ==
    /\ pc = "settled"
    /\ "LINK_RESET" \notin request
    /\ LET n       == get_next_state(elapsed)
           online  == state = "ONLINE" \/ n = "ONLINE"
           restart == online /\ "RESTART_SC" \in request
           chosen  == Lifecycle(IF restart THEN "SC_CHLNG" ELSE n)
           taken   == {"DISABLE", "ENABLE"} \cup
                      (IF online THEN {"RESTART_SC"} ELSE {})
       IN /\ ChangeState(chosen, ScActiveAfter, request \ taken)
          /\ useScbkd' = UseScbkdAfter(n)
          /\ established' = EstablishedAfter(n)
          /\ retry' = IF restart THEN 0 ELSE RetryAfterEntering(chosen)
    /\ UNCHANGED <<capable, enforce, scbk, phy, cmd, reply, crc, bcast,
                   answered, wire, queue, active, owner>>

\* The rest of cp_state_change(): the callback returned, assign pd->state.
EnterState ==
    /\ pc = "entering"
    /\ state' = next
    /\ pc' = "app" /\ inApp' = TRUE
    /\ UNCHANGED <<request, err, next, exchange, security, commands>>

-----------------------------------------------------------------------------
(* Specification *)

Api ==
    \/ \E c \in Cmds : osdp_cp_submit_command(c)
    \/ osdp_cp_flush_commands
    \/ osdp_cp_disable_pd
    \/ osdp_cp_enable_pd
    \/ osdp_cp_modify_flag

PdAnswers ==
    \/ PhyBusy \/ PhySeqMismatch \/ PhyBadFrame \/ PhySecurityRefusal
    \/ PhyUnknownReply \/ PhyNakCheck
    \/ \E r \in WireReplies : PhyReply(r) \/ PhyDecodeFailure(r)

\* What a refresh does on its own, whatever the PD and the transport do.
CpSteps ==
    \/ PhyWaitOver \/ PhyTimeout
    \/ IdleHandshake \/ IdleDequeue \/ IdlePoll
    \/ Settle \/ LinkReset \/ (\E elapsed \in BOOLEAN : Advance(elapsed))
    \/ EnterState

Transmits == PhyBuild \/ PhySendWait

osdp_cp_refresh == CpSteps \/ Transmits \/ PdAnswers

Next == Api \/ osdp_cp_refresh

Spec == Init /\ [][Next]_vars

\* Fairness.  osdp.h asks for a refresh at least every 50 ms, so refreshes go on
\* and the ones that change nothing (the transport is not ready, a timer is
\* still running) do not go on for ever; and time passes, so a dwell that is
\* looked at again and again is over one day.
Fairness ==
    /\ WF_vars(osdp_cp_refresh)
    /\ SF_vars(Advance(TRUE))

FairSpec == Spec /\ Fairness

-----------------------------------------------------------------------------
(* Type invariant *)

\* Every variable holds a value its C counterpart can hold; in particular the
\* retry counter of cp_phy_state_update() stays within its budget.
ControlOK ==
    /\ pc \in {"app", "exchanged", "settled", "entering"}
    /\ inApp \in BOOLEAN
    /\ state \in States /\ next \in States
    /\ request \in SUBSET Requests
    /\ err \in BOOLEAN

ExchangeOK ==
    /\ phy \in PhyStates
    /\ retry \in 0..MaxRetries
    /\ cmd \in CmdIds /\ reply \in ReplyIds
    /\ crc \in [use : BOOLEAN, declared : BOOLEAN]
    /\ bcast \in BOOLEAN /\ answered \in BOOLEAN
    /\ wire \in {"none", "pd", "bcast"}

SecurityOK ==
    /\ scActive \in BOOLEAN /\ useScbkd \in BOOLEAN /\ established \in BOOLEAN
    /\ capable \in BOOLEAN /\ enforce \in BOOLEAN
    /\ scbk \in Keys
    /\ onlineSecure \in BOOLEAN

CommandsOK ==
    /\ queue \in Seq(Cmds)
    /\ active \in Cmds \cup {NoCmd}
    /\ owner \in [Cmds -> {"app", "lib"}]
    /\ outcome \in {"none", "OK", "FAILED"}

TypeOK == ControlOK /\ ExchangeOK /\ SecurityOK /\ CommandsOK

-----------------------------------------------------------------------------
(* Safety *)

\* Every accepted command is reported exactly once (osdp.h:2218).  A command is
\* the library's exactly while it is queued or in flight, and is in one of the
\* two places once: no flush, failure, session loss or callback completes it
\* twice, and none drops it without a completion.
Ownership ==
    /\ \A c \in Cmds : owner[c] = "lib" <=> (c = active \/ c \in Range(queue))
    /\ active \notin Range(queue)
    /\ IsInjective(queue)

\* The application sees a secure session end: a PD that came online with a
\* secure channel is never polled in plain text before it has left ONLINE, and
\* one that came online without does not acquire a session on the way.
NoSilentDowngrade ==
    pc = "app" /\ state = "ONLINE" => scActive = onlineSecure

\* Once a session with the PD's own key was established, the well-known default
\* key is not tried again (osdp_common.h, PD_FLAG_SC_ESTABLISHED); and a
\* session on the default key only carries the KEYSET of SET_SCBK, never
\* ONLINE traffic.
DefaultKeyConfined ==
    /\ ~(established /\ useScbkd)
    /\ pc = "app" /\ state = "ONLINE" => ~(scActive /\ useScbkd)

\* A PD that is offline or disabled has nothing in flight and no trace of the
\* old session: no exchange, no active command, no session, no request of that
\* session that could fire on the next ONLINE visit (cp_state_change()).
QuietWhenDown ==
    pc = "app" /\ state \in {"OFFLINE", "DISABLED"} =>
        /\ phy = "IDLE" /\ active = NoCmd
        /\ ~scActive
        /\ request \cap {"RESTART_SC", "LINK_RESET"} = {}

\* A command completes OK only if a valid reply to it came in
\* (OSDP_COMPLETION_OK, osdp.h:1923).
OkMeansAnswered == outcome = "OK" => answered

\* The broadcast address is used for a command that asked for it and for no
\* other: the flag of one packet does not leak into the next.
NoStrayBroadcast == phy # "IDLE" /\ wire = "bcast" => active \in Broadcast

-----------------------------------------------------------------------------
(* Action properties *)

\* With ENFORCE_SECURE latched, nothing but a secure channel leads to ONLINE,
\* whatever failed on the way (get_next_ok_state(), get_next_err_state()).
EnforceEntersSecure ==
    [][state # "ONLINE" /\ state' = "ONLINE" /\ enforce => scActive']_vars

\* The CP changes its copy of the SCBK only when the PD answered the KEYSET
\* (cp_keyset_complete()): committing earlier locks the CP out of the PD.
KeyCommitsOnReply == [][scbk' # scbk => answered]_vars

-----------------------------------------------------------------------------
(* Liveness *)

\* osdp_cp_disable_pd() takes effect, whatever the exchange in flight does.
DisableHonoured == "DISABLE" \in request ~> state = "DISABLED"

\* An offline PD is tried again unless the application disables it.
OfflineReconnects == state = "OFFLINE" ~> state \in {"INIT", "DISABLED"}

\* The command in flight is handed back: BUSY, NAKs, silence and retries end.
ActiveCompletes == \A c \in Cmds : active = c ~> owner[c] = "app"
=============================================================================
