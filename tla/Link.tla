-------------------------------- MODULE Link --------------------------------
(***************************************************************************)
(* The two ends of the OSDP link and the line between them: the sequence   *)
(* numbers and retries of the CP (src/src/osdp_phy.c and                   *)
(* cp_phy_state_update()), the sequence check, the repeat rule and the     *)
(* reply cache of the PD (phy_check_packet(), osdp_pd_update()).           *)
(*                                                                         *)
(* The conversation is the one of an insecure link: if the PD is capable   *)
(* of a secure channel the ends share no key, so a handshake is attempted, *)
(* which restarts the sequence, and fails.                                 *)
(*                                                                         *)
(* The line is a queue in each direction.  Either end may be slow, so that *)
(* the CP repeats a command that still waits in the PD's receive buffer    *)
(* and a reply comes late; a reply that waits for the PD's transport is a  *)
(* slow PD.  toCp is what waits in the transport of the CP, rxRb what the  *)
(* library has read from it already: the two are flushed separately.       *)
(***************************************************************************)
EXTENDS Naturals, Integers, Sequences, SequencesExt

CONSTANTS
    Ids,                \* names that tell commands apart
    NoId,
    MaxRetries,         \* OSDP_CMD_MAX_RETRIES
    ScCapable,          \* the PD reports a secure channel, and a key is set
    Flush,              \* the application's channel has a flush callback
    IgnoreUnsolicited,  \* OSDP_FLAG_IGN_UNSOLICITED
    Faults,             \* what may go wrong, out of the set below
    LineLimit,          \* bound: frames a receive buffer holds
    MaxTrouble          \* bound: how often something may go wrong

\* No frame is in the staging buffer.
NoReply == [none |-> TRUE]

ASSUME LinkAssumption ==
    /\ NoId \notin Ids
    /\ MaxRetries \in Nat
    /\ {ScCapable, Flush, IgnoreUnsolicited} \subseteq BOOLEAN
    /\ Faults \subseteq {"loss", "late", "noise", "send", "cp_restart",
                         "pd_restart", "vendor"}
    /\ LineLimit \in Nat \ {0}
    /\ MaxTrouble \in Nat

VARIABLES
    state,      \* CP: pd->state
    cpPhy,      \* CP: pd->phy_state
    cpSeq,      \* CP: pd->seq_number, of the last exchange that went through
    txSeq,      \* CP: pd->phy_tx_seq, of the packet being exchanged
    retry,      \* CP: pd->phy_retry_count
    useScbkd,   \* CP: PD_FLAG_SC_USE_SCBKD, the handshake's second attempt
    cmd,        \* CP: the command being exchanged
    rxRb,       \* CP: pd->rx_rb
    pdSeq,      \* PD: pd->seq_number
    pdCmd,      \* PD: pd->cmd_id, of the last command it decoded
    cache,      \* PD: the staging buffer with last_cmd_id, if last_tx_len > 0
    toPd, toCp, \* the line
    trouble,    \* how often something went wrong
    execs,      \* history: how often each command was executed
    repeatable, \* history: commands that restart the sequence, or that a PD
                \* which restarted has forgotten
    answered    \* history: the command the last accepted reply was for

cp   == <<state, cpPhy, cpSeq, txSeq, retry, useScbkd, cmd, rxRb>>
pd   == <<pdSeq, pdCmd, cache>>
line == <<toPd, toCp, trouble>>
hist == <<execs, repeatable, answered>>
vars == <<cp, pd, line, hist>>

-----------------------------------------------------------------------------
(* Variants: how a plausible bug would change a definition below.  No part of
   the specification uses them; each shows that some property has teeth.      *)

\* NextSeq: the wrap-around comes too early.
NextSeqStuck(s) == IF s >= 1 THEN 1 ELSE s + 1

\* RewoundSeq: the retry is numbered like a new command.
NotRewound == txSeq

\* InSequence: the CP forgets to check.
AnySequence(r) == TRUE

\* TransportAfterReset: the reset empties rx_rb only.
TransportUnflushed == toCp

-----------------------------------------------------------------------------
(* Sequence numbers *)

\* phy_get_next_seq_number(): -1 is the state of a fresh or reset end.
NextSeq(s) == IF s >= 3 THEN 1 ELSE s + 1

\* phy_rollback_seq_number()
Rollback(s) == IF s - 1 < 1 THEN 3 ELSE s - 1

-----------------------------------------------------------------------------
(* Vocabulary *)

States == {"INIT", "CAPDET", "SC_CHLNG", "ONLINE", "OFFLINE"}

\* What the CP sends in each state: state_get_cmd().  OUT stands for any
\* command of the application.
CodesOf ==
    [INIT |-> {"ID"}, CAPDET |-> {"CAP"}, SC_CHLNG |-> {"CHLNG"},
     ONLINE |-> {"POLL", "OUT"}, OFFLINE |-> {}]
Codes == UNION {CodesOf[s] : s \in States}

NoCmd == [id |-> NoId, code |-> "NONE"]
Frame(c, seq) == [id |-> c.id, code |-> c.code, seq |-> seq]

\* A reply knows the command it answers; UNKNOWN is a reply id the CP has
\* never heard of.
Kinds == {"ANSWER", "NAK", "UNKNOWN"}
Reply(f, seq, kind) ==
    [id |-> f.id, code |-> f.code, seq |-> seq, kind |-> kind]

\* A receive buffer that is full drops what comes.
Put(buffer, frame) ==
    IF Len(buffer) < LineLimit THEN Append(buffer, frame) ELSE buffer

\* A name is free once nothing on the line or at either end remembers it.
Remembered ==
    {f.id : f \in ToSet(toPd) \cup ToSet(toCp) \cup ToSet(rxRb)}
    \cup (IF cache = NoReply THEN {} ELSE {cache.reply.id})
FreeId == CHOOSE c \in Ids : c \notin Remembered

Trouble(kind) ==
    /\ kind \in Faults
    /\ trouble < MaxTrouble
    /\ trouble' = trouble + 1

-----------------------------------------------------------------------------
(* Initial state: both ends after their setup calls *)

Init ==
    /\ state = "INIT" /\ cpPhy = "IDLE" /\ cpSeq = -1 /\ txSeq = 0
    /\ retry = 0 /\ useScbkd = FALSE /\ cmd = NoCmd /\ rxRb = <<>>
    /\ pdSeq = -1 /\ pdCmd = "NONE" /\ cache = NoReply
    /\ toPd = <<>> /\ toCp = <<>> /\ trouble = 0
    /\ execs = [c \in Ids |-> 0] /\ repeatable = {} /\ answered = NoId

-----------------------------------------------------------------------------
(* CP: sending and repeating a command *)

\* SEND_CMD: osdp_phy_packet_init() numbers the packet, a new command gets a
\* new name.
CpSend(code) ==
    /\ cpPhy = "IDLE" /\ code \in CodesOf[state]
    /\ Remembered # Ids
    /\ LET c   == [id |-> FreeId, code |-> code]
           seq == NextSeq(cpSeq)
       IN /\ cmd' = c
          /\ txSeq' = seq
          /\ toPd' = Put(toPd, Frame(c, seq))
          /\ execs' = [execs EXCEPT ![c.id] = 0]
          /\ repeatable' = IF seq = 0 THEN repeatable \cup {c.id}
                                      ELSE repeatable \ {c.id}
    /\ answered' = NoId
    /\ cpPhy' = "REPLY_WAIT"
    /\ UNCHANGED <<state, cpSeq, retry, useScbkd, rxRb, pd, toCp, trouble>>

\* RETRY_CMD: the transport is flushed, what was read from it is not; the
\* sequence number is rewound to the one the original was sent with.
RewoundSeq == txSeq - 1

CpRetry ==
    /\ cpPhy = "WAIT"
    /\ toCp' = IF Flush THEN <<>> ELSE toCp
    /\ cpSeq' = RewoundSeq
    /\ txSeq' = NextSeq(RewoundSeq)
    /\ toPd' = Put(toPd, Frame(cmd, NextSeq(RewoundSeq)))
    /\ cpPhy' = "REPLY_WAIT"
    /\ UNCHANGED <<state, retry, useScbkd, cmd, rxRb, pd, trouble, hist>>

-----------------------------------------------------------------------------
(* CP: the end of an exchange *)

OkState ==
    CASE state = "INIT"   -> "CAPDET"
      [] state = "CAPDET" -> IF ScCapable THEN "SC_CHLNG" ELSE "ONLINE"
      [] OTHER            -> "ONLINE"

\* get_next_err_state(): the handshake is tried a second time with the
\* default key, and without ENFORCE_SECURE a PD is used without one.
ErrState ==
    CASE state = "SC_CHLNG" -> IF useScbkd THEN "ONLINE" ELSE "SC_CHLNG"
      [] OTHER              -> "OFFLINE"

\* The exchange is over in state `n`: the sequence stands at `seq`, `spent`
\* of the retry budget is gone and `rest` was read but not looked at.
\* Entering SC_CHLNG resets the phy (osdp_phy_state_reset(pd, true)); the
\* second attempt at the handshake does not enter it.
Settle(n, seq, spent, rest) ==
    /\ state' = n
    /\ cpPhy' = "IDLE" /\ cmd' = NoCmd /\ toCp' = <<>>
    /\ useScbkd' = (state = "SC_CHLNG" /\ n = "SC_CHLNG")
    /\ IF n = "SC_CHLNG" /\ state # n
       THEN cpSeq' = -1 /\ txSeq' = 0 /\ retry' = 0 /\ rxRb' = <<>>
       ELSE cpSeq' = seq /\ retry' = spent /\ rxRb' = rest /\ UNCHANGED txSeq

\* osdp_channel_receive() reads all there is, then one packet is looked at.
Received == rxRb \o toCp
ReplyHere == cpPhy = "REPLY_WAIT" /\ Received # <<>>

InSequence(r) == r.seq = NextSeq(cpSeq)

\* cp_check_online_response() takes the ACK that answers a POLL for the answer
\* to any command, and a report for the answer to a POLL.
Fits(r) ==
    \/ r.code = cmd.code
    \/ cmd.code = "OUT" /\ r.code = "POLL"
    \/ cmd.code = "POLL" /\ (r.code = "OUT" \/ IgnoreUnsolicited)

\* A reply that is decoded (CCRYPT apart) ends the exchange in DONE; whether it
\* is the expected one decides about the state (state_check_reply()).
CpAnswer ==
    /\ ReplyHere
    /\ LET r == Head(Received)
       IN /\ InSequence(r) /\ r.kind = "ANSWER" /\ r.code # "CHLNG"
          /\ IF Fits(r)
             THEN /\ answered' = r.id
                  /\ Settle(OkState, NextSeq(cpSeq), 0, Tail(Received))
             ELSE /\ UNCHANGED answered
                  /\ Settle(ErrState, NextSeq(cpSeq), 0, Tail(Received))
    /\ UNCHANGED <<pd, toPd, trouble, execs, repeatable>>

\* A cryptogram that does not verify (OSDP_CP_ERR_APP): the command fails, the
\* sequence goes on.
CpCryptogram ==
    /\ ReplyHere
    /\ LET r == Head(Received)
       IN InSequence(r) /\ r.kind = "ANSWER" /\ r.code = "CHLNG"
    /\ cmd.code = "CHLNG"
    /\ Settle(ErrState, NextSeq(cpSeq), retry, Tail(Received))
    /\ UNCHANGED <<pd, toPd, trouble, hist>>

\* NAK(SEQ_NUM) from the PD is a reply like any other, and a hard failure.
CpNak ==
    /\ ReplyHere
    /\ InSequence(Head(Received)) /\ Head(Received).kind = "NAK"
    /\ Settle(ErrState, NextSeq(cpSeq), 0, Tail(Received))
    /\ UNCHANGED <<pd, toPd, trouble, hist>>

\* A reply the decoder does not know, or a CCRYPT that is out of order: the
\* sequence does not go on, even where an unknown reply to a POLL is ignored.
Ignored(r) == r.kind = "UNKNOWN" /\ cmd.code = "POLL" /\ IgnoreUnsolicited

CpUndecodable ==
    /\ ReplyHere
    /\ LET r == Head(Received)
       IN /\ InSequence(r)
          /\ \/ r.kind = "UNKNOWN"
             \/ r.kind = "ANSWER" /\ r.code = "CHLNG" /\ cmd.code # "CHLNG"
          /\ IF Ignored(r)
             THEN Settle("ONLINE", cpSeq, 0, Tail(Received))
             ELSE Settle(ErrState, cpSeq, retry, Tail(Received))
    /\ UNCHANGED <<pd, toPd, trouble, hist>>

\* CP_REQ_LINK_RESET
CpSeqMismatch ==
    /\ ReplyHere
    /\ ~InSequence(Head(Received))
    /\ Settle("OFFLINE", cpSeq, 0, Tail(Received))
    /\ UNCHANGED <<pd, toPd, trouble, hist>>

\* The packet check of the reply fails.
CpNoise ==
    /\ ReplyHere
    /\ Trouble("noise")
    /\ Settle(ErrState, cpSeq, retry, Tail(Received))
    /\ UNCHANGED <<pd, toPd, hist>>

\* Nothing came in resp_timeout_ms.  It is a fault of the PD if the command is
\* still in its receive buffer.
MayRetry == retry < MaxRetries

CpTimeout ==
    /\ cpPhy = "REPLY_WAIT" /\ Received = <<>>
    /\ (toPd = <<>> /\ UNCHANGED trouble) \/ (toPd # <<>> /\ Trouble("late"))
    /\ \/ /\ MayRetry
          /\ cpPhy' = "WAIT" /\ retry' = retry + 1
          /\ UNCHANGED <<state, cpSeq, txSeq, useScbkd, cmd, rxRb, toCp>>
       \/ /\ ~MayRetry
          /\ Settle(ErrState, cpSeq, retry, <<>>)
    /\ UNCHANGED <<pd, toPd, hist>>

\* osdp_phy_state_reset(pd, true) when `n` is entered between two exchanges.
TransportAfterReset == IF Flush THEN <<>> ELSE toCp

ResetInto(n) ==
    /\ state' = n
    /\ cpSeq' = -1 /\ txSeq' = 0 /\ retry' = 0 /\ rxRb' = <<>>
    /\ toCp' = TransportAfterReset
    /\ UNCHANGED <<cpPhy, useScbkd, cmd, pd, toPd, trouble, hist>>

\* The OFFLINE dwell lasts OSDP_ONLINE_RETRY_WAIT_MAX_MS, five minutes: every
\* PD has answered by then what was sent to it.
CpReconnect ==
    /\ state = "OFFLINE" /\ toPd = <<>>
    /\ ResetInto("INIT")

\* Every OSDP_PD_SC_RETRY_MS, cp_sc_should_retry().
CpScRetry ==
    /\ state = "ONLINE" /\ cpPhy = "IDLE" /\ ScCapable
    /\ ResetInto("SC_CHLNG")

\* The CP starts again, which also takes long enough for the PD to answer;
\* its serial port starts out empty.
CpRestart ==
    /\ toPd = <<>>
    /\ Trouble("cp_restart")
    /\ state' = "INIT" /\ cpPhy' = "IDLE" /\ cpSeq' = -1 /\ txSeq' = 0
    /\ retry' = 0 /\ useScbkd' = FALSE /\ cmd' = NoCmd /\ rxRb' = <<>>
    /\ toCp' = <<>>
    /\ UNCHANGED <<pd, toPd, hist>>

-----------------------------------------------------------------------------
(* PD *)

\* The sequence number the PD checks a frame against the successor of.
Restarts(f) == f.seq = 0
Repeats(f) == ~Restarts(f) /\ f.seq = pdSeq
Base(f) ==
    IF Restarts(f) THEN -1
    ELSE IF Repeats(f) THEN Rollback(pdSeq)
    ELSE pdSeq
Expected(f) == f.seq = NextSeq(Base(f))

CacheHit(f) == Repeats(f) /\ cache # NoReply /\ cache.code = f.code

\* The reply is answered from the staging buffer; osdp_channel_send() is called
\* whatever it returns.
PdRepeat ==
    /\ toPd # <<>> /\ CacheHit(Head(toPd))
    /\ toPd' = Tail(toPd)
    /\ toCp' = Put(toCp, cache.reply)
    /\ UNCHANGED <<cp, pd, trouble, hist>>

\* Build and send a reply to the command `code` was decoded of.  If the send
\* fails, the sequence does not go on and last_tx_len stays as it is, but the
\* staging buffer holds the new reply.
PdAnswer(f, code, kind, dropsCache) ==
    LET reply == Reply(f, NextSeq(Base(f)), kind)
    IN /\ toPd' = Tail(toPd)
       /\ pdCmd' = code
       /\ \/ /\ toCp' = Put(toCp, reply)
             /\ cache' = [code |-> code, reply |-> reply]
             /\ pdSeq' = NextSeq(Base(f))
             /\ UNCHANGED trouble
          \/ /\ Trouble("send")
             /\ cache' = IF dropsCache \/ cache = NoReply
                         THEN NoReply ELSE [cache EXCEPT !.reply = reply]
             /\ pdSeq' = Base(f)
             /\ UNCHANGED toCp

\* A command that is in sequence is decoded, executed and answered; a PD that
\* is not built with this library may volunteer anything on a POLL.
PdExecute ==
    /\ toPd # <<>>
    /\ LET f == Head(toPd)
       IN /\ ~CacheHit(f) /\ Expected(f)
          /\ \E kind \in {"ANSWER"} \cup
                 (IF "vendor" \in Faults /\ f.code = "POLL"
                  THEN {"UNKNOWN"} ELSE {}) :
                PdAnswer(f, f.code, kind,
                         Restarts(f) \/ Repeats(f) \/ f.code = "CHLNG")
          /\ execs' = [execs EXCEPT ![f.id] = IF @ = 0 THEN 1 ELSE 2]
    /\ UNCHANGED <<cp, repeatable, answered>>

\* NAK(SEQ_NUM): nothing was decoded, so the reply is cached under the command
\* before.
PdRefuse ==
    /\ toPd # <<>>
    /\ LET f == Head(toPd)
       IN /\ ~CacheHit(f) /\ ~Expected(f)
          /\ PdAnswer(f, pdCmd, "NAK", Restarts(f) \/ Repeats(f))
    /\ UNCHANGED <<cp, hist>>

\* A frame that does not check out, or half a frame: pd_error_reset().
PdNoise ==
    /\ toPd # <<>>
    /\ Trouble("noise")
    /\ toPd' = Tail(toPd)
    /\ cache' = NoReply
    /\ UNCHANGED <<cp, pdSeq, pdCmd, toCp, hist>>

\* The PD starts again, and with it its serial port.
PdRestart ==
    /\ Trouble("pd_restart")
    /\ pdSeq' = -1 /\ pdCmd' = "NONE" /\ cache' = NoReply
    /\ toPd' = <<>>
    /\ repeatable' = IF cmd = NoCmd THEN repeatable
                     ELSE repeatable \cup {cmd.id}
    /\ UNCHANGED <<cp, toCp, execs, answered>>

-----------------------------------------------------------------------------
(* The line *)

LoseCommand ==
    /\ toPd # <<>>
    /\ Trouble("loss")
    /\ toPd' = Tail(toPd)
    /\ UNCHANGED <<cp, pd, toCp, hist>>

LoseReply ==
    /\ toCp # <<>>
    /\ Trouble("loss")
    /\ toCp' = Tail(toCp)
    /\ UNCHANGED <<cp, pd, toPd, hist>>

-----------------------------------------------------------------------------
(* Specification *)

CpReceive ==
    CpAnswer \/ CpCryptogram \/ CpNak \/ CpUndecodable \/ CpSeqMismatch
CpRefresh ==
    \/ \E code \in Codes : CpSend(code)
    \/ CpReceive \/ CpTimeout \/ CpRetry \/ CpReconnect
PdRefresh == PdRepeat \/ PdExecute \/ PdRefuse
Disturbance ==
    CpNoise \/ PdNoise \/ CpRestart \/ PdRestart \/ LoseCommand \/ LoseReply

Next == CpRefresh \/ PdRefresh \/ CpScRetry \/ Disturbance

Spec == Init /\ [][Next]_vars

\* Both ends are refreshed for ever (osdp.h asks for every 50 ms).
Fairness == WF_vars(CpRefresh) /\ WF_vars(PdRefresh)
FairSpec == Spec /\ Fairness

-----------------------------------------------------------------------------
(* Properties *)

FrameOf(codes) == [id : Ids, code : codes, seq : 0..3]
ReplyOf == [id : Ids, code : Codes, seq : 0..3, kind : Kinds]

\* Types.  A sequence number on the wire is in 0..3 and the retry budget is
\* kept, whatever mixture of losses and late replies uses it up.
TypeOK ==
    /\ state \in States
    /\ cpPhy \in {"IDLE", "REPLY_WAIT", "WAIT"}
    /\ cpSeq \in -1..3 /\ txSeq \in 0..3 /\ retry \in 0..MaxRetries
    /\ useScbkd \in BOOLEAN
    /\ cmd = NoCmd \/ cmd \in [id : Ids, code : Codes]
    /\ rxRb \in Seq(ReplyOf)
    /\ pdSeq \in -1..3 /\ pdCmd \in Codes \cup {"NONE"}
    /\ cache = NoReply \/ cache \in [code : Codes \cup {"NONE"}, reply : ReplyOf]
    /\ toPd \in Seq(FrameOf(Codes)) /\ toCp \in Seq(ReplyOf)
    /\ trouble \in 0..MaxTrouble
    /\ execs \in [Ids -> 0..2] /\ repeatable \in SUBSET Ids
    /\ answered \in Ids \cup {NoId}

\* What phy_check_packet() promises with its cache (osdp_phy.c:648-655): a
\* repeated command does not "re-consume state", so that no command is
\* executed twice unless it restarted the sequence.
AtMostOnce == \A c \in Ids : execs[c] > 1 => c \in repeatable

\* The link implements the remote procedure call of module Rpc: at most once,
\* and no reply is taken for the answer to another command.
Promise == INSTANCE Rpc WITH current <- cmd.id
KeepsPromise == Promise!Spec

\* Even when a send fails or a frame is garbled, the CP only takes a reply for
\* the answer to the command it waits for, and only after the PD executed it.
\* A command ONLINE that is sent with number 0 has no such protection: it
\* follows a handshake no attempt of which got a reply through, and the number
\* does not tell its answer from a late one to another such command.
AnswersAreOwn ==
    [][\/ answered' \in {answered, NoId}
       \/ answered' = cmd.id /\ execs[cmd.id] > 0
       \/ state = "ONLINE" /\ txSeq = 0]_vars

\* Once the trouble is over, "reconnect from scratch via the OFFLINE dwell"
\* (osdp_cp.c:2258) does bring the PD back.
Recovers == []<>(state = "ONLINE")
=============================================================================
