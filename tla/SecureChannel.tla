---------------------------- MODULE SecureChannel ----------------------------
(***************************************************************************)
(* The secure channel between a CP and a PD: the handshake, the session    *)
(* keys and the MAC chain at both ends (src/src/osdp_sc.c, the security    *)
(* part of src/src/osdp_phy.c), the way each end starts and drops a        *)
(* session, and the change of the key by a KEYSET, over a line that loses  *)
(* and garbles frames.                                                     *)
(*                                                                         *)
(* Cryptography is symbolic: a session is the key and the two random       *)
(* numbers it was made from, a cryptogram names its session, and a MAC     *)
(* names its session, its place in the chain and the message it closes.    *)
(* Commands other than those of the handshake, POLL and KEYSET travel like *)
(* POLL.  A reply is either lost or there before the CP stops waiting      *)
(* (replies that come late are the subject of module Link).                *)
(***************************************************************************)
EXTENDS Integers, Sequences, SequencesExt

CONSTANTS
    Keys,        \* SCBK values
    NoKey,       \* the zeroes a PD has that was never keyed
    ScbkD,       \* osdp_scbk_default
    Rekey,       \* the CP's application may submit a KEYSET
    MaxRetries,  \* OSDP_CMD_MAX_RETRIES
    Faults,      \* what may go wrong, out of the set below
    Nonces,      \* bound: random numbers alive at the same time
    Wrap,        \* bound: the place in the MAC chain is counted modulo Wrap
    MaxTrouble   \* bound: how often something may go wrong

ASSUME SecureChannelAssumption ==
    /\ NoKey \notin Keys /\ ScbkD \notin Keys /\ NoKey # ScbkD
    /\ Rekey \in BOOLEAN
    /\ {MaxRetries, Nonces, MaxTrouble} \subseteq Nat
    /\ Wrap \in Nat \ {0}
    /\ Faults \subseteq {"loss", "noise", "send", "silence", "cp_restart",
                         "pd_restart"}

VARIABLES
    enforce,      \* CP: PD_FLAG_ENFORCE_SECURE
    state,        \* CP: pd->state
    phy,          \* CP: pd->phy_state
    cpSeq, txSeq, \* CP: pd->seq_number, pd->phy_tx_seq
    retry,        \* CP: pd->phy_retry_count
    cmd,          \* CP: the command being exchanged, the key a KEYSET carries
    cpActive,     \* CP: PD_FLAG_SC_ACTIVE
    dflt,         \* CP: PD_FLAG_SC_USE_SCBKD
    established,  \* CP: PD_FLAG_SC_ESTABLISHED
    cpKey,        \* CP: pd->sc.scbk
    cps,          \* CP: the rest of pd->sc
    pdSeq, pdCmd, \* PD: pd->seq_number, pd->cmd_id
    cache,        \* PD: the staging buffer with last_cmd_id, if last_tx_len > 0
    pdActive,     \* PD: PD_FLAG_SC_ACTIVE
    pdDflt,       \* PD: PD_FLAG_SC_USE_SCBKD
    install,      \* PD: PD_FLAG_INSTALL_MODE
    pdKey,        \* PD: pd->sc.scbk
    pds,          \* PD: the rest of pd->sc
    stored,       \* PD: the key its application has stored
    toPd, toCp,   \* the line, a frame in each direction at most
    trouble,      \* how often something went wrong
    hurt          \* history: something other than a loss befell this session

cpLink  == <<state, phy, cpSeq, txSeq, retry, cmd>>
cpSc    == <<enforce, cpActive, dflt, established, cpKey, cps>>
pdLink  == <<pdSeq, pdCmd, cache>>
pdSc    == <<pdActive, pdDflt, install, pdKey, pds, stored>>
line    == <<toPd, toCp, trouble, hurt>>
vars    == <<cpLink, cpSc, pdLink, pdSc, line>>

-----------------------------------------------------------------------------
(* Variants: how a plausible bug would change a definition below.  No part of
   the specification uses them; each shows that some property has teeth.      *)

\* AfterBadMac: the session survives.
AfterBadMacKept == TRUE

\* CacheHit: the repeat is executed again.
CacheUnused(f) == FALSE

\* StoredKey: what was agreed to is not committed.
StoredKeyForgotten(k) == pdKey

\* ActiveAfterHeader: sequence number 0 leaves the session alone.
ActiveWhateverSeq(f) == pdActive

\* DefaultKeyAfter: the default key is not limited to install mode.
DefaultKeyOnRequest(f) == pdDflt \/ f.useD

-----------------------------------------------------------------------------
(* Vocabulary *)

States == {"INIT", "CAPDET", "SC_CHLNG", "SC_SCRYPT", "SET_SCBK", "ONLINE",
           "OFFLINE"}
NoCmd == [code |-> "NONE", key |-> NoKey]

\* A session by what it was made from, and a MAC in it.
NoId == [key |-> NoKey, cpRnd |-> 0, pdRnd |-> 0]
NoMac == [id |-> NoId, n |-> 0, of |-> "NONE"]
NoSession == [id |-> NoId, c |-> NoMac, r |-> NoMac]

\* osdp_compute_rmac_i() starts the chain, osdp_compute_mac() continues it: the
\* MAC of a command is computed from the one of the last reply and vice versa.
RMacI(s) == [id |-> s.id, n |-> 0, of |-> "NONE"]
Mac(s, iv, code) == [id |-> s.id, n |-> (iv.n + 1) % Wrap, of |-> code]

\* sec: no security block, one of the handshake (SCS_11..SCS_14), or a MAC
\* (SCS_15..SCS_18).  useD is the data byte of a CP's handshake block.
Frame(code, seq, sec, useD, arg, mac) ==
    [code |-> code, seq |-> seq, sec |-> sec, useD |-> useD, arg |-> arg,
     mac |-> mac]
NoFrame == [none |-> TRUE]
NoCache == [code |-> "NONE", reply |-> NoFrame]

\* osdp_fill_random(): a number that nothing remembers.
InUse ==
    LET frames == ToSet(toPd) \cup ToSet(toCp)
                  \cup (IF cache = NoCache THEN {} ELSE {cache.reply})
        ids == {cps.id, pds.id} \cup {f.arg : f \in frames}
               \cup {f.mac.id : f \in frames}
    IN {i.cpRnd : i \in ids} \cup {i.pdRnd : i \in ids}
Random == CHOOSE x \in 1..Nonces : x \notin InUse

\* phy_get_next_seq_number(), phy_rollback_seq_number()
NextSeq(s) == IF s >= 3 THEN 1 ELSE s + 1
Rollback(s) == IF s - 1 < 1 THEN 3 ELSE s - 1

Trouble(kind) ==
    /\ kind \in Faults
    /\ trouble < MaxTrouble
    /\ trouble' = trouble + 1

-----------------------------------------------------------------------------
(* Initial state: both ends after their setup calls.  A PD without a key is in
   install mode, or it would not offer a secure channel.                      *)

Init ==
    /\ enforce \in BOOLEAN
    /\ state = "INIT" /\ phy = "IDLE" /\ cpSeq = -1 /\ txSeq = 0 /\ retry = 0
    /\ cmd = NoCmd
    /\ cpActive = FALSE /\ dflt = FALSE /\ established = FALSE
    /\ cpKey \in Keys /\ cps = NoSession
    /\ pdSeq = -1 /\ pdCmd = "NONE" /\ cache = NoCache
    /\ pdActive = FALSE /\ pdDflt = FALSE /\ install \in BOOLEAN
    /\ pdKey \in {cpKey} \cup (IF install THEN {NoKey} ELSE {})
    /\ pds = NoSession /\ stored = pdKey
    /\ toPd = <<>> /\ toCp = <<>> /\ trouble = 0 /\ hurt = FALSE

-----------------------------------------------------------------------------
(* CP: sending and repeating a command *)

\* What is sent in each state; KEYSET carries the CP's own key in SET_SCBK and a
\* new one ONLINE, where it needs a session.
Commands ==
    CASE state = "INIT"      -> {[NoCmd EXCEPT !.code = "ID"]}
      [] state = "CAPDET"    -> {[NoCmd EXCEPT !.code = "CAP"]}
      [] state = "SC_CHLNG"  -> {[NoCmd EXCEPT !.code = "CHLNG"]}
      [] state = "SC_SCRYPT" -> {[NoCmd EXCEPT !.code = "SCRYPT"]}
      [] state = "SET_SCBK"  -> {[code |-> "KEYSET", key |-> cpKey]}
      [] state = "ONLINE"    ->
            {[NoCmd EXCEPT !.code = "POLL"]} \cup
            (IF Rekey /\ cpActive
             THEN [code : {"KEYSET"}, key : Keys \ {cpKey}] ELSE {})
      [] OTHER               -> {}

\* cp_build_command(): the data of the handshake and of a KEYSET.
Argument(c) ==
    CASE c.code = "CHLNG"  -> [NoId EXCEPT !.cpRnd = cps.id.cpRnd]
      [] c.code = "SCRYPT" -> cps.id
      [] c.code = "KEYSET" -> [NoId EXCEPT !.key = c.key]
      [] OTHER             -> NoId

\* osdp_phy_packet_init() and osdp_phy_finalize_packet(): within a session the
\* MAC starts from the one of the last reply, so that a repeat that is built
\* anew is the same frame.
Transmit(c, seq) ==
    LET mac       == Mac(cps, cps.r, c.code)
        handshake == c.code \in {"CHLNG", "SCRYPT"}
    IN IF cpActive
       THEN /\ toPd' = <<Frame(c.code, seq, "mac", FALSE, Argument(c), mac)>>
            /\ cps' = [cps EXCEPT !.c = mac]
       ELSE /\ toPd' = <<Frame(c.code, seq,
                               IF handshake THEN "handshake" ELSE "plain",
                               handshake /\ dflt, Argument(c), NoMac)>>
            /\ UNCHANGED cps

CpSend ==
    /\ phy = "IDLE"
    /\ \E c \in Commands :
          /\ cmd' = c
          /\ txSeq' = NextSeq(cpSeq)
          /\ Transmit(c, NextSeq(cpSeq))
    /\ phy' = "REPLY_WAIT"
    /\ UNCHANGED <<state, cpSeq, retry, enforce, cpActive, dflt, established,
                   cpKey, pdLink, pdSc, toCp, trouble, hurt>>

\* RETRY_CMD: the sequence number is rewound, the packet built again.
CpRetry ==
    /\ phy = "WAIT"
    /\ cpSeq' = txSeq - 1
    /\ txSeq' = NextSeq(txSeq - 1)
    /\ Transmit(cmd, NextSeq(txSeq - 1))
    /\ phy' = "REPLY_WAIT"
    /\ UNCHANGED <<state, retry, cmd, enforce, cpActive, dflt, established,
                   cpKey, pdLink, pdSc, toCp, trouble, hurt>>

-----------------------------------------------------------------------------
(* CP: the end of an exchange *)

\* osdp_sc_setup() forgets the old session and draws the CP's number.
NewSession == [NoSession EXCEPT !.id.cpRnd = Random]

\* cp_state_change(): state n is entered with the sequence at `seq`, `spent` of
\* the retry budget gone and the session s.
Enter(n, seq, spent, s, active) ==
    /\ state' = n
    /\ phy' = "IDLE" /\ cmd' = NoCmd /\ toCp' = <<>>
    /\ cpActive' = (active /\ n # "OFFLINE")
    /\ IF n = "SC_CHLNG" /\ state # n
       THEN /\ cpSeq' = -1 /\ txSeq' = 0 /\ retry' = 0
            /\ cps' = NewSession
            /\ hurt' = FALSE
       ELSE /\ cpSeq' = seq /\ retry' = spent
            /\ cps' = s
            /\ UNCHANGED <<txSeq, hurt>>

\* get_next_ok_state() and cp_transition_effects(); a KEYSET that was answered
\* ends the session and starts a new one (cp_keyset_complete()).
OkState ==
    CASE state = "INIT"      -> "CAPDET"
      [] state = "CAPDET"    -> "SC_CHLNG"
      [] state = "SC_CHLNG"  -> "SC_SCRYPT"
      [] state = "SC_SCRYPT" -> IF dflt THEN "SET_SCBK" ELSE "ONLINE"
      [] OTHER               -> IF cmd.code = "KEYSET" THEN "SC_CHLNG"
                                                       ELSE "ONLINE"

Succeeds(seq, s) ==
    /\ Enter(OkState, seq, 0, s,
             state = "SC_SCRYPT" \/ (cpActive /\ cmd.code # "KEYSET"))
    /\ dflt' = (dflt /\ state # "CAPDET" /\ cmd.code # "KEYSET")
    /\ established' = (established \/ (state = "SC_SCRYPT" /\ ~dflt))
    /\ cpKey' = IF cmd.code = "KEYSET" /\ ~dflt THEN cmd.key ELSE cpKey

\* get_next_err_state() and cp_transition_effects(); SET_SCBK is only reached
\* with the default key.
ErrState ==
    CASE state = "SC_CHLNG"  -> IF enforce THEN "OFFLINE"
                                ELSE IF ~dflt /\ ~established THEN "SC_CHLNG"
                                ELSE "ONLINE"
      [] state = "SC_SCRYPT" -> IF enforce THEN "OFFLINE" ELSE "ONLINE"
      [] OTHER               -> "OFFLINE"

Fails(seq, spent, s, active) ==
    /\ Enter(ErrState, seq, spent, s, active)
    /\ dflt' = IF state = "SC_CHLNG"
               THEN ErrState = "SC_CHLNG" \/ (ErrState = "OFFLINE" /\ dflt)
               ELSE dflt
    /\ UNCHANGED <<established, cpKey>>

Heard == phy = "REPLY_WAIT" /\ toCp # <<>>
InSequence(r) == r.seq = NextSeq(cpSeq)

\* osdp_phy_decode_packet() of the CP: a MAC without a session, or plain text in
\* one, is refused; the session, if any, stays.  (The plain ACK of a KEYSET that
\* it tolerates is not something this library's PD sends.)
Refused(r) == (r.sec = "mac") # cpActive

CpRefuses ==
    /\ Heard /\ InSequence(Head(toCp)) /\ Refused(Head(toCp))
    /\ Fails(cpSeq, retry, cps, cpActive)
    /\ UNCHANGED <<enforce, pdLink, pdSc, toPd, trouble>>

\* The session a reply leaves behind: osdp_compute_mac() overwrites r_mac before
\* the comparison; CCRYPT gives the session its keys, RMAC_I its chain.
KeyInUse == IF dflt THEN ScbkD ELSE cpKey
Hearing(r) ==
    CASE r.sec = "mac" ->
            [cps EXCEPT !.r = Mac(cps, cps.c, r.code)]
      [] r.sec # "mac" /\ r.code = "CCRYPT" ->
            [cps EXCEPT !.id.key = KeyInUse, !.id.pdRnd = r.arg.pdRnd]
      [] r.sec # "mac" /\ r.code = "RMAC_I" ->
            [cps EXCEPT !.r = [NoMac EXCEPT !.id = r.arg]]
      [] OTHER -> cps

MacFits(r) == r.sec = "mac" => r.mac = Hearing(r).r

\* "Invalid MAC; discarding SC"; otherwise cp_decode_response() and
\* state_check_reply().  A cryptogram that does not verify fails the exchange
\* without ending it in DONE, so the retries stay spent.
Expected ==
    [INIT |-> "PDID", CAPDET |-> "PDCAP", SC_CHLNG |-> "CCRYPT",
     SC_SCRYPT |-> "RMAC_I", SET_SCBK |-> "ACK", ONLINE |-> "ACK"]

CpHears ==
    /\ Heard
    /\ LET r == Head(toCp)
           s == Hearing(r)
       IN /\ InSequence(r) /\ ~Refused(r)
          /\ IF ~MacFits(r)
             THEN Fails(cpSeq, retry, s, FALSE)
             ELSE IF r.code = "CCRYPT" /\ r.arg # s.id
             THEN Fails(NextSeq(cpSeq), retry, s, cpActive)
             ELSE IF r.code = Expected[state]
             THEN Succeeds(NextSeq(cpSeq), s)
             ELSE Fails(NextSeq(cpSeq), 0, s, cpActive)
    /\ UNCHANGED <<enforce, pdLink, pdSc, toPd, trouble>>

\* CP_REQ_LINK_RESET
CpSeqMismatch ==
    /\ Heard /\ ~InSequence(Head(toCp))
    /\ Enter("OFFLINE", cpSeq, 0, cps, cpActive)
    /\ UNCHANGED <<enforce, dflt, established, cpKey, pdLink, pdSc, toPd,
                   trouble>>

\* Nothing came in resp_timeout_ms.
CpTimeout ==
    /\ phy = "REPLY_WAIT" /\ toPd = <<>> /\ toCp = <<>>
    /\ IF retry < MaxRetries
       THEN /\ phy' = "WAIT" /\ retry' = retry + 1
            /\ UNCHANGED <<state, cpSeq, txSeq, cmd, cpSc, toCp, hurt>>
       ELSE /\ Fails(cpSeq, retry, cps, cpActive)
            /\ UNCHANGED enforce
    /\ UNCHANGED <<pdLink, pdSc, toPd, trouble>>

\* The packet check of a reply fails.
CpNoise ==
    /\ Heard
    /\ Trouble("noise")
    /\ Fails(cpSeq, retry, cps, cpActive)
    /\ UNCHANGED <<enforce, pdLink, pdSc, toPd>>

\* cp_sc_should_retry(): OSDP_PD_SC_RETRY_MS after the last attempt.
CpScRetry ==
    /\ state = "ONLINE" /\ phy = "IDLE" /\ ~cpActive
    /\ Enter("SC_CHLNG", cpSeq, 0, cps, FALSE)
    /\ UNCHANGED <<enforce, dflt, established, cpKey, pdLink, pdSc, toPd,
                   trouble>>

\* The OFFLINE dwell is over: osdp_phy_state_reset(pd, true).
CpReconnect ==
    /\ state = "OFFLINE"
    /\ state' = "INIT" /\ cpSeq' = -1 /\ txSeq' = 0 /\ retry' = 0
    /\ UNCHANGED <<phy, cmd, cpSc, pdLink, pdSc, line>>

\* The CP starts again, with the key its application was last told of.
CpRestart ==
    /\ toPd = <<>>
    /\ Trouble("cp_restart")
    /\ state' = "INIT" /\ phy' = "IDLE" /\ cpSeq' = -1 /\ txSeq' = 0
    /\ retry' = 0 /\ cmd' = NoCmd
    /\ cpActive' = FALSE /\ dflt' = FALSE /\ established' = FALSE
    /\ cps' = NoSession
    /\ toCp' = <<>>
    /\ UNCHANGED <<enforce, cpKey, pdLink, pdSc, toPd, hurt>>

-----------------------------------------------------------------------------
(* PD: phy_check_packet() *)

Restarts(f) == f.seq = 0
Repeats(f) == ~Restarts(f) /\ f.seq = pdSeq
Base(f) ==
    IF Restarts(f) THEN -1
    ELSE IF Repeats(f) THEN Rollback(pdSeq)
    ELSE pdSeq
CacheHit(f) == Repeats(f) /\ cache # NoCache /\ cache.code = f.code
Fresh(f) == ~CacheHit(f) /\ f.seq = NextSeq(Base(f))

\* Sequence number 0 ends the session; whatever is not answered from the cache
\* but numbered like a repeat or a restart empties it.
ActiveAfterHeader(f) == pdActive /\ ~Restarts(f)
CacheAfterHeader(f) == IF Restarts(f) \/ Repeats(f) THEN NoCache ELSE cache

PdRepeat ==
    /\ toPd # <<>> /\ CacheHit(Head(toPd))
    /\ toPd' = <<>>
    /\ toCp' = <<cache.reply>>
    /\ UNCHANGED <<cpLink, cpSc, pdLink, pdSc, trouble, hurt>>

-----------------------------------------------------------------------------
(* PD: replies *)

\* pd_build_reply_packet(): within session s, if it is active, the reply carries
\* a MAC that starts from the one of the command.
Building(s, active, handshake, code) ==
    IF active /\ ~handshake THEN [s EXCEPT !.r = Mac(s, s.c, code)] ELSE s
ReplyTo(f, s, active, handshake, code, arg) ==
    Frame(code, NextSeq(Base(f)),
          IF handshake THEN "handshake" ELSE IF active THEN "mac" ELSE "plain",
          FALSE, arg,
          IF active /\ ~handshake THEN Mac(s, s.c, code) ELSE NoMac)

\* The reply is out: it is cached under the command decoded last.
Sent(f, code, reply) ==
    /\ toPd' = <<>> /\ toCp' = <<reply>>
    /\ pdSeq' = NextSeq(Base(f)) /\ pdCmd' = code
    /\ cache' = [code |-> code, reply |-> reply]
    /\ UNCHANGED <<trouble, hurt>>

\* osdp_channel_send() fails: the sequence does not go on, and what is left in
\* the cache is a reply that was never sent.
Unsent(f, code, reply, cached) ==
    /\ Trouble("send")
    /\ hurt' = TRUE
    /\ toPd' = <<>> /\ UNCHANGED toCp
    /\ pdSeq' = Base(f) /\ pdCmd' = code
    /\ cache' = IF cached = NoCache THEN NoCache
                ELSE [cached EXCEPT !.reply = reply]

\* A reply in the session s that is, or is not, active when it is built.
Replies(f, code, s, active, cached, reply) ==
    /\ pds' = Building(s, active, FALSE, reply)
    /\ pdActive' = active
    /\ LET r == ReplyTo(f, s, active, FALSE, reply, NoId)
       IN Sent(f, code, r) \/ Unsent(f, code, r, cached)

\* NAK(SEQ_NUM)
PdRefusesSequence ==
    /\ toPd # <<>>
    /\ LET f == Head(toPd)
       IN /\ ~CacheHit(f) /\ f.seq # NextSeq(Base(f))
          /\ Replies(f, pdCmd, pds, ActiveAfterHeader(f), CacheAfterHeader(f),
                     "NAK")
    /\ UNCHANGED <<cpLink, cpSc, pdDflt, install, pdKey, stored>>

-----------------------------------------------------------------------------
(* PD: osdp_phy_decode_packet() *)

\* A MAC without a session, or plain text in one: NAK(SC_COND); a handshake
\* block passes either way.
Unsuitable(f) ==
    \/ f.sec = "mac" /\ ~ActiveAfterHeader(f)
    \/ f.sec = "plain" /\ ActiveAfterHeader(f)

PdRefusesSecurity ==
    /\ toPd # <<>>
    /\ LET f == Head(toPd)
       IN /\ Fresh(f) /\ Unsuitable(f)
          /\ Replies(f, pdCmd, pds, ActiveAfterHeader(f), CacheAfterHeader(f),
                     "NAK")
    /\ UNCHANGED <<cpLink, cpSc, pdDflt, install, pdKey, stored>>

\* c_mac is overwritten before the comparison.
Checked(f) ==
    IF f.sec = "mac" THEN [pds EXCEPT !.c = Mac(pds, pds.r, f.code)] ELSE pds
Genuine(f) ==
    Fresh(f) /\ ~Unsuitable(f) /\ (f.sec = "mac" => f.mac = Checked(f).c)

\* "Invalid MAC; discarding SC", and with it the cache.
AfterBadMac == FALSE

PdBadMac ==
    /\ toPd # <<>>
    /\ LET f == Head(toPd)
       IN /\ Fresh(f) /\ ~Unsuitable(f) /\ ~Genuine(f)
          /\ Replies(f, pdCmd, Checked(f), AfterBadMac, NoCache, "NAK")
    /\ UNCHANGED <<cpLink, cpSc, pdDflt, install, pdKey, stored>>

\* The default key is limited to install mode.
DefaultKeyAfter(f) == pdDflt \/ (install /\ f.useD)

-----------------------------------------------------------------------------
(* PD: pd_decode_command() and pd_build_reply() *)

Answer == [ID |-> "PDID", CAP |-> "PDCAP", POLL |-> "ACK"]

PdAnswers ==
    /\ toPd # <<>>
    /\ LET f == Head(toPd)
       IN /\ Genuine(f) /\ f.code \in DOMAIN Answer
          /\ Replies(f, f.code, Checked(f), ActiveAfterHeader(f),
                     CacheAfterHeader(f), Answer[f.code])
    /\ UNCHANGED <<cpLink, cpSc, pdDflt, install, pdKey, stored>>

\* The application agrees to the key and stores it.  Once the acknowledgement is
\* out the key is committed, the session is over and the cache with it.
StoredKey(k) == k

PdKeyset ==
    /\ toPd # <<>>
    /\ LET f == Head(toPd)
           s == Checked(f)
           r == ReplyTo(f, s, TRUE, FALSE, "ACK", NoId)
       IN /\ Genuine(f) /\ f.code = "KEYSET"
          /\ stored' = f.arg.key
          /\ pds' = Building(s, TRUE, FALSE, "ACK")
          /\ \/ /\ toPd' = <<>> /\ toCp' = <<r>>
                /\ pdSeq' = NextSeq(Base(f)) /\ pdCmd' = "KEYSET"
                /\ cache' = NoCache
                /\ pdKey' = StoredKey(f.arg.key)
                /\ pdDflt' = FALSE /\ install' = FALSE /\ pdActive' = FALSE
                /\ UNCHANGED <<trouble, hurt>>
             \/ /\ Unsent(f, "KEYSET", r, CacheAfterHeader(f))
                /\ UNCHANGED <<pdKey, pdDflt, install, pdActive>>
    /\ UNCHANGED <<cpLink, cpSc>>

\* CHLNG ends the session and starts the next one; the keys are computed when
\* CCRYPT is built.
SessionKey(f) == IF DefaultKeyAfter(f) THEN ScbkD ELSE pdKey

PdChallenge ==
    /\ toPd # <<>>
    /\ LET f  == Head(toPd)
           id == [key |-> SessionKey(f), cpRnd |-> f.arg.cpRnd,
                  pdRnd |-> Random]
           r  == ReplyTo(f, NoSession, FALSE, TRUE, "CCRYPT", id)
       IN /\ Genuine(f) /\ f.code = "CHLNG"
          /\ pds' = [NoSession EXCEPT !.id = id]
          /\ pdActive' = FALSE
          /\ pdDflt' = DefaultKeyAfter(f)
          /\ Sent(f, "CHLNG", r) \/ Unsent(f, "CHLNG", r, NoCache)
    /\ UNCHANGED <<cpLink, cpSc, install, pdKey, stored>>

\* SCRYPT: the session is active as soon as RMAC_I is built.
PdScrypt ==
    /\ toPd # <<>>
    /\ LET f   == Head(toPd)
           ok  == ~ActiveAfterHeader(f) /\ f.arg = pds.id
           s   == [pds EXCEPT !.r = RMacI(pds)]
           r   == ReplyTo(f, s, FALSE, TRUE, "RMAC_I", pds.id)
       IN /\ Genuine(f) /\ f.code = "SCRYPT"
          /\ pdDflt' = DefaultKeyAfter(f)
          /\ IF ok
             THEN /\ pds' = s /\ pdActive' = TRUE
                  /\ \/ Sent(f, "SCRYPT", r)
                     \/ Unsent(f, "SCRYPT", r, CacheAfterHeader(f))
             ELSE Replies(f, "SCRYPT", pds, ActiveAfterHeader(f),
                          CacheAfterHeader(f), "NAK")
    /\ UNCHANGED <<cpLink, cpSc, install, pdKey, stored>>

\* A frame that does not check out: pd_error_reset().
PdNoise ==
    /\ toPd # <<>>
    /\ Trouble("noise")
    /\ hurt' = TRUE
    /\ toPd' = <<>> /\ cache' = NoCache /\ pdActive' = FALSE
    /\ UNCHANGED <<cpLink, cpSc, pdSeq, pdCmd, pdDflt, install, pdKey, pds,
                   stored, toCp>>

\* OSDP_PD_SC_TIMEOUT_MS without a command, as during the CP's OFFLINE dwell.
PdSilence ==
    /\ pdActive /\ toPd = <<>>
    /\ IF state = "OFFLINE" THEN UNCHANGED trouble ELSE Trouble("silence")
    /\ hurt' = TRUE
    /\ pdActive' = FALSE /\ cache' = NoCache
    /\ UNCHANGED <<cpLink, cpSc, pdSeq, pdCmd, pdDflt, install, pdKey, pds,
                   stored, toPd, toCp>>

\* The PD starts again with the key its application has stored; once it has one
\* the application does not ask for install mode any more.
PdRestart ==
    /\ Trouble("pd_restart")
    /\ hurt' = TRUE
    /\ pdSeq' = -1 /\ pdCmd' = "NONE" /\ cache' = NoCache
    /\ pdActive' = FALSE /\ pdDflt' = FALSE
    /\ pdKey' = stored
    /\ install' = (install /\ stored = NoKey)
    /\ pds' = NoSession
    /\ toPd' = <<>>
    /\ UNCHANGED <<cpLink, cpSc, stored, toCp>>

-----------------------------------------------------------------------------
(* Specification *)

LoseCommand ==
    /\ toPd # <<>>
    /\ Trouble("loss")
    /\ toPd' = <<>>
    /\ UNCHANGED <<cpLink, cpSc, pdLink, pdSc, toCp, hurt>>

LoseReply ==
    /\ toCp # <<>>
    /\ Trouble("loss")
    /\ toCp' = <<>>
    /\ UNCHANGED <<cpLink, cpSc, pdLink, pdSc, toPd, hurt>>

CpRefresh ==
    \/ CpSend \/ CpRetry \/ CpTimeout \/ CpReconnect
    \/ CpHears \/ CpRefuses \/ CpSeqMismatch
PdRefresh ==
    \/ PdRepeat \/ PdRefusesSequence \/ PdRefusesSecurity \/ PdBadMac
    \/ PdAnswers \/ PdKeyset \/ PdChallenge \/ PdScrypt
Disturbance ==
    \/ CpNoise \/ CpRestart \/ PdNoise \/ PdSilence \/ PdRestart
    \/ LoseCommand \/ LoseReply

Next == CpRefresh \/ PdRefresh \/ CpScRetry \/ Disturbance

Spec == Init /\ [][Next]_vars

\* Both ends are refreshed for ever, and time passes: an attempt at a session
\* that falls due is made at the first occasion.
Fairness == WF_vars(CpRefresh) /\ WF_vars(PdRefresh) /\ SF_vars(CpScRetry)
FairSpec == Spec /\ Fairness

-----------------------------------------------------------------------------
(* Properties *)

Commanded == {"NONE", "ID", "CAP", "CHLNG", "SCRYPT", "KEYSET", "POLL"}
Replied == {"PDID", "PDCAP", "ACK", "NAK", "CCRYPT", "RMAC_I"}
Ids == [key : Keys \cup {NoKey, ScbkD}, cpRnd : 0..Nonces, pdRnd : 0..Nonces]
Macs == [id : Ids, n : 0..(Wrap - 1), of : {"NONE"} \cup Commanded \cup Replied]
Sessions == [id : Ids, c : Macs, r : Macs]
Frames(codes) ==
    [code : codes, seq : 0..3, sec : {"plain", "handshake", "mac"},
     useD : BOOLEAN, arg : Ids, mac : Macs]

\* Both ends' struct osdp_pd and struct osdp_secure_channel, the staging buffer
\* and the line keep their types.
TypeOK ==
    /\ enforce \in BOOLEAN /\ cpActive \in BOOLEAN /\ dflt \in BOOLEAN
    /\ established \in BOOLEAN
    /\ state \in States /\ phy \in {"IDLE", "WAIT", "REPLY_WAIT"}
    /\ cpSeq \in -1..3 /\ txSeq \in 0..3 /\ retry \in 0..MaxRetries
    /\ cmd \in [code : Commanded, key : Keys \cup {NoKey}]
    /\ cpKey \in Keys /\ cps \in Sessions
    /\ pdSeq \in -1..3 /\ pdCmd \in Commanded
    /\ cache \in {NoCache} \cup [code : Commanded, reply : Frames(Replied)]
    /\ pdActive \in BOOLEAN /\ pdDflt \in BOOLEAN /\ install \in BOOLEAN
    /\ pdKey \in Keys \cup {NoKey} /\ stored \in Keys \cup {NoKey}
    /\ pds \in Sessions
    /\ toPd \in Seq(Frames(Commanded)) /\ Len(toPd) <= 1
    /\ toCp \in Seq(Frames(Replied)) /\ Len(toCp) <= 1
    /\ trouble \in 0..MaxTrouble /\ hurt \in BOOLEAN

SameSession == cpActive /\ pdActive /\ pds.id = cps.id

\* Two ends of one session are never more than one exchange apart, whatever is
\* lost, garbled or executed again: the PD is where the CP is or, while the
\* CP waits for the reply, one command and one reply ahead (osdp_phy.c:648).
InStep ==
    SameSession =>
        \/ pds.r = cps.r
        \/ phy # "IDLE" /\ pds.r.n = (cps.r.n + 2) % Wrap

\* Losing frames does not cost the session while a retry gets through: every
\* repeat is either executed for the first time or answered from the cache, so
\* the MAC chain goes on (cp_phy_state_update(), "Rebuilding under SC yields the
\* same bytes"; osdp_phy.c:648-656).
LossKeepsSession ==
    [][state = "ONLINE" /\ cpActive /\ ~cpActive' =>
          \/ cmd.code = "KEYSET"
          \/ retry = MaxRetries /\ toCp = <<>>
          \/ hurt \/ trouble' # trouble]_vars

\* The CP commits a new key only once the PD has it: committing on anything but
\* the PD's word locks the CP out (cp_keyset_complete()).
CommitMeansStored == [][cpKey' # cpKey => pdKey = cpKey']_vars

\* A PD that is not in install mode any more opens no session on the published
\* default key, whatever it was asked for before (osdp.h:40-44).
DefaultKeyOver ==
    [][pdActive' /\ ~pdActive /\ ~install => pds.id.key # ScbkD]_vars

\* As long as the two ends can agree on a key they come back to a session, at
\* both ends, on the PD's own key: after lost frames, restarts, sessions that
\* only one end still believes in, and a handshake that broke off anywhere.
KeysMatch ==
    cpKey = pdKey \/ (install /\ ~established /\ ~enforce)
Secured == state = "ONLINE" /\ SameSession /\ cps.id.key = cpKey
Resecures == <>[]KeysMatch => []<>Secured

\* osdp_phy.c:648: "Per OSDP spec, we must re-emit the previous reply
\* bit-identically" when the CP repeats the command the PD answered last.
RepeatsReEmit ==
    [][\A f \in ToSet(toPd) :
          Repeats(f) /\ pdCmd = f.code /\ toCp' # toCp => toCp'[1].code # "NAK"]_vars
=============================================================================
