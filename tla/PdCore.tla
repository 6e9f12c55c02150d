------------------------------- MODULE PdCore -------------------------------
(***************************************************************************)
(* The peripheral device (src/src/osdp_pd.c): receiving and decoding a     *)
(* command, the application's command callback, building, parking and      *)
(* sending the reply, the event queue with its completions, and the        *)
(* control state of the secure channel.  The CP is the environment: any    *)
(* command, well formed or not, may come next.  What a sequence number     *)
(* means is the subject of module Link; here it only matters that sequence *)
(* 0 ends a session and that a wrong one is answered by a NAK.             *)
(*                                                                         *)
(* One refresh runs osdp_pd_update() once.  The pass is split where it     *)
(* hands control to the application and where it may return early:         *)
(*                                                                         *)
(*   "idle"       between two refreshes; a reply may be parked             *)
(*   "receive"    the timers have been looked at, nothing is parked        *)
(*   "command"    inside the application's command callback                *)
(*   "decoded"    pd->reply_id is known, the reply is not built            *)
(*   "built"      the finalized reply is in the staging buffer             *)
(*   "completing" inside the event completion callback; pd->active_event   *)
(*                still points to the event that is handed back            *)
(*   "gone"       osdp_pd_teardown() has returned                          *)
(*                                                                         *)
(* Notifications and the COMSET_DONE callback give control as well; what   *)
(* the application may do there (submit, flush) touches only the queue,    *)
(* which the rest of the pass does not read, so it commutes to the next    *)
(* label.                                                                  *)
(***************************************************************************)
EXTENDS Naturals, Sequences, Functions

CONSTANTS
    Events,     \* event objects the application owns
    Answers,    \* [Events -> Codes \cup {"NONE"}]: the command it can answer
    Keys,       \* SCBK values
    Faults,     \* which of "noise", "send" may happen
    NoEvent, NoKey

\* POLL, the answers of the library alone (ID stands for CAP as well,
\* KEEPACTIVE for ACURXSIZE and ABORT), and what the application decides: LED
\* (and BUZ, TEXT, TDSET) is acknowledged, MFG (and OUT, BIOREAD, BIOMATCH) may
\* be answered by an event, STAT is answered by an event or by the report the
\* application filled in.
CallbackCodes == {"LED", "MFG", "STAT", "KEYSET", "COMSET"}
Codes == {"POLL", "ID", "KEEPACTIVE", "CHLNG", "SCRYPT"} \cup CallbackCodes

ASSUME PdAssumption ==
    /\ Answers \in [Events -> Codes \cup {"NONE"}]
    /\ NoEvent \notin Events
    /\ Keys # {} /\ NoKey \notin Keys
    /\ Faults \subseteq {"noise", "send"}

VARIABLES
    pc,         \* where osdp_pd_update() is, see above
    resume,     \* where it goes on when the completion callback returns
    online,     \* PD_FLAG_ONLINE
    sc,         \* PD_FLAG_SC_ACTIVE
    useScbkd,   \* PD_FLAG_SC_USE_SCBKD
    install,    \* PD_FLAG_INSTALL_MODE
    enforce,    \* PD_FLAG_ENFORCE_SECURE
    scbk,       \* pd->sc.scbk
    cmd,        \* pd->cmd_id
    reply,      \* pd->reply_id
    scratch,    \* the union of keyset_pending, comset_pending and nak_code
    parked,     \* pd->reply_prebuilt
    staged,     \* the packet in the staging buffer while a reply is parked
    queue,      \* pd->event_queue
    active,     \* pd->active_event
    owner,      \* history: who owns each event object
    owed,       \* history: commands received and not answered
    accepted,   \* history: the key of the KEYSET the application agreed to
    wire,       \* history: the reply the transport took in the last step
    handed      \* history: the events handed back in it, with their status

session  == <<sc, useScbkd, install, enforce, scbk>>
exchange == <<cmd, reply, scratch, owed, accepted>>
sending  == <<parked, staged>>
events   == <<queue, active, owner>>
control  == <<pc, resume, online>>
vars     == <<session, exchange, sending, events, control, wire, handed>>

-----------------------------------------------------------------------------
(* Vocabulary *)

Handshake == {"CHLNG", "SCRYPT"}
Replies == {"NONE", "ACK", "NAK", "EVENT", "REPORT", "COM", "CCRYPT", "RMAC_I"}

\* A packet: what it answers, what it says, the event in it, and whether it was
\* finalized inside a secure channel.
NoFrame == [cmd |-> "NONE", reply |-> "NONE", event |-> NoEvent,
            secure |-> FALSE]
FrameOf(c, r, e) == [cmd |-> c, reply |-> r, event |-> e, secure |-> sc]

\* A step in which no reply leaves and no event is handed back.
Quiet == wire' = NoFrame /\ handed' = {}

AppHasControl == pc \in {"idle", "command", "completing"}

-----------------------------------------------------------------------------
(* Variants: how a plausible bug would change a definition below.  No part of
   the specification uses them; each shows that some property has teeth.      *)

\* AfterTimers: the parked reply is forgotten.
ReceivesWhileParked == "receive"

\* CommitsKey: the reply is not checked.
CommitsAfterAnyReply == cmd = "KEYSET"

\* ExemptFromEnforce: one command too many.
PollExempt == {"ID", "POLL"} \cup Handshake

\* Dequeued: the event is looked at but stays in the queue.
OnlyPeeked == queue

\* BuildNak: the event rides to the send path.
NakKeepsEvent ==
    /\ pc = "decoded" /\ reply = "EVENT"
    /\ online' = TRUE
    /\ staged' = FrameOf(cmd, "NAK", NoEvent)
    /\ parked' = TRUE
    /\ pc' = "built"
    /\ Quiet
    /\ UNCHANGED <<resume, session, exchange, events>>

\* SendWaits: a transport that is not ready is taken for one that failed.
SendGivesUp ==
    /\ pc = "built"
    /\ parked' = FALSE /\ staged' = NoFrame /\ owed' = 0
    /\ pc' = "idle"
    /\ Quiet
    /\ UNCHANGED <<resume, online, session, cmd, reply, scratch, accepted,
                   events>>

-----------------------------------------------------------------------------
(* Initial state: osdp_pd_setup() *)

Init ==
    /\ pc = "idle" /\ resume = "idle" /\ online = FALSE
    /\ sc = FALSE /\ useScbkd = FALSE
    /\ install \in BOOLEAN /\ enforce \in {b \in BOOLEAN : ~(b /\ install)}
    /\ scbk \in Keys
    /\ cmd = "NONE" /\ reply = "NONE" /\ scratch = NoKey
    /\ owed = 0 /\ accepted = NoKey
    /\ parked = FALSE /\ staged = NoFrame
    /\ wire = NoFrame /\ handed = {}
    /\ queue = <<>> /\ active = NoEvent
    /\ owner = [e \in Events |-> "app"]

-----------------------------------------------------------------------------
(* The application API *)

\* osdp_pd_submit_event(): the queue has no bound.
osdp_pd_submit_event(e) ==
    /\ AppHasControl
    /\ owner[e] = "app"
    /\ queue' = Append(queue, e)
    /\ owner' = [owner EXCEPT ![e] = "pd"]
    /\ Quiet
    /\ UNCHANGED <<active, session, cmd, reply, scratch, owed, accepted,
                   sending, control>>

\* pd_drain_queue() and what a caller hands back besides the queue.
HandBack(es, status) ==
    /\ owner' = [e \in Events |-> IF e \in es THEN "app" ELSE owner[e]]
    /\ handed' = es \X {status}

osdp_pd_flush_events ==
    /\ AppHasControl
    /\ queue # <<>>
    /\ queue' = <<>>
    /\ HandBack(Range(queue), "FLUSHED")
    /\ wire' = NoFrame
    /\ UNCHANGED <<active, session, exchange, sending, control>>

\* It must not be called from a callback (osdp.h).
osdp_pd_teardown ==
    /\ pc = "idle"
    /\ pc' = "gone"
    /\ queue' = <<>> /\ active' = NoEvent
    /\ HandBack(Range(queue) \cup ({active} \ {NoEvent}), "ABORTED")
    /\ wire' = NoFrame
    /\ parked' = FALSE /\ staged' = NoFrame /\ owed' = 0 /\ scratch' = NoKey
    /\ sc' = FALSE
    /\ UNCHANGED <<resume, online, useScbkd, install, enforce, scbk, cmd,
                   reply, accepted>>

osdp_pd_setup ==
    /\ pc = "gone"
    /\ pc' = "idle" /\ online' = FALSE
    /\ useScbkd' = FALSE
    /\ install' \in BOOLEAN
    /\ enforce' \in {b \in BOOLEAN : ~(b /\ install')}
    /\ scbk' \in Keys
    /\ cmd' = "NONE" /\ reply' = "NONE" /\ accepted' = NoKey
    /\ Quiet
    /\ UNCHANGED <<resume, sc, scratch, owed, sending, events>>

-----------------------------------------------------------------------------
(* Sessions *)

\* pd_sc_deactivate()
EndSession == sc' = FALSE

\* A frame with sequence number 0 ends the session (sc_deactivate() in
\* phy_check_packet()).
SecureAfter(restart) == sc /\ ~restart

\* In install mode a security block of type SCS_11 or SCS_13 may ask for the
\* default key, whatever command it precedes.
HandshakeKey == useScbkd' \in {useScbkd} \cup (IF install THEN {TRUE} ELSE {})

\* Without a session an enforcing PD executes nothing but the way to one.
ExemptFromEnforce == {"ID"} \cup Handshake
Allowed(code, restart) ==
    enforce /\ ~SecureAfter(restart) => code \in ExemptFromEnforce

-----------------------------------------------------------------------------
(* osdp_pd_update(): timers *)

\* A parked reply is sent before anything is received.
AfterTimers == IF parked THEN "built" ELSE "receive"

\* OSDP_PD_SC_TIMEOUT_MS without a command, OSDP_PD_ONLINE_TOUT_MS without a
\* byte.  Each may or may not have run out.
Begin ==
    /\ pc = "idle"
    /\ pc' = AfterTimers
    /\ EndSession \/ UNCHANGED sc
    /\ online' \in {online, FALSE}
    /\ Quiet
    /\ UNCHANGED <<resume, useScbkd, install, enforce, scbk, exchange, sending,
                   events>>

-----------------------------------------------------------------------------
(* osdp_pd_update(): receiving, pd_receive_and_process_command() *)

\* No complete frame yet, one for another PD, or a repeat that was answered
\* from the cache.
ReceiveNothing ==
    /\ pc = "receive"
    /\ pc' = "idle"
    /\ Quiet
    /\ UNCHANGED <<resume, online, session, exchange, sending, events>>

\* A frame that does not check out, or half a frame: pd_error_reset().  One
\* with sequence number 0 may have ended the session before that.
ReceiveError ==
    /\ pc = "receive"
    /\ "noise" \in Faults
    /\ sc' = FALSE
    /\ pc' = "idle"
    /\ Quiet
    /\ UNCHANGED <<resume, online, useScbkd, install, enforce, scbk, exchange,
                   sending, events>>

\* A command was received; nak_code is set in advance, which overwrites the
\* union it lives in.
Received ==
    /\ pc = "receive"
    /\ owed' = owed + 1
    /\ accepted' = NoKey
    /\ scratch' = NoKey
    /\ Quiet

\* osdp_phy_check_packet() and osdp_phy_decode_packet() refuse a frame: wrong
\* sequence number, plain text inside a session, or a bad MAC or security
\* block, which may end the session.  pd->cmd_id still
\* names the command before.
Refuse ==
    /\ Received
    /\ reply' = "NAK"
    /\ sc' \in {sc, FALSE}
    /\ pc' = "decoded"
    /\ UNCHANGED <<cmd, resume, online, useScbkd, install, enforce, scbk,
                   sending, events>>

-----------------------------------------------------------------------------
(* pd_decode_command() *)

Decode(code, restart) ==
    /\ Received
    /\ cmd' = code
    /\ HandshakeKey
    /\ UNCHANGED <<resume, online, install, enforce, scbk, sending>>

\* Refused by the decoder: not allowed without a session, unknown, malformed,
\* beyond the PD's capabilities, a KEYSET outside or an SCRYPT inside a session,
\* a cryptogram that does not verify.
DecodeRefused(code, restart) ==
    /\ Decode(code, restart)
    /\ reply' = "NAK"
    /\ sc' = SecureAfter(restart)
    /\ pc' = "decoded"
    /\ UNCHANGED events

\* The queued event becomes the active one.
Dequeued == Tail(queue)
TakeEvent ==
    /\ active' = Head(queue)
    /\ queue' = Dequeued
    /\ reply' = "EVENT"
    /\ UNCHANGED owner

DecodePoll(restart) ==
    /\ Decode("POLL", restart)
    /\ Allowed("POLL", restart)
    /\ sc' = SecureAfter(restart)
    /\ IF queue # <<>> THEN TakeEvent ELSE reply' = "ACK" /\ UNCHANGED events
    /\ pc' = "decoded"

DecodeLibrary(code, restart) ==
    /\ code \in {"ID", "KEEPACTIVE"}
    /\ Decode(code, restart)
    /\ Allowed(code, restart)
    /\ sc' = SecureAfter(restart)
    /\ reply' = "ACK"
    /\ pc' = "decoded"
    /\ UNCHANGED events

\* The application is asked; a KEYSET is only accepted inside a session.
DecodeCommand(code, restart) ==
    /\ code \in CallbackCodes
    /\ Decode(code, restart)
    /\ Allowed(code, restart)
    /\ code = "KEYSET" => SecureAfter(restart)
    /\ sc' = SecureAfter(restart)
    /\ reply' = "NAK"
    /\ pc' = "command"
    /\ UNCHANGED events

\* CHLNG ends the session there is.
DecodeChallenge(restart) ==
    /\ Decode("CHLNG", restart)
    /\ sc' = FALSE
    /\ reply' = "CCRYPT"
    /\ pc' = "decoded"
    /\ UNCHANGED events

DecodeCryptogram(restart) ==
    /\ Decode("SCRYPT", restart)
    /\ ~SecureAfter(restart)
    /\ sc' = FALSE
    /\ reply' = "RMAC_I"
    /\ pc' = "decoded"
    /\ UNCHANGED events

-----------------------------------------------------------------------------
(* The command callback returns *)

CallbackRefuses ==
    /\ pc = "command"
    /\ Quiet
    /\ pc' = "decoded"
    /\ reply' = "NAK"
    /\ UNCHANGED <<resume, online, session, cmd, scratch, owed, accepted,
                   sending, events>>

\* pd_take_inline_reply(): only the head of the queue is looked at.
InlineReply == queue # <<>> /\ Answers[Head(queue)] = cmd

KeysetPending(k) == k

CallbackAcknowledged ==
    /\ pc = "command"
    /\ cmd = "LED" \/ (cmd = "MFG" /\ ~InlineReply)
    /\ Quiet
    /\ pc' = "decoded"
    /\ reply' = "ACK"
    /\ UNCHANGED <<resume, online, session, cmd, scratch, owed, accepted,
                   sending, events>>

CallbackAnswers ==
    /\ pc = "command"
    /\ cmd \in {"MFG", "STAT"} /\ InlineReply
    /\ TakeEvent
    /\ Quiet
    /\ pc' = "decoded"
    /\ UNCHANGED <<resume, online, session, cmd, scratch, owed, accepted,
                   sending>>

\* pd_prebuild_status_reply(): the report lives on the stack of
\* pd_decode_command(), so the packet is finalized at once.
CallbackReports ==
    /\ pc = "command"
    /\ cmd = "STAT" /\ ~InlineReply
    /\ reply' = "REPORT"
    /\ staged' = FrameOf(cmd, "REPORT", NoEvent)
    /\ parked' = TRUE
    /\ online' = TRUE
    /\ pc' = "built"
    /\ Quiet
    /\ UNCHANGED <<resume, session, cmd, scratch, owed, accepted,
                   events>>

CallbackTakesKey(k) ==
    /\ pc = "command"
    /\ cmd = "KEYSET"
    /\ scratch' = KeysetPending(k)
    /\ accepted' = k
    /\ reply' = "ACK"
    /\ Quiet
    /\ pc' = "decoded"
    /\ UNCHANGED <<resume, online, session, cmd, owed, sending, events>>

CallbackTakesComset ==
    /\ pc = "command"
    /\ cmd = "COMSET"
    /\ reply' = "COM"
    /\ Quiet
    /\ pc' = "decoded"
    /\ UNCHANGED <<resume, online, session, cmd, scratch, owed, accepted,
                   sending, events>>

-----------------------------------------------------------------------------
(* Building the reply: pd_build_reply_packet() *)

\* pd_complete_event(): the event is handed back, pd->active_event is cleared
\* when the callback returns.
Complete(status, then) ==
    /\ HandBack({active}, status)
    /\ pc' = "completing" /\ resume' = then
    /\ UNCHANGED <<queue, active>>

\* A valid packet means that the CP is there.  The RMAC_I activates the session.
BuildReply ==
    /\ pc = "decoded"
    /\ online' = TRUE
    /\ staged' = FrameOf(cmd, reply, active)
    /\ parked' = TRUE
    /\ pc' = "built"
    /\ IF reply = "RMAC_I" THEN sc' = TRUE ELSE UNCHANGED sc
    /\ Quiet
    /\ UNCHANGED <<resume, useScbkd, install, enforce, scbk, exchange,
                   events>>

\* The event does not fit: a NAK(RECORD) goes out in its place.
BuildNak ==
    /\ pc = "decoded" /\ reply = "EVENT"
    /\ online' = TRUE
    /\ staged' = FrameOf(cmd, "NAK", NoEvent)
    /\ parked' = TRUE
    /\ Complete("FAILED", "built")
    /\ wire' = NoFrame
    /\ UNCHANGED <<session, exchange>>

\* There is no room for the MAC or the check character: pd_error_reset().
BuildFails ==
    /\ pc = "decoded" /\ reply = "EVENT"
    /\ online' = TRUE
    /\ owed' = 0
    /\ Complete("FAILED", "reset")
    /\ wire' = NoFrame
    /\ UNCHANGED <<session, cmd, reply, scratch, accepted, sending>>

-----------------------------------------------------------------------------
(* Sending the reply: pd_send_reply() and the tail of osdp_pd_update() *)

\* The transport is not ready: the reply stays parked.
SendWaits ==
    /\ pc = "built"
    /\ pc' = "idle"
    /\ Quiet
    /\ UNCHANGED <<resume, online, session, exchange, sending, events>>

\* The exchange is over; an event that was part of it is handed back.
Finish(status) ==
    /\ parked' = FALSE /\ staged' = NoFrame /\ owed' = 0
    /\ IF active # NoEvent
       THEN Complete(status, "idle")
       ELSE pc' = "idle" /\ handed' = {} /\ UNCHANGED <<resume, events>>
    /\ accepted' = NoKey
    /\ UNCHANGED <<online, cmd, reply, enforce>>

SendFails ==
    /\ pc = "built"
    /\ "send" \in Faults
    /\ Finish("FAILED")
    /\ wire' = NoFrame
    /\ UNCHANGED <<scratch, sc, useScbkd, install, scbk>>

\* The acknowledgement of a KEYSET is out: from now on the PD speaks the new
\* key, and the default key has had its day.
CommitsKey == cmd = "KEYSET" /\ reply = "ACK"
DefaultKeyAfterCommit == FALSE

SendOk ==
    /\ pc = "built"
    /\ wire' = staged
    /\ Finish("OK")
    /\ IF CommitsKey
       THEN /\ scbk' = scratch /\ scratch' = NoKey
            /\ useScbkd' = DefaultKeyAfterCommit /\ install' = FALSE
            /\ EndSession
       ELSE UNCHANGED <<scratch, sc, useScbkd, install, scbk>>

\* The completion callback returns.
Completed ==
    /\ pc = "completing"
    /\ active' = NoEvent
    /\ IF resume = "reset" THEN EndSession ELSE UNCHANGED sc
    /\ pc' = IF resume = "built" THEN "built" ELSE "idle"
    /\ resume' = "idle"
    /\ Quiet
    /\ UNCHANGED <<online, useScbkd, install, enforce, scbk, exchange,
                   sending, queue, owner>>

-----------------------------------------------------------------------------
(* Specification *)

Api ==
    \/ \E e \in Events : osdp_pd_submit_event(e)
    \/ osdp_pd_flush_events \/ osdp_pd_teardown \/ osdp_pd_setup

Receive ==
    \/ ReceiveNothing \/ ReceiveError \/ Refuse
    \/ \E restart \in BOOLEAN :
          \/ DecodePoll(restart)
          \/ DecodeChallenge(restart)
          \/ DecodeCryptogram(restart)
          \/ \E code \in Codes :
                \/ DecodeRefused(code, restart)
                \/ DecodeLibrary(code, restart)
                \/ DecodeCommand(code, restart)

CallbackReturns ==
    \/ CallbackRefuses \/ CallbackAcknowledged \/ CallbackAnswers
    \/ CallbackReports \/ CallbackTakesComset
    \/ \E k \in Keys : CallbackTakesKey(k)

Build == BuildReply \/ BuildNak \/ BuildFails
Send == SendWaits \/ SendFails \/ SendOk

osdp_pd_refresh ==
    Begin \/ Receive \/ CallbackReturns \/ Build \/ Send \/ Completed

Next == Api \/ osdp_pd_refresh

Spec == Init /\ [][Next]_vars

\* The application refreshes for ever and its callbacks return; the CP polls;
\* a transport that is asked again and again takes a reply in the end.
Fairness ==
    /\ WF_vars(osdp_pd_refresh)
    /\ SF_vars(DecodePoll(FALSE))
    /\ SF_vars(SendOk)

FairSpec == Spec /\ Fairness

-----------------------------------------------------------------------------
(* Type invariant *)

Frames == [cmd : Codes \cup {"NONE"}, reply : Replies,
           event : Events \cup {NoEvent}, secure : BOOLEAN]

ControlOK ==
    /\ pc \in {"idle", "receive", "command", "decoded", "built",
               "completing", "gone"}
    /\ resume \in {"idle", "built", "reset"}
    /\ online \in BOOLEAN

SessionOK ==
    /\ sc \in BOOLEAN /\ useScbkd \in BOOLEAN /\ install \in BOOLEAN
    /\ enforce \in BOOLEAN
    /\ scbk \in Keys

ExchangeOK ==
    /\ cmd \in Codes \cup {"NONE"} /\ reply \in Replies
    /\ scratch \in Keys \cup {NoKey} /\ accepted \in Keys \cup {NoKey}
    /\ owed \in 0..1

SendingOK == parked \in BOOLEAN /\ staged \in Frames /\ wire \in Frames

EventsOK ==
    /\ queue \in Seq(Events) /\ active \in Events \cup {NoEvent}
    /\ owner \in [Events -> {"app", "pd"}]
    /\ handed \subseteq Events \X {"OK", "FAILED", "FLUSHED", "ABORTED"}

\* Types.  In particular the PD always has a key: what is committed after a
\* KEYSET is never the leftover of the union keyset_pending lives in.
TypeOK == ControlOK /\ SessionOK /\ ExchangeOK /\ SendingOK /\ EventsOK

-----------------------------------------------------------------------------
(* Safety *)

\* Every accepted event is reported exactly once (osdp.h:2086).  An event is
\* the library's exactly while it is queued or goes out with the exchange, and
\* is in one of the two places once, whatever callbacks submit or flush; while
\* an event is handed back the pointer to it is stale, and it may be in the
\* queue again already.
HeldForReply == IF pc = "completing" THEN NoEvent ELSE active

Ownership ==
    /\ \A e \in Events :
          owner[e] = "pd" <=> (e = HeldForReply \/ e \in Range(queue))
    /\ HeldForReply \notin Range(queue)
    /\ IsInjective(queue)

\* A decoded command is neither forgotten nor answered twice: between two
\* refreshes a command is unanswered exactly if a reply is parked, and that
\* reply answers the command received last with the event taken for it.
ParkedReplyAnswersLast ==
    /\ pc = "idle" => owed = (IF parked THEN 1 ELSE 0)
    /\ pc = "idle" /\ ~parked => active = NoEvent
    /\ parked /\ pc # "completing" =>
          staged.cmd = cmd /\ staged.event = active

\* The well-known default key is limited to install mode (osdp_phy.c:856): once
\* a KEYSET is committed no session uses it.
DefaultKeyRetired == ~install => ~useScbkd

-----------------------------------------------------------------------------
(* Action properties *)

\* "The event's reply was accepted by the transport" (OSDP_COMPLETION_OK,
\* osdp.h:1924): no failed build or send, and no NAK in its place, hands an
\* event back as OK.
EventOkMeansSent ==
    [][\A e \in Events : <<e, "OK">> \in handed' =>
          wire'.event = e /\ wire'.reply = "EVENT"]_vars

\* The PD changes its key only when the acknowledgement of a KEYSET goes out
\* that the application agreed to, however long it was parked, and to the key
\* it carried.
KeyCommitsOnAck ==
    [][scbk' # scbk /\ pc # "gone" =>
          /\ scbk' = accepted
          /\ wire'.cmd = "KEYSET" /\ wire'.reply = "ACK"]_vars

\* With ENFORCE_SECURE no event and no report leaves the PD in plain text.
EnforceHidesData ==
    [][enforce /\ wire'.reply \in {"EVENT", "REPORT"} =>
          wire'.secure]_vars

-----------------------------------------------------------------------------
(* Liveness *)

\* An event is handed back in the end, however often the transport is not
\* ready and whatever the CP sends between its polls.  (With ENFORCE_SECURE it
\* also takes a session, which only the CP can open.)
EventsLeave ==
    \A e \in Events : (owner[e] = "pd" /\ ~enforce) ~> owner[e] = "app"
=============================================================================
