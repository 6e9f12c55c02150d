------------------------------ MODULE Engines ------------------------------
(***************************************************************************)
(* The operations that outlive one exchange: card commands (PIVDATA,       *)
(* GENAUTH, CRAUTH: src/src/osdp_piv.c) and the biometric template read    *)
(* (src/src/osdp_bio.c), at the CP and at the PD.  Their data travels in   *)
(* fragments (src/src/osdp_multipart.c), the replies one per POLL.  The    *)
(* CP's engines and a file transfer share one completion slot,             *)
(* pd->engine_cmd (src/src/osdp_common.c).                                 *)
(*                                                                         *)
(* Of a file transfer only its hold on the slot is here; the transfer is   *)
(* module FileTransfer.  An exchange takes three steps, CpSend*, Pd* and   *)
(* Cp*, and the applications of both ends act between them.  The link is   *)
(* that of module Link: a retry is answered from the PD's reply cache, so  *)
(* an exchange either works or ends the CP's ONLINE state.                 *)
(*                                                                         *)
(* A fragment is [of, i, total]: the i-th of the total fragments of the    *)
(* answer that was computed for operation `of`.                            *)
(***************************************************************************)
EXTENDS Naturals, Sequences, FiniteSets

CONSTANTS
    Ops,         \* operations the CP's application may submit, each once
    Kind,        \* [Ops -> Kinds]
    CmdFrags,    \* [Ops -> fragments of the command]
    RepFrags,    \* [Ops -> fragments of the answer]
    NoOp,        \* a NULL command pointer
    Withdraws,   \* the PD's application drops its answers on MP_DONE(ABORTED)
    Faults,      \* what may go wrong
    MaxTrouble   \* bound: how often it does

PivKinds == {"PIVDATA", "GENAUTH", "CRAUTH"}
Kinds == PivKinds \cup {"BIOREAD", "FILE"}
Settled == {"OK", "FAILED"}

ASSUME EnginesAssumption ==
    /\ Kind \in [Ops -> Kinds]
    /\ CmdFrags \in [Ops -> Nat \ {0}]
    /\ RepFrags \in [Ops -> Nat \ {0}]
    /\ \A o \in Ops : Kind[o] # "GENAUTH" /\ Kind[o] # "CRAUTH" => CmdFrags[o] = 1
    /\ NoOp \notin Ops
    /\ Withdraws \in BOOLEAN
    /\ Faults \subseteq {"lost", "refuse", "restart"}
    /\ MaxTrouble \in Nat

VARIABLES
    online,     \* the CP's PD state is ONLINE; FALSE stands for OFFLINE
    status,     \* where each operation is, or how it was completed
    queue,      \* pd->cmd_queue, the BIOREADs in it
    active,     \* pd->active_cmd
    slot,       \* pd->engine_cmd; its family is Kind[slot]
    file,       \* the file transfer that runs at the CP
    piv,        \* pd->piv at the CP
    bio,        \* pd->bio at the CP
    wire,       \* the exchange under way
    ppiv,       \* pd->piv at the PD
    pbio,       \* pd->bio at the PD
    events,     \* the PD's event queue: the operations its events answer
    working,    \* operations the PD's application still works on
    answer,     \* history: the event the CP's application got for a card op
    trouble     \* history: faults so far

cpVars == <<online, status, queue, active, slot, file, piv, bio>>
pdVars == <<ppiv, pbio, events, working>>
vars == <<cpVars, wire, pdVars, answer, trouble>>

\* piv_op_reset(), bio_op_reset()
IdlePiv == [phase |-> "IDLE", op |-> NoOp, sent |-> 0, rx |-> <<>>,
            cancel |-> FALSE]
IdleBio == [phase |-> "IDLE", rx |-> <<>>, cancel |-> FALSE]
IdlePdPiv == [phase |-> "IDLE", op |-> NoOp, got |-> 0, of |-> NoOp, sent |-> 0]
IdlePdBio == [phase |-> "IDLE", of |-> NoOp, sent |-> 0]

NoFrag == [of |-> NoOp, i |-> 0, total |-> 0]
Quiet == [at |-> "idle", cmd |-> "NONE", op |-> NoOp, i |-> 0,
          reply |-> "NONE", frag |-> NoFrag]

Frag(o, n) == [of |-> o, i |-> n, total |-> RepFrags[o]]
WholeAnswer(o) == [n \in 1..RepFrags[o] |-> Frag(o, n)]

Init ==
    /\ online = TRUE
    /\ status = [o \in Ops |-> "app"]
    /\ queue = <<>> /\ active = NoOp /\ slot = NoOp /\ file = NoOp
    /\ piv = IdlePiv /\ bio = IdleBio
    /\ wire = Quiet
    /\ ppiv = IdlePdPiv /\ pbio = IdlePdBio
    /\ events = <<>> /\ working = {}
    /\ answer = [o \in Ops |-> <<>>]
    /\ trouble = 0

-----------------------------------------------------------------------------
(* The receive engine, osdp_mp_rx_consume() and osdp_mp_rx_commit().  No
   engine of this library terminates a transfer early.                       *)

\* The total is fixed by the first fragment; a gap is an error, a repeat is
\* tolerated.
Fits(rx, f) ==
    /\ rx # <<>> => f.total = rx[1].total
    /\ f.i <= Len(rx) + 1
Last(f) == f.i = f.total
Verdict(fits) == IF fits THEN "OK" ELSE "FAILED"
Store(rx, f) == IF f.i > Len(rx) THEN Append(rx, f) ELSE [rx EXCEPT ![f.i] = f]

-----------------------------------------------------------------------------
(* Variants: how a plausible bug would change a definition below.  No part of
   the specification uses them; each shows that some property has teeth.      *)

\* Settles: the family of the operation that ended is not compared.
SettlesAnyFamily(kinds) == slot

\* Supersedes: a command that supersedes an operation does not end it first.
SupersedesSilently == FALSE

\* Expires: a cancelled operation ends, a stalled one does not.
OnlyCancelled(e) == e.cancel

-----------------------------------------------------------------------------
(* Completions: osdp_mp_pd_notify() *)

\* The command that is completed when the operations of `kinds` end.
Settles(kinds) == IF slot # NoOp /\ Kind[slot] \in kinds THEN slot ELSE NoOp

Complete(s, o, outcome) == IF o = NoOp THEN s ELSE [s EXCEPT ![o] = outcome]

\* MP_DONE of `kinds`: the slot is cleared and its command completed.
Done(kinds, outcome) ==
    /\ slot' = IF Settles(kinds) = NoOp THEN slot ELSE NoOp
    /\ status' = Complete(status, Settles(kinds), outcome)

\* The families that have an operation running at the CP.
Running ==
    (IF file = NoOp THEN {} ELSE {"FILE"})
        \cup (IF piv.phase = "IDLE" THEN {} ELSE {Kind[piv.op]})
        \cup (IF bio.phase = "IDLE" THEN {} ELSE {"BIOREAD"})

\* osdp_mp_engine_busy()
Busy == Running # {}

\* The exchange failed hard: the PD goes OFFLINE, the command in flight is
\* completed and osdp_engines_abort() ends every operation.
GoOffline(outcome) ==
    /\ online' = FALSE
    /\ slot' = IF Settles(Running) = NoOp THEN slot ELSE NoOp
    /\ status' = Complete(Complete(status, Settles(Running), "FAILED"),
                          active, outcome)
    /\ active' = NoOp
    /\ file' = NoOp /\ piv' = IdlePiv /\ bio' = IdleBio
    /\ wire' = Quiet
    /\ UNCHANGED <<queue, answer>>

\* An exchange with a valid reply: operations of `kinds` ended, the biometric
\* engine is now `b`.  A BIOREAD whose template is still to be reassembled is
\* handed to the engine if the slot is free; any other command is completed.
ExchangeDone(kinds, outcome, b) ==
    LET ended == Settles(kinds)
        handOver == /\ active # NoOp
                    /\ b.phase # "IDLE"
                    /\ slot \in {NoOp, ended}
    IN  /\ bio' = b
        /\ slot' = IF handOver THEN active
                   ELSE IF ended = NoOp THEN slot ELSE NoOp
        /\ status' = Complete(Complete(status, ended, outcome), active,
                              IF handOver THEN "slot" ELSE "OK")
        /\ active' = NoOp
        /\ wire' = Quiet
        /\ UNCHANGED <<online, queue, file>>

-----------------------------------------------------------------------------
(* The CP's application *)

\* osdp_piv_cp_submit(): a card operation starts if no other one runs.
SubmitCardOp(o) ==
    /\ Kind[o] \in PivKinds
    /\ ~Busy
    /\ piv' = [IdlePiv EXCEPT !.phase = "CMD", !.op = o]
    /\ slot' = o
    /\ status' = [status EXCEPT ![o] = "slot"]
    /\ UNCHANGED <<queue, file>>

\* osdp_file_tx_command()
SubmitFile(o) ==
    /\ Kind[o] = "FILE"
    /\ ~Busy
    /\ file' = o
    /\ slot' = o
    /\ status' = [status EXCEPT ![o] = "slot"]
    /\ UNCHANGED <<queue, piv>>

\* A BIOREAD is queued whatever else is going on.
SubmitRead(o) ==
    /\ Kind[o] = "BIOREAD"
    /\ queue' = Append(queue, o)
    /\ status' = [status EXCEPT ![o] = "queued"]
    /\ UNCHANGED <<slot, file, piv>>

osdp_cp_submit_command(o) ==
    /\ online
    /\ status[o] = "app"
    /\ SubmitCardOp(o) \/ SubmitFile(o) \/ SubmitRead(o)
    /\ UNCHANGED <<online, active, bio, wire, pdVars, answer, trouble>>

\* The running operation of the named family is asked to end.
osdp_cp_cancel(kind) ==
    /\ \/ /\ kind \in PivKinds
          /\ piv.phase # "IDLE" /\ Kind[piv.op] = kind /\ ~piv.cancel
          /\ piv' = [piv EXCEPT !.cancel = TRUE]
          /\ UNCHANGED bio
       \/ /\ kind = "BIOREAD"
          /\ bio.phase # "IDLE" /\ ~bio.cancel
          /\ bio' = [bio EXCEPT !.cancel = TRUE]
          /\ UNCHANGED piv
    /\ UNCHANGED <<online, status, queue, active, slot, file, wire, pdVars,
                   answer, trouble>>

-----------------------------------------------------------------------------
(* cp_get_online_command(): the queue first, then the engines, then the
   keep-alive POLL.                                                          *)

Send(c, o, n) == wire' = [Quiet EXCEPT !.at = "pd", !.cmd = c, !.op = o, !.i = n]

MaySend == online /\ wire = Quiet
EnginesTurn == MaySend /\ queue = <<>>

CpSendRead ==
    /\ MaySend
    /\ queue # <<>>
    /\ active' = Head(queue)
    /\ queue' = Tail(queue)
    /\ status' = [status EXCEPT ![active'] = "active"]
    /\ Send("BIOREAD", active', 1)
    /\ UNCHANGED <<online, slot, file, piv, bio, pdVars, answer, trouble>>

\* osdp_piv_cp_cmd_build(): the next fragment of the command.
CpSendCardOp ==
    /\ EnginesTurn
    /\ piv.phase = "CMD" /\ ~piv.cancel
    /\ Send(Kind[piv.op], piv.op, piv.sent + 1)
    /\ UNCHANGED <<cpVars, pdVars, answer, trouble>>

\* Replies are pulled with polls.
CpPoll ==
    /\ EnginesTurn
    /\ piv.phase # "CMD" /\ ~piv.cancel
    /\ piv.phase = "IDLE" => ~bio.cancel
    /\ Send("POLL", NoOp, 0)
    /\ UNCHANGED <<cpVars, pdVars, answer, trouble>>

\* Cancelled, or without progress for OSDP_PIV_OP_TIMEOUT_MS or
\* OSDP_BIO_OP_TIMEOUT_MS, which may be over at any time.
Expires(e) == TRUE

\* osdp_piv_cp_get_command() gives the operation up.
CpEndCardOp ==
    /\ EnginesTurn
    /\ piv.phase # "IDLE" /\ Expires(piv)
    /\ Done({Kind[piv.op]}, "FAILED")
    /\ piv' = IdlePiv
    /\ Send("ABORT", NoOp, 0)
    /\ UNCHANGED <<online, queue, active, file, bio, pdVars, answer, trouble>>

\* osdp_bio_cp_get_command() gives the operation up.
CpEndRead ==
    /\ EnginesTurn
    /\ piv.phase = "IDLE" /\ bio.phase # "IDLE" /\ Expires(bio)
    /\ Done({"BIOREAD"}, "FAILED")
    /\ bio' = IdleBio
    /\ Send("ABORT", NoOp, 0)
    /\ UNCHANGED <<online, queue, active, file, piv, pdVars, answer, trouble>>

\* The file transfer ends; one that is given up sends CMD_ABORT as well.
CpEndFile ==
    /\ EnginesTurn
    /\ file # NoOp
    /\ \/ Done({"FILE"}, "OK") /\ UNCHANGED wire
       \/ Done({"FILE"}, "FAILED") /\ Send("ABORT", NoOp, 0)
    /\ file' = NoOp
    /\ UNCHANGED <<online, queue, active, piv, bio, pdVars, answer, trouble>>

-----------------------------------------------------------------------------
(* The PD: pd_decode_command() and pd_build_reply() *)

Answer(id, f) == wire' = [wire EXCEPT !.at = "cp", !.reply = id, !.frag = f]

\* What the application keeps when it is told that a card operation was aborted.
EventsAfter(aborted) == IF aborted /\ Withdraws THEN <<>> ELSE events
WorkAfter(aborted) ==
    IF aborted /\ Withdraws THEN {o \in working : Kind[o] = "BIOREAD"}
    ELSE working

\* osdp_piv_pd_reply_build(), osdp_bio_pd_reply_build(): the event for `a`
\* becomes a reply, or seeds one that continues on later polls.  A card event
\* needs an operation of its family that awaits it; without one a NAK goes out.
AnswerWith(a, p) ==
    IF Kind[a] \in PivKinds
    THEN IF p.phase = "CMD" /\ Kind[p.op] = Kind[a]
         THEN /\ ppiv' = IF RepFrags[a] = 1 THEN IdlePdPiv
                         ELSE [p EXCEPT !.phase = "REPLY", !.of = a, !.sent = 1]
              /\ Answer(Kind[a], Frag(a, 1))
              /\ UNCHANGED pbio
         ELSE /\ ppiv' = p
              /\ Answer("NAK", NoFrag)
              /\ UNCHANGED pbio
    ELSE /\ ppiv' = p
         /\ pbio' = IF RepFrags[a] = 1 THEN pbio
                    ELSE [phase |-> "REPLY", of |-> a, sent |-> 1]
         /\ Answer("BIOREAD", Frag(a, 1))

\* The application takes a command: it answers from the callback or later.
\* pd_take_inline_reply() sends the event at the head of the queue if it is of
\* the kind that answers this command.
AppTakes(o, p, evs, work) ==
    \E now \in BOOLEAN :
        LET queued == IF now THEN Append(evs, o) ELSE evs
        IN  /\ working' = IF now THEN work ELSE work \cup {o}
            /\ IF queued # <<>> /\ Kind[queued[1]] = Kind[o]
               THEN events' = Tail(queued) /\ AnswerWith(queued[1], p)
               ELSE /\ events' = queued
                    /\ ppiv' = p
                    /\ Answer("ACK", NoFrag)
                    /\ UNCHANGED pbio

\* The application refuses: CMD_PIVDATA leaves the operation open, the others
\* end it.
AppRefuses(o, p, superseded) ==
    LET ends == Kind[o] # "PIVDATA" IN
    /\ "refuse" \in Faults /\ trouble < MaxTrouble
    /\ trouble' = trouble + 1
    /\ ppiv' = IF ends THEN IdlePdPiv ELSE p
    /\ events' = EventsAfter(superseded \/ ends)
    /\ working' = WorkAfter(superseded \/ ends)
    /\ Answer("NAK", NoFrag)
    /\ UNCHANGED pbio

\* A first fragment ends what is left of the previous operation.
Supersedes == wire.i = 1 /\ ppiv.phase # "IDLE"

\* The operation after the fragment on the wire: osdp_piv_pd_open() for the
\* first, osdp_piv_pd_cmd_frag().
Fed == IF wire.i = 1 THEN [IdlePdPiv EXCEPT !.phase = "CMD", !.op = wire.op,
                                            !.got = 1]
       ELSE [ppiv EXCEPT !.got = wire.i]

Continues == ppiv.phase = "CMD" /\ Kind[ppiv.op] = wire.cmd /\ wire.i <= ppiv.got + 1

PdCardCommand ==
    /\ wire.at = "pd" /\ wire.cmd \in PivKinds
    /\ wire.i = 1 \/ Continues
    /\ IF wire.i < CmdFrags[wire.op]
       THEN /\ ppiv' = Fed
            /\ events' = EventsAfter(Supersedes)
            /\ working' = WorkAfter(Supersedes)
            /\ Answer("ACK", NoFrag)
            /\ UNCHANGED <<pbio, trouble>>
       ELSE \/ /\ AppTakes(wire.op, Fed, EventsAfter(Supersedes),
                           WorkAfter(Supersedes))
               /\ UNCHANGED trouble
            \/ AppRefuses(wire.op, Fed, Supersedes)
    /\ UNCHANGED <<cpVars, answer>>

PdReadCommand ==
    /\ wire.at = "pd" /\ wire.cmd = "BIOREAD"
    /\ \/ /\ AppTakes(wire.op, ppiv, events, working)
          /\ UNCHANGED trouble
       \/ /\ "refuse" \in Faults /\ trouble < MaxTrouble
          /\ trouble' = trouble + 1
          /\ Answer("NAK", NoFrag)
          /\ UNCHANGED pdVars
    /\ UNCHANGED <<cpVars, answer>>

\* A POLL continues a card reply, then a template, then sends an event.
PdContinueCardReply ==
    /\ wire.at = "pd" /\ wire.cmd = "POLL"
    /\ ppiv.phase = "REPLY"
    /\ LET n == ppiv.sent + 1 IN
       /\ Answer(Kind[ppiv.op], Frag(ppiv.of, n))
       /\ ppiv' = IF n = RepFrags[ppiv.of] THEN IdlePdPiv
                  ELSE [ppiv EXCEPT !.sent = n]
    /\ UNCHANGED <<cpVars, pbio, events, working, answer, trouble>>

PdContinueTemplate ==
    /\ wire.at = "pd" /\ wire.cmd = "POLL"
    /\ ppiv.phase # "REPLY" /\ pbio.phase = "REPLY"
    /\ LET n == pbio.sent + 1 IN
       /\ Answer("BIOREAD", Frag(pbio.of, n))
       /\ pbio' = IF n = RepFrags[pbio.of] THEN IdlePdBio
                  ELSE [pbio EXCEPT !.sent = n]
    /\ UNCHANGED <<cpVars, ppiv, events, working, answer, trouble>>

PdPolled ==
    /\ wire.at = "pd" /\ wire.cmd = "POLL"
    /\ ppiv.phase # "REPLY" /\ pbio.phase # "REPLY"
    /\ IF events = <<>> THEN Answer("ACK", NoFrag) /\ UNCHANGED <<ppiv, pbio, events>>
       ELSE events' = Tail(events) /\ AnswerWith(events[1], ppiv)
    /\ UNCHANGED <<cpVars, working, answer, trouble>>

\* osdp_engines_abort() at the PD.
PdEnginesAbort ==
    /\ ppiv' = IdlePdPiv /\ pbio' = IdlePdBio
    /\ events' = EventsAfter(ppiv.phase # "IDLE")
    /\ working' = WorkAfter(ppiv.phase # "IDLE")

PdAborts ==
    /\ wire.at = "pd" /\ wire.cmd = "ABORT"
    /\ PdEnginesAbort
    /\ Answer("ACK", NoFrag)
    /\ UNCHANGED <<cpVars, answer, trouble>>

\* osdp_pd_update(): the CP has been silent for OSDP_PD_ONLINE_TOUT_MS.
PdGivesCpUp ==
    /\ ~online /\ wire = Quiet
    /\ ppiv # IdlePdPiv \/ pbio # IdlePdBio
    /\ PdEnginesAbort
    /\ UNCHANGED <<cpVars, wire, answer, trouble>>

\* osdp_pd_submit_event(): the answer to a command taken earlier.
osdp_pd_submit_event(o) ==
    /\ o \in working
    /\ working' = working \ {o}
    /\ events' = Append(events, o)
    /\ UNCHANGED <<cpVars, wire, ppiv, pbio, answer, trouble>>

-----------------------------------------------------------------------------
(* The CP decodes the reply: cp_decode_response(), state_update() *)

OwnCommand == piv.phase = "CMD" /\ wire.cmd = Kind[piv.op]

\* osdp_piv_cp_cmd_acked()
CpAck ==
    /\ wire.at = "cp" /\ wire.reply = "ACK"
    /\ piv' = IF ~OwnCommand THEN piv
              ELSE [piv EXCEPT !.sent = @ + 1,
                               !.phase = IF piv.sent + 1 = CmdFrags[piv.op]
                                         THEN "REPLY" ELSE "CMD"]
    /\ ExchangeDone({}, "OK", bio)
    /\ UNCHANGED <<pdVars, answer, trouble>>

\* osdp_piv_cp_reply_consume() and osdp_piv_cp_reply_finish(): the event is
\* delivered before the operation ends.
Expected == OwnCommand \/ piv.phase = "REPLY"
CpCardFragment ==
    LET f == wire.frag
        rx == IF OwnCommand THEN <<>> ELSE piv.rx
    IN
    /\ wire.at = "cp" /\ wire.reply \in PivKinds
    /\ Expected /\ wire.reply = Kind[piv.op]
    /\ IF Fits(rx, f) /\ ~Last(f)
       THEN /\ piv' = [piv EXCEPT !.phase = "REPLY", !.rx = Store(rx, f)]
            /\ ExchangeDone({}, "OK", bio)
            /\ UNCHANGED answer
       ELSE /\ piv' = IdlePiv
            /\ answer' = IF Fits(rx, f)
                         THEN [answer EXCEPT ![piv.op] = Store(rx, f)] ELSE answer
            /\ ExchangeDone({wire.reply}, Verdict(Fits(rx, f)), bio)
    /\ UNCHANGED <<pdVars, trouble>>

\* A card reply that no operation awaits does not decode.
CpStrayCardFragment ==
    /\ wire.at = "cp" /\ wire.reply \in PivKinds
    /\ ~(Expected /\ wire.reply = Kind[piv.op])
    /\ GoOffline("FAILED")
    /\ UNCHANGED <<pdVars, trouble>>

\* osdp_bio_cp_reply_consume() with no reassembly under way.  The fragment is
\* read as a first one: a continuation then reads as a template of its own,
\* its length field being the length of the fragment.
CpFirstTemplate ==
    LET f == wire.frag IN
    /\ wire.at = "cp" /\ wire.reply = "BIOREAD"
    /\ bio.phase = "IDLE"
    /\ IF f.i = 1 /\ f.total > 1
       THEN ExchangeDone({}, "OK", [IdleBio EXCEPT !.phase = "REPLY",
                                                   !.rx = <<f>>])
       ELSE ExchangeDone({}, "OK", bio)
    /\ UNCHANGED <<piv, pdVars, answer, trouble>>

\* The same during a reassembly: a first fragment has another header and does
\* not fit.
CpMoreTemplate ==
    LET f == wire.frag
        fits == f.i > 1 /\ Fits(bio.rx, f)
    IN
    /\ wire.at = "cp" /\ wire.reply = "BIOREAD"
    /\ bio.phase # "IDLE"
    /\ IF fits /\ ~Last(f)
       THEN ExchangeDone({}, "OK", [bio EXCEPT !.rx = Store(bio.rx, f)])
       ELSE ExchangeDone({"BIOREAD"}, Verdict(fits), IdleBio)
    /\ UNCHANGED <<piv, pdVars, answer, trouble>>

\* A NAK of a command the application asked for fails that command; any other
\* one, a POLL whose event could not be sent for instance, ends the link.
CpNak ==
    LET soft == wire.cmd \in PivKinds \cup {"BIOREAD"}
        refused == IF OwnCommand THEN {wire.cmd} ELSE {}
    IN
    /\ wire.at = "cp" /\ wire.reply = "NAK"
    /\ IF soft
       THEN /\ piv' = IF OwnCommand THEN IdlePiv ELSE piv
            /\ slot' = IF Settles(refused) = NoOp THEN slot ELSE NoOp
            /\ status' = Complete(Complete(status, Settles(refused), "FAILED"),
                                  active, "FAILED")
            /\ active' = NoOp
            /\ wire' = Quiet
            /\ UNCHANGED <<online, queue, file, bio, answer>>
       ELSE GoOffline("FAILED")
    /\ UNCHANGED <<pdVars, trouble>>

\* The dwell and the handshake are over; the PD's engines know nothing of it.
CpReconnects ==
    /\ ~online
    /\ online' = TRUE
    /\ UNCHANGED <<status, queue, active, slot, file, piv, bio, wire, pdVars,
                   answer, trouble>>

-----------------------------------------------------------------------------
(* Faults *)

Strike(fault) ==
    /\ fault \in Faults
    /\ trouble < MaxTrouble
    /\ trouble' = trouble + 1

\* The command or its reply is lost, with every retry of it.
Lose ==
    /\ wire.at # "idle"
    /\ Strike("lost")
    /\ GoOffline("FAILED")
    /\ UNCHANGED pdVars

\* The PD restarts; the next exchange finds it out of sequence.
PdRestarts ==
    /\ wire.at = "pd"
    /\ Strike("restart")
    /\ ppiv' = IdlePdPiv /\ pbio' = IdlePdBio
    /\ events' = <<>> /\ working' = {}
    /\ GoOffline("FAILED")

-----------------------------------------------------------------------------
CpSends == CpSendRead \/ CpSendCardOp \/ CpPoll
PdActs == \/ PdCardCommand \/ PdReadCommand \/ PdContinueCardReply
          \/ PdContinueTemplate \/ PdPolled \/ PdAborts
CpReceives == \/ CpAck \/ CpCardFragment \/ CpStrayCardFragment
              \/ CpFirstTemplate \/ CpMoreTemplate \/ CpNak

Next ==
    \/ \E o \in Ops : osdp_cp_submit_command(o) \/ osdp_pd_submit_event(o)
    \/ \E k \in PivKinds \cup {"BIOREAD"} : osdp_cp_cancel(k)
    \/ CpSends \/ PdActs \/ CpReceives
    \/ CpEndCardOp \/ CpEndRead \/ CpEndFile
    \/ CpReconnects \/ PdGivesCpUp
    \/ Lose \/ PdRestarts

Spec == Init /\ [][Next]_vars

\* Both ends are refreshed.  A deadline that passes while the CP goes on
\* polling is noticed: the engines are asked at every idle refresh, and only
\* progress moves the deadline.
FairSpec ==
    /\ Spec
    /\ WF_vars(CpSends) /\ WF_vars(PdActs) /\ WF_vars(CpReceives)
    /\ WF_vars(CpReconnects)
    /\ SF_vars(CpEndCardOp) /\ SF_vars(CpEndRead) /\ SF_vars(CpEndFile)

-----------------------------------------------------------------------------
(* Properties *)

\* The engines of both ends, the slot, the queues and the exchange keep their
\* types (struct osdp_pd, osdp_piv, osdp_bio).
TypeOK ==
    /\ online \in BOOLEAN
    /\ status \in [Ops -> {"app", "queued", "active", "slot"} \cup Settled]
    /\ queue \in Seq(Ops)
    /\ {active, slot, file} \subseteq Ops \cup {NoOp}
    /\ piv.phase \in {"IDLE", "CMD", "REPLY"} /\ bio.phase \in {"IDLE", "REPLY"}
    /\ ppiv.phase \in {"IDLE", "CMD", "REPLY"} /\ pbio.phase \in {"IDLE", "REPLY"}
    /\ wire.at \in {"idle", "pd", "cp"}
    /\ events \in Seq(Ops) /\ working \subseteq Ops
    /\ trouble \in 0..MaxTrouble

\* The shared completion slot always holds the command of an operation that
\* still runs, no operation displaces another one's command from it, and a card
\* operation or a transfer that runs has its command there (comment in
\* osdp_mp_pd_notify()).
SlotIsLive ==
    /\ \A o \in Ops : status[o] = "slot" <=> slot = o
    /\ slot # NoOp =>
        \/ Kind[slot] \in PivKinds /\ piv.phase # "IDLE" /\ piv.op = slot
        \/ Kind[slot] = "BIOREAD" /\ bio.phase # "IDLE"
        \/ Kind[slot] = "FILE" /\ file = slot
    /\ piv.phase # "IDLE" => slot = piv.op
    /\ file # NoOp => slot = file

\* A card operation ends OK exactly when the application got its answer, and
\* the answer is the whole of what was computed for this very challenge, also
\* when operations were superseded, aborted at one end only or cut off (the
\* PD's application withdrawing what it is told was aborted).
AnswersOwn ==
    \A o \in Ops : Kind[o] \in PivKinds =>
        /\ answer[o] \in {<<>>, WholeAnswer(o)}
        /\ status[o] = "OK" <=> answer[o] # <<>>

\* Every operation the CP accepted is handed back in the end: refused,
\* stalled, cut off or answered.
EveryOpEnds ==
    \A o \in Ops : status[o] \in {"queued", "active", "slot"}
                       ~> status[o] \in Settled
=============================================================================
