-------------------------------- MODULE CpBus --------------------------------
(***************************************************************************)
(* Several PDs on one line: osdp_cp_refresh() takes the PDs of a CP in     *)
(* turn, lets the one whose exchange is under way keep the bus, and all of *)
(* them build, park and collect their packets in the one buffer of the     *)
(* context: in CP mode rx_buf is tx_buf (src/src/osdp_common.h:784).       *)
(*                                                                         *)
(* A PD's protocol state is reduced to what the bus sees of it: its phy    *)
(* state and whether it is offline (module CpFsm has the rest).  Replies   *)
(* arrive in two pieces, so that an exchange may end in the middle of one; *)
(* whether a reply answers the command its PD was sent last stands for the *)
(* sequence number (module Link).                                          *)
(***************************************************************************)
EXTENDS Integers, Sequences, SequencesExt

CONSTANTS
    N,           \* _num_pd
    MaxRetries,  \* OSDP_CMD_MAX_RETRIES
    MaxTrouble,  \* bound: how often something may go wrong
    MaxPieces    \* bound: pieces a PD has still to send

ASSUME CpBusAssumption ==
    /\ N \in Nat \ {0}
    /\ {MaxRetries, MaxTrouble, MaxPieces} \subseteq Nat

PDs == 0..(N - 1)

VARIABLES
    current,  \* _current_pd
    phy,      \* pd->phy_state
    offline,  \* pd->state is OFFLINE
    retry,    \* pd->phy_retry_count
    due,      \* the time this PD waits for has come
    buf,      \* tx_buf, which is rx_buf: whose packet it holds, and which
    part,     \* pd->packet_len > 0: the header of a reply is collected
    rb,       \* pd->rx_rb
    rx,       \* what the channel has received
    ready,    \* the channel takes a packet
    air,      \* what each PD has still to send
    mute,     \* the PDs that never answer
    trouble   \* how often something went wrong

cpVars  == <<current, phy, offline, retry, due, buf, part, rb>>
env     == <<ready, mute, trouble>>
vars    == <<cpVars, rx, air, env>>

-----------------------------------------------------------------------------
(* Variants: how a plausible bug would change a definition below.  No part of
   the specification uses them; each shows that some property has teeth.      *)

\* Busy: a parked packet does not hold the bus.
BusyUnlessParked(p) == phy[p] \in {"SEND_CMD", "REPLY_WAIT"}

\* Busy: the wait for a reply does not hold the bus.
BusyWhileSending(p) == phy[p] \in {"SEND_CMD", "SEND_CMD_WAIT"}

\* Next_pd: off by one.
SkipLast(p) == IF p + 1 >= N - 1 THEN 0 ELSE p + 1

-----------------------------------------------------------------------------
(* Vocabulary *)

PhyStates == {"IDLE", "SEND_CMD", "SEND_CMD_WAIT", "REPLY_WAIT", "WAIT",
              "RETRY_CMD"}
Holds(p, kind) == [by |-> p, of |-> p, kind |-> kind]
Buffers == [by : PDs, of : PDs, kind : {"none", "command", "reply", "stale"}]

\* A piece of a reply; it is stale once its PD was sent another command.
Pieces == [of : PDs, part : {"head", "tail"}, stale : BOOLEAN]
Reply(p) == << [of |-> p, part |-> "head", stale |-> FALSE],
               [of |-> p, part |-> "tail", stale |-> FALSE] >>
Age(s, p) == [i \in DOMAIN s |->
                 IF s[i].of = p THEN [s[i] EXCEPT !.stale = TRUE] ELSE s[i]]

\* cp_phy_bus_is_busy()
Busy(p) == phy[p] \in {"SEND_CMD", "SEND_CMD_WAIT", "REPLY_WAIT"}

\* next_pd_idx
Next_pd(p) == IF p + 1 >= N THEN 0 ELSE p + 1

Init ==
    /\ current = 0
    /\ phy = [p \in PDs |-> "IDLE"]
    /\ offline = [p \in PDs |-> FALSE]
    /\ retry = [p \in PDs |-> 0]
    /\ due = [p \in PDs |-> TRUE]
    /\ buf = Holds(0, "none")
    /\ part = [p \in PDs |-> FALSE]
    /\ rb = [p \in PDs |-> <<>>]
    /\ rx = <<>> /\ ready = TRUE
    /\ air = [p \in PDs |-> <<>>]
    /\ mute \in SUBSET PDs
    /\ trouble = 0

-----------------------------------------------------------------------------
(* osdp_cp_refresh(): state_update(pd) for the current PD, which keeps its
   turn if that leaves it busy.  A refresh takes several turns in a row if the
   PDs let it; nothing depends on where one refresh ends and the next begins. *)

\* The phy state after a turn, and with it whether the turn is kept.
Becomes(p, s) ==
    /\ phy' = [phy EXCEPT ![p] = s]
    /\ current' = IF Busy(p)' THEN p ELSE Next_pd(p)

\* A wait begins: for the next command, a retry, the reply or the reconnect.
Waits(p) == due' = [due EXCEPT ![p] = FALSE]

\* The exchange failed: the PD goes offline until it is tried again.
Offline(p) ==
    /\ Becomes(p, "IDLE") /\ Waits(p)
    /\ offline' = [offline EXCEPT ![p] = TRUE]

NotDue(p) ==
    /\ phy[p] \in {"IDLE", "WAIT"} /\ ~due[p]
    /\ Becomes(p, phy[p])
    /\ UNCHANGED <<offline, retry, due, buf, part, rb, rx, air, env>>

\* cp_phy_kick()
Kick(p) ==
    /\ phy[p] = "IDLE" /\ due[p] /\ ~offline[p]
    /\ Becomes(p, "SEND_CMD")
    /\ UNCHANGED <<offline, retry, due, buf, part, rb, rx, air, env>>

\* OFFLINE to INIT: osdp_phy_state_reset(pd, true)
Reconnect(p) ==
    /\ phy[p] = "IDLE" /\ due[p] /\ offline[p]
    /\ Becomes(p, "IDLE")
    /\ offline' = [offline EXCEPT ![p] = FALSE]
    /\ retry' = [retry EXCEPT ![p] = 0]
    /\ part' = [part EXCEPT ![p] = FALSE]
    /\ rb' = [rb EXCEPT ![p] = <<>>]
    /\ rx' = <<>>
    /\ UNCHANGED <<due, buf, air, env>>

\* The wait before a retry is over.
WaitOver(p) ==
    /\ phy[p] = "WAIT" /\ due[p]
    /\ Becomes(p, "RETRY_CMD")
    /\ UNCHANGED <<offline, retry, due, buf, part, rb, rx, air, env>>

\* osdp_phy_send_packet() of what is in the buffer: the PD it is meant for hears
\* it, unless it is lost, and has a reply to send.  What is on its way from a PD
\* that is sent a new command does not answer that one.
Transmit(p, content, received, again) ==
    LET q == content.of
        old == IF again THEN air[q] ELSE Age(air[q], q)
    IN /\ Becomes(p, "REPLY_WAIT") /\ Waits(p)
       /\ part' = [part EXCEPT ![p] = FALSE]
       /\ rx' = IF again THEN received ELSE Age(received, q)
       /\ rb' = IF again THEN rb ELSE [rb EXCEPT ![p] = Age(rb[p], q)]
       /\ \/ /\ air' = [air EXCEPT ![q] =
                          IF content.kind = "command" /\ q \notin mute
                             /\ Len(old) < MaxPieces
                          THEN old \o Reply(q) ELSE old]
             /\ \/ UNCHANGED <<ready, trouble>>
                \/ /\ trouble < MaxTrouble /\ trouble' = trouble + 1
                   /\ ready' = FALSE
          \/ /\ trouble < MaxTrouble /\ trouble' = trouble + 1
             /\ air' = [air EXCEPT ![q] = old]
             /\ UNCHANGED ready

\* The packet is built in the shared buffer; a retry flushes the channel first.
Send(p) ==
    /\ phy[p] \in {"SEND_CMD", "RETRY_CMD"}
    /\ buf' = Holds(p, "command")
    /\ LET again == phy[p] = "RETRY_CMD"
           received == IF again THEN <<>> ELSE rx
       IN IF ready
          THEN Transmit(p, buf', received, retry[p] > 0)
          ELSE /\ Becomes(p, "SEND_CMD_WAIT")
               /\ rx' = received
               /\ UNCHANGED <<due, part, rb, air, ready, trouble>>
    /\ UNCHANGED <<offline, retry, mute>>

\* The packet was parked until the channel takes it.
SendParked(p) ==
    /\ phy[p] = "SEND_CMD_WAIT"
    /\ IF ready
       THEN Transmit(p, buf, rx, retry[p] > 0)
       ELSE /\ Becomes(p, phy[p])
            /\ UNCHANGED <<due, part, rb, rx, air, ready, trouble>>
    /\ UNCHANGED <<offline, retry, buf, mute>>

\* cp_build_packet() or the channel fails.
SendFails(p) ==
    /\ phy[p] \in {"SEND_CMD", "RETRY_CMD", "SEND_CMD_WAIT"}
    /\ trouble < MaxTrouble /\ trouble' = trouble + 1
    /\ Offline(p)
    /\ UNCHANGED <<retry, buf, part, rb, rx, air, ready, mute>>

-----------------------------------------------------------------------------
(* cp_process_reply(): the channel is read into the PD's own ring; the header
   and then the packet are collected from there into the shared buffer.       *)

\* phy_check_header() skips what does not start a packet.
Scan(s) ==
    LET heads == {i \in DOMAIN s : s[i].part = "head"}
    IN IF heads = {} THEN <<>>
       ELSE SubSeq(s, CHOOSE i \in heads : \A j \in heads : i <= j, Len(s))

\* What p has to go by: the packet's start, if it is in the buffer, and its ring.
InRing(p) == IF part[p] THEN rb[p] \o rx ELSE Scan(rb[p] \o rx)
Complete(p) == Len(InRing(p)) >= (IF part[p] THEN 1 ELSE 2)
Collected(p, h) == [by |-> p, of |-> h.of,
                    kind |-> IF h.stale THEN "stale" ELSE "reply"]

Collect(p) ==
    /\ rx' = <<>>
    /\ IF part[p] \/ InRing(p) = <<>>
       THEN /\ rb' = [rb EXCEPT ![p] = InRing(p)]
            /\ UNCHANGED <<part, buf>>
       ELSE /\ rb' = [rb EXCEPT ![p] = Tail(InRing(p))]
            /\ part' = [part EXCEPT ![p] = TRUE]
            /\ buf' = Collected(p, Head(InRing(p)))

\* No reply yet.
Listen(p) ==
    /\ phy[p] = "REPLY_WAIT" /\ ~Complete(p)
    /\ ~due[p] \/ (air[p] # <<>> /\ trouble = MaxTrouble)
    /\ Collect(p)
    /\ Becomes(p, phy[p])
    /\ UNCHANGED <<offline, retry, due, air, env>>

\* No reply in resp_timeout_ms; that one is under way is trouble.
Timeout(p) ==
    /\ phy[p] = "REPLY_WAIT" /\ ~Complete(p) /\ due[p]
    /\ IF air[p] = <<>> THEN UNCHANGED trouble
       ELSE trouble < MaxTrouble /\ trouble' = trouble + 1
    /\ Collect(p)
    /\ IF retry[p] < MaxRetries
       THEN /\ Becomes(p, "WAIT") /\ Waits(p)
            /\ retry' = [retry EXCEPT ![p] = retry[p] + 1]
            /\ UNCHANGED offline
       ELSE Offline(p) /\ UNCHANGED retry
    /\ UNCHANGED <<air, ready, mute>>

\* The start of a packet is in the buffer until the rest of it is there (what
\* the code keeps of packet_len longer is cleared by the next send).
\* A packet that is not whole, comes from another PD, or carries an earlier
\* sequence number ends in OFFLINE; only the PD's own answer is one.
Receive(p) ==
    /\ phy[p] = "REPLY_WAIT" /\ Complete(p)
    /\ LET start == IF part[p] THEN buf ELSE Collected(p, InRing(p)[1])
           end   == InRing(p)[IF part[p] THEN 1 ELSE 2]
           valid == /\ start.kind = "reply" /\ start.of = p
                    /\ end.part = "tail" /\ end.of = p
       IN /\ buf' = start
          /\ rb' = [rb EXCEPT ![p] =
                      SubSeq(InRing(p), IF part[p] THEN 2 ELSE 3, Len(InRing(p)))]
          /\ part' = [part EXCEPT ![p] = FALSE]
          /\ rx' = <<>>
          /\ IF valid
             THEN /\ Becomes(p, "IDLE") /\ Waits(p)
                  /\ retry' = [retry EXCEPT ![p] = 0]
                  /\ UNCHANGED offline
             ELSE Offline(p) /\ UNCHANGED retry
    /\ UNCHANGED <<air, env>>

Turn(p) ==
    \/ NotDue(p) \/ Kick(p) \/ Reconnect(p) \/ WaitOver(p)
    \/ Send(p) \/ SendParked(p) \/ SendFails(p)
    \/ Listen(p) \/ Timeout(p) \/ Receive(p)
osdp_cp_refresh == \E p \in PDs : p = current /\ Turn(p)

-----------------------------------------------------------------------------
(* Specification *)

\* A wait of this PD's is over.
Tick(p) ==
    /\ ~due[p]
    /\ due' = [due EXCEPT ![p] = TRUE]
    /\ UNCHANGED <<current, phy, offline, retry, buf, part, rb, rx, air, env>>

ChannelReady ==
    /\ ~ready /\ ready' = TRUE
    /\ UNCHANGED <<cpVars, rx, air, mute, trouble>>

\* The next piece of a PD's reply reaches the CP; two PDs may talk at once.
PdSends(p) ==
    /\ air[p] # <<>>
    /\ rx' = Append(rx, Head(air[p]))
    /\ air' = [air EXCEPT ![p] = Tail(air[p])]
    /\ UNCHANGED <<cpVars, env>>

Next ==
    \/ osdp_cp_refresh
    \/ \E p \in PDs : Tick(p) \/ PdSends(p)
    \/ ChannelReady

Spec == Init /\ [][Next]_vars

\* The CP is refreshed for ever, time passes, the channel takes packets again,
\* and what a PD sends arrives.
Fairness ==
    /\ WF_vars(osdp_cp_refresh)
    /\ WF_vars(ChannelReady)
    /\ \A p \in PDs : WF_vars(Tick(p)) /\ WF_vars(PdSends(p))
FairSpec == Spec /\ Fairness

-----------------------------------------------------------------------------
(* Properties *)

\* What the PDs of a CP share and what each has of its own keep their types
\* (struct osdp, struct osdp_pd).
TypeOK ==
    /\ current \in PDs
    /\ phy \in [PDs -> PhyStates]
    /\ offline \in [PDs -> BOOLEAN]
    /\ retry \in [PDs -> 0..MaxRetries]
    /\ due \in [PDs -> BOOLEAN]
    /\ buf \in Buffers
    /\ part \in [PDs -> BOOLEAN]
    /\ rb \in [PDs -> Seq(Pieces)]
    /\ rx \in Seq(Pieces)
    /\ ready \in BOOLEAN
    /\ air \in [PDs -> Seq(Pieces)]
    /\ mute \subseteq PDs
    /\ trouble \in 0..MaxTrouble

\* "the CP must complete one PD's exchange before starting the next"
\* (osdp_cp.c:2826): at any time at most one PD has a packet parked for the
\* channel or waits for a reply.
OneExchange ==
    \A p, q \in PDs :
        {phy[p], phy[q]} \subseteq {"SEND_CMD_WAIT", "REPLY_WAIT"} => p = q

\* The buffer that all PDs share holds what its user left there: the packet that
\* is parked until the channel takes it (osdp_cp.c:1098-1105), and the first
\* part of a reply until the rest has come.
BufferIsOwn ==
    \A p \in PDs :
        /\ phy[p] = "SEND_CMD_WAIT" => buf = Holds(p, "command")
        /\ phy[p] = "REPLY_WAIT" /\ part[p] =>
              buf.by = p /\ buf.kind \in {"reply", "stale"}

\* PDs that are dead, slow or talk out of turn, and a channel that takes no
\* packet for a while, do not keep the others from the bus: every PD is sent a
\* command again and again.
EveryoneGetsTheBus == \A p \in PDs : []<>(phy[p] = "REPLY_WAIT")
=============================================================================
