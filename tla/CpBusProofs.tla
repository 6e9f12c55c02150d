----------------------------- MODULE CpBusProofs -----------------------------
(***************************************************************************)
(* What CpBus promises for any number of PDs, any retry budget and any     *)
(* amount of trouble: one exchange at a time, and nobody's packet or half  *)
(* received reply is overwritten in the buffer they share.  Both rest on   *)
(* BusHeld: a PD that is busy is the one whose turn it is.                 *)
(***************************************************************************)
EXTENDS CpBus, SequenceTheorems, WellFoundedInduction, TLAPS

BusHeld == \A p \in PDs : Busy(p) => p = current

IInv == TypeOK /\ BusHeld /\ BufferIsOwn

-----------------------------------------------------------------------------
(* Sequences of pieces *)

LEMMA AgeType ==
    ASSUME NEW s \in Seq(Pieces), NEW p \in PDs
    PROVE  Age(s, p) \in Seq(Pieces)
<1>1. \A i \in DOMAIN s : s[i] \in Pieces
  OBVIOUS
<1>2. \A i \in DOMAIN s :
         (IF s[i].of = p THEN [s[i] EXCEPT !.stale = TRUE] ELSE s[i]) \in Pieces
  BY <1>1 DEF Pieces
<1>3. Age(s, p) \in [1..Len(s) -> Pieces]
  BY <1>2 DEF Age
<1> QED
  BY <1>3, Len(s) \in Nat

LEMMA ReplyType == \A p \in PDs : Reply(p) \in Seq(Pieces)
<1> SUFFICES ASSUME NEW p \in PDs PROVE Reply(p) \in Seq(Pieces)
  OBVIOUS
<1>1. [of |-> p, part |-> "head", stale |-> FALSE] \in Pieces
  BY DEF Pieces
<1>2. [of |-> p, part |-> "tail", stale |-> FALSE] \in Pieces
  BY DEF Pieces
<1> QED
  BY <1>1, <1>2 DEF Reply

LEMMA LeastNumber ==
    ASSUME NEW T \in SUBSET Nat, T # {}
    PROVE  \E i \in T : \A j \in T : i <= j
<1> DEFINE R == {ss \in Nat \X Nat : ss[1] < ss[2]}
<1>1. IsWellFoundedOn(R, Nat)
  BY NatLessThanWellFounded DEF OpToRel
<1>2. PICK i \in T : \A j \in T : ~(<<j, i>> \in R)
  BY <1>1, WFMin
<1>3. ASSUME NEW j \in T, j < i PROVE FALSE
  <2> DEFINE ji == <<j, i>>
  <2>1. ji \in Nat \X Nat /\ ji[1] < ji[2]
    BY <1>3
  <2>2. ji \in R
    BY <2>1
  <2> QED
    BY <2>2, <1>2
<1> QED
  BY <1>3

\* What the header scan leaves is the end of what there was.
LEMMA ScanType ==
    ASSUME NEW s \in Seq(Pieces)
    PROVE  Scan(s) \in Seq(Pieces)
<1> DEFINE heads == {i \in DOMAIN s : s[i].part = "head"}
           first == CHOOSE i \in heads : \A j \in heads : i <= j
<1>1. CASE heads = {}
  BY <1>1 DEF Scan
<1>2. CASE heads # {}
  <2>1. heads \subseteq Nat
    OBVIOUS
  <2>2. \E i \in heads : \A j \in heads : i <= j
    BY <1>2, <2>1, LeastNumber
  <2>3. first \in 1..Len(s)
    BY <2>2
  <2>4. \A i \in first..Len(s) : s[i] \in Pieces
    BY <2>3
  <2>5. SubSeq(s, first, Len(s)) \in Seq(Pieces)
    BY <2>3, <2>4, SubSeqProperties
  <2> QED
    BY <1>2, <2>5 DEF Scan
<1> QED
  BY <1>1, <1>2

LEMMA InRingType == TypeOK => \A p \in PDs : InRing(p) \in Seq(Pieces)
<1> SUFFICES ASSUME TypeOK, NEW p \in PDs PROVE InRing(p) \in Seq(Pieces)
  OBVIOUS
<1>1. rb[p] \o rx \in Seq(Pieces)
  BY ConcatProperties DEF TypeOK
<1> QED
  BY <1>1, ScanType DEF InRing

-----------------------------------------------------------------------------
(* Whose turn it is *)

LEMMA NextPdType == \A p \in PDs : Next_pd(p) \in PDs
  BY CpBusAssumption DEF Next_pd, PDs

\* A turn changes the phy state of the PD that has it, and keeps the turn
\* exactly if that leaves it busy.
LEMMA BecomesStep ==
    ASSUME TypeOK, NEW p \in PDs, NEW s \in PhyStates, Becomes(p, s)
    PROVE  /\ phy' \in [PDs -> PhyStates]
           /\ phy'[p] = s
           /\ \A q \in PDs \ {p} : phy'[q] = phy[q]
           /\ current' \in PDs
           /\ Busy(p)' => current' = p
  BY NextPdType DEF Becomes, TypeOK

\* Every kind of turn is of that form.
LEMMA TurnBecomes ==
    ASSUME TypeOK, NEW p \in PDs, Turn(p)
    PROVE  \E s \in PhyStates : Becomes(p, s)
<1>1. CASE NotDue(p)
  BY <1>1 DEF NotDue, TypeOK
<1>2. CASE Kick(p)
  BY <1>2 DEF Kick, PhyStates
<1>3. CASE Reconnect(p)
  BY <1>3 DEF Reconnect, PhyStates
<1>4. CASE WaitOver(p)
  BY <1>4 DEF WaitOver, PhyStates
<1>5. CASE Send(p)
  BY <1>5 DEF Send, Transmit, PhyStates
<1>6. CASE SendParked(p)
  BY <1>6 DEF SendParked, Transmit, PhyStates, TypeOK
<1>7. CASE SendFails(p)
  BY <1>7 DEF SendFails, Offline, PhyStates
<1>8. CASE Listen(p)
  BY <1>8 DEF Listen, PhyStates, TypeOK
<1>9. CASE Timeout(p)
  BY <1>9 DEF Timeout, Offline, PhyStates
<1>10. CASE Receive(p)
  BY <1>10 DEF Receive, Offline, PhyStates
<1> QED
  BY <1>1, <1>2, <1>3, <1>4, <1>5, <1>6, <1>7, <1>8, <1>9, <1>10 DEF Turn

LEMMA BusHeldStep == TypeOK /\ BusHeld /\ [Next]_vars => BusHeld'
<1> SUFFICES ASSUME TypeOK, BusHeld, [Next]_vars PROVE BusHeld'
  OBVIOUS
<1>1. ASSUME NEW p \in PDs, p = current, Turn(p) PROVE BusHeld'
  <2>1. PICK s \in PhyStates : Becomes(p, s)
    BY <1>1, TurnBecomes
  <2>2. \A q \in PDs \ {p} : ~Busy(q)'
    BY <2>1, <1>1, BecomesStep DEF BusHeld, Busy
  <2> QED
    BY <2>1, <2>2, BecomesStep DEF BusHeld
<1>2. CASE UNCHANGED <<current, phy>>
  BY <1>2 DEF BusHeld, Busy
<1> QED
  BY <1>1, <1>2 DEF Next, osdp_cp_refresh, Tick, PdSends, ChannelReady, cpVars,
     vars

-----------------------------------------------------------------------------
(* The shared buffer *)

\* A turn that leaves its PD neither parked nor in the middle of a reply harms
\* nobody: all the others are idle or wait for their turn.
LEMMA BufferOfTurn ==
    ASSUME TypeOK, BusHeld, NEW p \in PDs, p = current, Turn(p),
           phy'[p] = "SEND_CMD_WAIT" => buf' = Holds(p, "command"),
           phy'[p] = "REPLY_WAIT" /\ part'[p] =>
               buf'.by = p /\ buf'.kind \in {"reply", "stale"}
    PROVE  BufferIsOwn'
<1>1. PICK s \in PhyStates : Becomes(p, s)
  BY TurnBecomes
<1>2. \A q \in PDs \ {p} : phy'[q] \notin {"SEND_CMD_WAIT", "REPLY_WAIT"}
  BY <1>1, BecomesStep DEF BusHeld, Busy
<1> QED
  BY <1>2 DEF BufferIsOwn, Holds

LEMMA BufferStep == IInv /\ [Next]_vars => BufferIsOwn'
<1> SUFFICES ASSUME IInv, [Next]_vars PROVE BufferIsOwn'
  OBVIOUS
<1> USE DEF IInv
<1>1. ASSUME NEW p \in PDs, p = current, Turn(p) PROVE BufferIsOwn'
  <2> SUFFICES /\ phy'[p] = "SEND_CMD_WAIT" => buf' = Holds(p, "command")
               /\ phy'[p] = "REPLY_WAIT" /\ part'[p] =>
                     buf'.by = p /\ buf'.kind \in {"reply", "stale"}
    BY <1>1, BufferOfTurn
  <2> USE BecomesStep
  <2> DEFINE Sent == Becomes(p, "REPLY_WAIT") /\ part' = [part EXCEPT ![p] = FALSE]
  <2>0. ASSUME Sent
        PROVE  phy'[p] = "REPLY_WAIT" /\ ~part'[p]
    BY <2>0 DEF PhyStates, TypeOK
  <2>1. CASE NotDue(p)
    BY <2>1 DEF NotDue, TypeOK
  <2>2. CASE Kick(p)
    BY <2>2 DEF Kick, PhyStates
  <2>3. CASE Reconnect(p)
    BY <2>3 DEF Reconnect, PhyStates
  <2>4. CASE WaitOver(p)
    BY <2>4 DEF WaitOver, PhyStates
  <2>5. CASE Send(p)
    <3>1. CASE ready
      BY <2>5, <3>1, <2>0 DEF Send, Transmit
    <3>2. CASE ~ready
      BY <2>5, <3>2 DEF Send, PhyStates
    <3> QED
      BY <3>1, <3>2
  <2>6. CASE SendParked(p)
    <3>1. CASE ready
      BY <2>6, <3>1, <2>0 DEF SendParked, Transmit
    <3>2. CASE ~ready
      BY <2>6, <3>2 DEF SendParked, TypeOK, BufferIsOwn
    <3> QED
      BY <3>1, <3>2
  <2>7. CASE SendFails(p)
    BY <2>7 DEF SendFails, Offline, PhyStates
  <2>8. CASE Listen(p)
    <3>1. phy[p] = "REPLY_WAIT" /\ phy'[p] = "REPLY_WAIT"
      BY <2>8 DEF Listen, TypeOK
    <3>2. CASE part[p] \/ InRing(p) = <<>>
      BY <2>8, <3>1, <3>2 DEF Listen, Collect, BufferIsOwn
    <3>3. CASE ~(part[p] \/ InRing(p) = <<>>)
      BY <2>8, <3>1, <3>3 DEF Listen, Collect, Collected
    <3> QED
      BY <3>2, <3>3
  <2>9. CASE Timeout(p)
    BY <2>9 DEF Timeout, Offline, PhyStates
  <2>10. CASE Receive(p)
    BY <2>10 DEF Receive, Offline, PhyStates
  <2> QED
    BY <1>1, <2>1, <2>2, <2>3, <2>4, <2>5, <2>6, <2>7, <2>8, <2>9, <2>10
       DEF Turn
<1>2. CASE UNCHANGED <<phy, buf, part>>
  BY <1>2 DEF BufferIsOwn
<1> QED
  BY <1>1, <1>2 DEF Next, osdp_cp_refresh, Tick, PdSends, ChannelReady, cpVars,
     vars

-----------------------------------------------------------------------------
(* Types *)

LEMMA CollectType ==
    ASSUME TypeOK, NEW p \in PDs, Collect(p)
    PROVE  /\ rx' \in Seq(Pieces)
           /\ rb' \in [PDs -> Seq(Pieces)]
           /\ part' \in [PDs -> BOOLEAN]
           /\ buf' \in Buffers
<1>1. InRing(p) \in Seq(Pieces)
  BY InRingType
<1>2. rx' \in Seq(Pieces)
  BY DEF Collect
<1>3. CASE part[p] \/ InRing(p) = <<>>
  BY <1>1, <1>2, <1>3 DEF Collect, TypeOK
<1>4. CASE ~(part[p] \/ InRing(p) = <<>>)
  <2>1. Tail(InRing(p)) \in Seq(Pieces) /\ Head(InRing(p)) \in Pieces
    BY <1>1, <1>4, HeadTailProperties
  <2>2. Collected(p, Head(InRing(p))) \in Buffers
    BY <2>1 DEF Collected, Pieces, Buffers
  <2>3. rb' \in [PDs -> Seq(Pieces)]
    BY <1>4, <2>1 DEF Collect, TypeOK
  <2> QED
    BY <1>2, <1>4, <2>2, <2>3 DEF Collect, TypeOK
<1> QED
  BY <1>3, <1>4

LEMMA TransmitType ==
    ASSUME TypeOK, NEW p \in PDs, NEW content \in Buffers,
           NEW received \in Seq(Pieces), NEW again \in BOOLEAN,
           Transmit(p, content, received, again)
    PROVE  /\ due' \in [PDs -> BOOLEAN]
           /\ part' \in [PDs -> BOOLEAN]
           /\ rx' \in Seq(Pieces)
           /\ rb' \in [PDs -> Seq(Pieces)]
           /\ air' \in [PDs -> Seq(Pieces)]
           /\ ready' \in BOOLEAN
           /\ trouble' \in 0..MaxTrouble
<1> DEFINE q == content.of
           old == IF again THEN air[q] ELSE Age(air[q], q)
<1>1. q \in PDs
  BY DEF Buffers
<1>2. old \in Seq(Pieces)
  BY <1>1, AgeType DEF TypeOK
<1>3. old \o Reply(q) \in Seq(Pieces)
  BY <1>1, <1>2, ReplyType, ConcatProperties
<1>4. due' \in [PDs -> BOOLEAN] /\ part' \in [PDs -> BOOLEAN]
  BY DEF Transmit, Waits, TypeOK
<1>5. rx' \in Seq(Pieces)
  BY <1>1, AgeType DEF Transmit
<1>6. rb' \in [PDs -> Seq(Pieces)]
  <2>1. Age(rb[p], q) \in Seq(Pieces)
    BY <1>1, AgeType DEF TypeOK
  <2>2. rb' = rb \/ rb' = [rb EXCEPT ![p] = Age(rb[p], q)]
    BY DEF Transmit
  <2> QED
    BY <2>1, <2>2 DEF TypeOK
<1>7. air' \in [PDs -> Seq(Pieces)]
  <2>1. \/ air' = [air EXCEPT ![q] = old \o Reply(q)]
        \/ air' = [air EXCEPT ![q] = old]
    BY DEF Transmit
  <2> QED
    BY <1>1, <1>2, <1>3, <2>1 DEF TypeOK
<1>8. ready' \in BOOLEAN /\ trouble' \in 0..MaxTrouble
  <2>1. ready' \in {ready, FALSE}
    BY DEF Transmit
  <2>2. trouble' = trouble \/ (trouble < MaxTrouble /\ trouble' = trouble + 1)
    BY DEF Transmit
  <2>3. ready' \in BOOLEAN
    BY <2>1 DEF TypeOK
  <2>4. trouble' \in 0..MaxTrouble
    BY <2>2, CpBusAssumption DEF TypeOK
  <2> QED
    BY <2>3, <2>4
<1> QED
  BY <1>4, <1>5, <1>6, <1>7, <1>8

\* What a turn may do to the bookkeeping of a failed or finished exchange.
LEMMA OfflineType ==
    ASSUME TypeOK, NEW p \in PDs, Offline(p)
    PROVE  due' \in [PDs -> BOOLEAN] /\ offline' \in [PDs -> BOOLEAN]
  BY DEF Offline, Waits, TypeOK

LEMMA TypeStep == TypeOK /\ [Next]_vars => TypeOK'
<1> SUFFICES ASSUME TypeOK, [Next]_vars PROVE TypeOK'
  OBVIOUS
<1> USE CpBusAssumption
<1>1. ASSUME NEW p \in PDs, Turn(p) PROVE TypeOK'
  <2>0. phy' \in [PDs -> PhyStates] /\ current' \in PDs
    BY <1>1, TurnBecomes, BecomesStep
  <2>1. CASE NotDue(p)
    BY <2>0, <2>1 DEF NotDue, TypeOK, env
  <2>2. CASE Kick(p)
    BY <2>0, <2>2 DEF Kick, TypeOK, env
  <2>3. CASE Reconnect(p)
    BY <2>0, <2>3 DEF Reconnect, TypeOK, env
  <2>4. CASE WaitOver(p)
    BY <2>0, <2>4 DEF WaitOver, TypeOK, env
  <2>5. CASE Send(p)
    <3> DEFINE again == phy[p] = "RETRY_CMD"
               received == IF again THEN <<>> ELSE rx
    <3>1. buf' \in Buffers /\ buf' = Holds(p, "command")
      BY <2>5 DEF Send, Holds, Buffers
    <3>2. received \in Seq(Pieces)
      BY DEF TypeOK
    <3>3. CASE ready
      <4>1. Transmit(p, Holds(p, "command"), received, retry[p] > 0)
        BY <2>5, <3>1, <3>3 DEF Send
      <4>2. Holds(p, "command") \in Buffers /\ (retry[p] > 0) \in BOOLEAN
        BY <3>1
      <4>3. /\ due' \in [PDs -> BOOLEAN] /\ part' \in [PDs -> BOOLEAN]
            /\ rx' \in Seq(Pieces) /\ rb' \in [PDs -> Seq(Pieces)]
            /\ air' \in [PDs -> Seq(Pieces)]
            /\ ready' \in BOOLEAN /\ trouble' \in 0..MaxTrouble
        BY <3>2, <4>1, <4>2, TransmitType
      <4> QED
        BY <2>0, <2>5, <3>1, <4>3 DEF Send, TypeOK
    <3>4. CASE ~ready
      BY <2>0, <2>5, <3>1, <3>2, <3>4 DEF Send, TypeOK
    <3> QED
      BY <3>3, <3>4
  <2>6. CASE SendParked(p)
    <3>1. CASE ready
      <4>1. Transmit(p, buf, rx, retry[p] > 0)
        BY <2>6, <3>1 DEF SendParked
      <4>2. buf \in Buffers /\ rx \in Seq(Pieces)
            /\ (retry[p] > 0) \in BOOLEAN
        BY DEF TypeOK
      <4>3. /\ due' \in [PDs -> BOOLEAN] /\ part' \in [PDs -> BOOLEAN]
            /\ rx' \in Seq(Pieces) /\ rb' \in [PDs -> Seq(Pieces)]
            /\ air' \in [PDs -> Seq(Pieces)]
            /\ ready' \in BOOLEAN /\ trouble' \in 0..MaxTrouble
        BY <4>1, <4>2, TransmitType
      <4> QED
        BY <2>0, <2>6, <4>3 DEF SendParked, TypeOK
    <3>2. CASE ~ready
      BY <2>0, <2>6, <3>2 DEF SendParked, TypeOK
    <3> QED
      BY <3>1, <3>2
  <2>7. CASE SendFails(p)
    <3>1. trouble' \in 0..MaxTrouble
      BY <2>7 DEF SendFails, TypeOK
    <3> QED
      BY <2>0, <2>7, <3>1, OfflineType DEF SendFails, TypeOK
  <2>8. CASE Listen(p)
    BY <2>0, <2>8, CollectType DEF Listen, TypeOK, env
  <2>9. CASE Timeout(p)
    <3>1. trouble' \in 0..MaxTrouble
      BY <2>9 DEF Timeout, TypeOK
    <3>2. CASE retry[p] < MaxRetries
      <4>1. due' \in [PDs -> BOOLEAN] /\ offline' = offline
        BY <2>9, <3>2 DEF Timeout, Waits, TypeOK
      <4>2. retry[p] + 1 \in 0..MaxRetries
        BY <3>2 DEF TypeOK
      <4>3. retry' \in [PDs -> 0..MaxRetries]
        BY <2>9, <3>2, <4>2 DEF Timeout, TypeOK
      <4> QED
        BY <2>0, <2>9, <3>1, <4>1, <4>3, CollectType DEF Timeout, TypeOK
    <3>3. CASE ~(retry[p] < MaxRetries)
      <4>1. Offline(p) /\ retry' = retry
        BY <2>9, <3>3 DEF Timeout
      <4> QED
        BY <2>0, <2>9, <3>1, <4>1, CollectType, OfflineType DEF Timeout, TypeOK
    <3> QED
      BY <3>2, <3>3
  <2>10. CASE Receive(p)
    <3> DEFINE ring == InRing(p)
               start == IF part[p] THEN buf ELSE Collected(p, ring[1])
               from == IF part[p] THEN 2 ELSE 3
    <3>1. ring \in Seq(Pieces) /\ Len(ring) >= from - 1
      BY <2>10, InRingType DEF Receive, Complete
    <3>2. \A i \in from..Len(ring) : ring[i] \in Pieces
      BY <3>1
    <3>3. SubSeq(ring, from, Len(ring)) \in Seq(Pieces)
      BY <3>1, <3>2, SubSeqProperties
    <3>4. buf' \in Buffers
      <4>1. CASE part[p]
        BY <2>10, <4>1 DEF Receive, TypeOK
      <4>2. CASE ~part[p]
        <5>1. ring[1] \in Pieces
          BY <3>1, <4>2
        <5>2. Collected(p, ring[1]) \in Buffers
          BY <5>1 DEF Collected, Pieces, Buffers
        <5> QED
          BY <2>10, <4>2, <5>2 DEF Receive
      <4> QED
        BY <4>1, <4>2
    <3>5. rb' \in [PDs -> Seq(Pieces)] /\ part' \in [PDs -> BOOLEAN]
          /\ rx' \in Seq(Pieces)
      BY <2>10, <3>3 DEF Receive, TypeOK
    <3>6. /\ due' \in [PDs -> BOOLEAN]
          /\ offline' \in [PDs -> BOOLEAN]
          /\ retry' \in [PDs -> 0..MaxRetries]
      <4>1. \/ Offline(p) /\ retry' = retry
            \/ Waits(p) /\ retry' = [retry EXCEPT ![p] = 0] /\ offline' = offline
        BY <2>10 DEF Receive
      <4>2. 0 \in 0..MaxRetries
        OBVIOUS
      <4> QED
        BY <4>1, <4>2, OfflineType DEF Waits, TypeOK
    <3> QED
      BY <2>0, <2>10, <3>4, <3>5, <3>6 DEF Receive, TypeOK, env
  <2> QED
    BY <1>1, <2>1, <2>2, <2>3, <2>4, <2>5, <2>6, <2>7, <2>8, <2>9, <2>10
       DEF Turn
<1>2. ASSUME NEW p \in PDs, Tick(p) PROVE TypeOK'
  BY <1>2 DEF Tick, TypeOK, env
<1>3. CASE ChannelReady
  BY <1>3 DEF ChannelReady, TypeOK, cpVars
<1>4. ASSUME NEW p \in PDs, PdSends(p) PROVE TypeOK'
  <2>1. Head(air[p]) \in Pieces /\ Tail(air[p]) \in Seq(Pieces)
    BY <1>4, HeadTailProperties DEF PdSends, TypeOK
  <2>2. rx' \in Seq(Pieces)
    BY <1>4, <2>1, AppendProperties DEF PdSends, TypeOK
  <2>3. air' \in [PDs -> Seq(Pieces)]
    BY <1>4, <2>1 DEF PdSends, TypeOK
  <2> QED
    BY <1>4, <2>2, <2>3 DEF PdSends, TypeOK, cpVars, env
<1>5. CASE UNCHANGED vars
  BY <1>5 DEF vars, cpVars, env, TypeOK
<1> QED
  BY <1>1, <1>2, <1>3, <1>4, <1>5 DEF Next, osdp_cp_refresh

-----------------------------------------------------------------------------
(* The theorems *)

LEMMA Initially == Init => IInv
<1> SUFFICES ASSUME Init PROVE IInv
  OBVIOUS
<1>1. 0 \in PDs
  BY CpBusAssumption DEF PDs
<1>2. TypeOK
  BY <1>1, CpBusAssumption DEF Init, TypeOK, PhyStates, Holds, Buffers
<1>3. BusHeld /\ BufferIsOwn
  BY DEF Init, BusHeld, Busy, BufferIsOwn
<1> QED
  BY <1>2, <1>3 DEF IInv

THEOREM Inductive == Spec => []IInv
<1>1. IInv /\ [Next]_vars => IInv'
  BY TypeStep, BusHeldStep, BufferStep DEF IInv
<1> QED
  BY Initially, <1>1, PTL DEF Spec

\* Every variable keeps its type, however many PDs there are.
THEOREM TypeCorrect == Spec => []TypeOK
<1>1. IInv => TypeOK
  BY DEF IInv
<1> QED
  BY Inductive, <1>1, PTL

\* osdp_cp_refresh() completes one PD's exchange before it starts the next:
\* two PDs that were parked or waiting at once would both have the turn.
THEOREM OneAtATime == Spec => []OneExchange
<1>1. IInv => OneExchange
  BY DEF IInv, BusHeld, Busy, OneExchange
<1> QED
  BY Inductive, <1>1, PTL

\* Nobody's parked packet and nobody's half received reply is overwritten in
\* the buffer that all PDs of the context share.
THEOREM BufferSafe == Spec => []BufferIsOwn
<1>1. IInv => BufferIsOwn
  BY DEF IInv
<1> QED
  BY Inductive, <1>1, PTL
=============================================================================
