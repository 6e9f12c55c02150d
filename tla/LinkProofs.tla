------------------------------ MODULE LinkProofs ------------------------------
(***************************************************************************)
(* What the sequence numbers, the retries and the reply cache achieve, for *)
(* any number of retries, any line and any mixture of lost, late and       *)
(* repeated frames and restarts of either end.                             *)
(*                                                                         *)
(* ExecutedOnce: a command the CP transmits again and again is executed    *)
(* once.  A send that fails at the PD and a garbled frame drop the reply   *)
(* cache, and with it the promise; the theorem is about a PD and a line    *)
(* that do neither.  The proof is about the frames on their way to the PD: *)
(* the copies of a command follow each other, and once one of them was     *)
(* executed, the ones behind it meet its reply in the cache.               *)
(*                                                                         *)
(* AnswersBelong: whatever goes wrong, the reply the CP takes is the       *)
(* answer to its command.  The proof is about all that is on its way, in   *)
(* both directions and in the cache, in the order in which it will be      *)
(* looked at.                                                              *)
(*                                                                         *)
(* LinkImplementsRpc: both together, as a refinement of module Rpc.        *)
(***************************************************************************)
EXTENDS Link, SequenceTheorems, TLAPS

LEMMA CodeFacts == \A s \in States : CodesOf[s] \subseteq Codes
  BY DEF Codes

LEMMA SeqFacts ==
    /\ \A s \in -1..3 : NextSeq(s) \in 0..3
    /\ \A s \in 1..3 : Rollback(s) \in 1..3
  BY DEF NextSeq, Rollback

LEMMA PutFacts ==
    ASSUME NEW S, NEW buffer \in Seq(S), NEW frame \in S
    PROVE  /\ Put(buffer, frame) \in Seq(S)
           /\ Put(buffer, frame) \in {buffer, Append(buffer, frame)}
  BY AppendProperties DEF Put

LEMMA ToSetFacts ==
    ASSUME NEW S, NEW q \in Seq(S)
    PROVE  ToSet(q) \subseteq S
<1>1. DOMAIN q = 1..Len(q) /\ \A i \in 1..Len(q) : q[i] \in S
  OBVIOUS
<1> QED
  BY <1>1 DEF ToSet

\* A name is there whenever the guard of CpSend says so.
LEMMA FreeFacts ==
    ASSUME TypeOK, Remembered # Ids
    PROVE  FreeId \in Ids /\ FreeId \notin Remembered
<1>1. \A f \in ToSet(toPd) : f.id \in Ids
  <2>1. ToSet(toPd) \subseteq FrameOf(Codes)
    BY ToSetFacts DEF TypeOK
  <2> QED
    BY <2>1 DEF FrameOf
<1>2. \A f \in ToSet(toCp) \cup ToSet(rxRb) : f.id \in Ids
  <2>1. ToSet(toCp) \subseteq ReplyOf /\ ToSet(rxRb) \subseteq ReplyOf
    BY ToSetFacts DEF TypeOK
  <2> QED
    BY <2>1 DEF ReplyOf
<1>3. cache # NoReply => cache.reply.id \in Ids
  BY DEF TypeOK, ReplyOf
<1>4. Remembered \subseteq Ids
  BY <1>1, <1>2, <1>3 DEF Remembered
<1>5. \E c \in Ids : c \notin Remembered
  BY <1>4
<1> QED
  BY <1>5 DEF FreeId

-----------------------------------------------------------------------------
(* Types *)

LEMMA StateFacts ==
    ASSUME TypeOK
    PROVE  OkState \in States /\ ErrState \in States
  BY DEF TypeOK, OkState, ErrState, States

LEMMA ReceivedFacts ==
    ASSUME TypeOK
    PROVE  /\ Received \in Seq(ReplyOf)
           /\ Received # <<>> => /\ Head(Received) \in ReplyOf
                                 /\ Tail(Received) \in Seq(ReplyOf)
<1>1. Received \in Seq(ReplyOf)
  BY ConcatProperties DEF TypeOK, Received
<1> QED
  BY <1>1, HeadTailProperties

LEMMA SettleTypes ==
    ASSUME TypeOK, NEW n \in States, NEW seq \in -1..3,
           NEW spent \in 0..MaxRetries, NEW rest \in Seq(ReplyOf),
           Settle(n, seq, spent, rest)
    PROVE  /\ state' \in States
           /\ cpPhy' \in {"IDLE", "REPLY_WAIT", "WAIT"}
           /\ cpSeq' \in -1..3 /\ txSeq' \in 0..3 /\ retry' \in 0..MaxRetries
           /\ useScbkd' \in BOOLEAN
           /\ cmd' = NoCmd
           /\ rxRb' \in Seq(ReplyOf) /\ toCp' \in Seq(ReplyOf)
<1>1. <<>> \in Seq(ReplyOf) /\ 0 \in 0..MaxRetries /\ -1 \in -1..3 /\ 0 \in 0..3
  BY LinkAssumption
<1>2. useScbkd' \in BOOLEAN
  BY Zenon DEF Settle
<1>3. state' \in States /\ cpPhy' = "IDLE" /\ cmd' = NoCmd /\ toCp' = <<>>
  BY DEF Settle
<1>4. CASE n = "SC_CHLNG" /\ state # n
  BY <1>1, <1>2, <1>3, <1>4 DEF Settle
<1>5. CASE ~(n = "SC_CHLNG" /\ state # n)
  <2>1. cpSeq' = seq /\ retry' = spent /\ rxRb' = rest /\ txSeq' = txSeq
    BY <1>5 DEF Settle
  <2>2. txSeq \in 0..3
    BY DEF TypeOK
  <2> QED
    BY <1>1, <1>2, <1>3, <2>1, <2>2
<1> QED
  BY <1>4, <1>5

\* What the CP does with a reply leaves the PD's side alone.
CpOnly ==
    /\ UNCHANGED <<pd, toPd, execs, repeatable>>
    /\ trouble' \in 0..MaxTrouble
    /\ answered' \in Ids \cup {NoId}

LEMMA SettledType ==
    ASSUME TypeOK, NEW n \in States, NEW seq \in -1..3,
           NEW spent \in 0..MaxRetries, NEW rest \in Seq(ReplyOf),
           Settle(n, seq, spent, rest), CpOnly
    PROVE  TypeOK'
  BY SettleTypes DEF CpOnly, TypeOK, pd

LEMMA CpReceiveType ==
    ASSUME TypeOK, CpReceive
    PROVE  TypeOK'
<1>1. /\ Received # <<>> /\ Head(Received) \in ReplyOf
      /\ Tail(Received) \in Seq(ReplyOf)
  BY ReceivedFacts DEF CpReceive, CpAnswer, CpCryptogram, CpNak, CpUndecodable,
     CpSeqMismatch, ReplyHere
<1>2. /\ cpSeq \in -1..3 /\ NextSeq(cpSeq) \in -1..3
      /\ 0 \in 0..MaxRetries /\ retry \in 0..MaxRetries
      /\ trouble \in 0..MaxTrouble /\ answered \in Ids \cup {NoId}
  BY SeqFacts, LinkAssumption DEF TypeOK
<1>3. "ONLINE" \in States /\ "OFFLINE" \in States
  BY DEF States, CodesOf
<1>4. CASE CpAnswer
  <2>1. CpOnly
    BY <1>1, <1>2, <1>4 DEF CpAnswer, CpOnly, ReplyOf
  <2>2. \E n \in {OkState, ErrState} : Settle(n, NextSeq(cpSeq), 0, Tail(Received))
    BY <1>4 DEF CpAnswer
  <2> QED
    BY <1>1, <1>2, <2>1, <2>2, StateFacts, SettledType
<1>5. CASE CpCryptogram \/ CpNak
  <2>1. CpOnly
    BY <1>2, <1>5 DEF CpCryptogram, CpNak, CpOnly, hist
  <2>2. \E k \in {0, retry} : Settle(ErrState, NextSeq(cpSeq), k, Tail(Received))
    BY <1>5 DEF CpCryptogram, CpNak
  <2> QED
    BY <1>1, <1>2, <2>1, <2>2, StateFacts, SettledType
<1>6. CASE CpUndecodable
  <2>1. CpOnly
    BY <1>2, <1>6 DEF CpUndecodable, CpOnly, hist
  <2>2. \E n \in {"ONLINE", ErrState}, k \in {0, retry} :
            Settle(n, cpSeq, k, Tail(Received))
    BY <1>6 DEF CpUndecodable
  <2> QED
    BY <1>1, <1>2, <1>3, <2>1, <2>2, StateFacts, SettledType
<1>7. CASE CpSeqMismatch
  <2>1. CpOnly
    BY <1>2, <1>7 DEF CpSeqMismatch, CpOnly, hist
  <2> QED
    BY <1>1, <1>2, <1>3, <1>7, <2>1, SettledType DEF CpSeqMismatch
<1> QED
  BY <1>4, <1>5, <1>6, <1>7 DEF CpReceive

\* A command is being exchanged, or there is none; OFFLINE there is none.
Asking ==
    /\ cpPhy # "IDLE" <=> cmd # NoCmd
    /\ state = "OFFLINE" => cpPhy = "IDLE"

LEMMA CpOtherType ==
    ASSUME TypeOK, Asking,
           \/ CpNoise \/ CpTimeout \/ CpRetry \/ CpReconnect \/ CpScRetry
           \/ CpRestart
    PROVE  TypeOK'
<1>1. /\ 0 \in 0..MaxRetries /\ retry \in 0..MaxRetries /\ <<>> \in Seq(ReplyOf)
      /\ cpSeq \in -1..3 /\ answered \in Ids \cup {NoId}
  BY LinkAssumption DEF TypeOK
<1>2. \A kind : Trouble(kind) => trouble' \in 0..MaxTrouble
  BY LinkAssumption DEF Trouble, TypeOK
<1>3. CASE CpNoise
  <2>1. CpOnly
    BY <1>1, <1>2, <1>3 DEF CpNoise, CpOnly, hist
  <2>2. Tail(Received) \in Seq(ReplyOf)
    BY <1>3, ReceivedFacts DEF CpNoise, ReplyHere
  <2> QED
    BY <1>1, <1>3, <2>1, <2>2, StateFacts, SettledType DEF CpNoise
<1>4. CASE CpTimeout
  <2>1. CpOnly
    BY <1>1, <1>2, <1>4 DEF CpTimeout, CpOnly, hist, TypeOK
  <2>2. CASE MayRetry
    <3>1. retry + 1 \in 0..MaxRetries
      BY <1>1, <2>2, LinkAssumption DEF MayRetry
    <3>2. /\ cpPhy' = "WAIT" /\ retry' = retry + 1
          /\ UNCHANGED <<state, cpSeq, txSeq, useScbkd, cmd, rxRb, toCp>>
      BY <1>4, <2>2 DEF CpTimeout
    <3> QED
      BY <2>1, <3>1, <3>2 DEF CpOnly, TypeOK, pd
  <2>3. CASE ~MayRetry
    BY <1>1, <1>4, <2>1, <2>3, StateFacts, SettledType DEF CpTimeout
  <2> QED
    BY <2>2, <2>3
<1>5. CASE CpRetry
  <2> DEFINE f == Frame(cmd, NextSeq(RewoundSeq))
  <2>1. RewoundSeq \in -1..3 /\ NextSeq(RewoundSeq) \in 0..3
    BY SeqFacts DEF RewoundSeq, TypeOK
  <2>2. cmd \in [id : Ids, code : Codes]
    BY <1>5 DEF CpRetry, Asking, TypeOK
  <2>3. f \in FrameOf(Codes) /\ toPd \in Seq(FrameOf(Codes))
    BY <2>1, <2>2 DEF Frame, FrameOf, TypeOK
  <2>4. toPd' = Put(toPd, f)
    BY <1>5 DEF CpRetry
  <2> HIDE DEF f
  <2>5. toPd' \in Seq(FrameOf(Codes))
    BY <2>3, <2>4, PutFacts
  <2> QED
    BY <1>1, <1>5, <2>1, <2>5 DEF CpRetry, TypeOK, pd, hist
<1>6. CASE CpReconnect \/ CpScRetry
  <2>1. PICK n \in {"INIT", "SC_CHLNG"} : ResetInto(n)
    BY <1>6 DEF CpReconnect, CpScRetry
  <2>2. n \in States /\ TransportAfterReset \in Seq(ReplyOf)
    BY <1>1 DEF States, CodesOf, TransportAfterReset, TypeOK
  <2> QED
    BY <1>1, <2>1, <2>2 DEF ResetInto, TypeOK, pd, hist
<1>7. CASE CpRestart
  <2>1. /\ state' \in States /\ cpPhy' = "IDLE" /\ cpSeq' = -1 /\ txSeq' = 0
        /\ retry' = 0 /\ cmd' = NoCmd /\ rxRb' = <<>>
        /\ toCp' = <<>> /\ trouble' \in 0..MaxTrouble
    BY <1>2, <1>7 DEF CpRestart, States, CodesOf
  <2>3. useScbkd' \in BOOLEAN
    BY <1>7, Zenon DEF CpRestart
  <2>4. -1 \in -1..3 /\ 0 \in 0..3
    OBVIOUS
  <2>2. UNCHANGED <<pdSeq, pdCmd, cache, toPd, execs, repeatable, answered>>
    BY <1>7 DEF CpRestart, pd, hist
  <2> QED
    BY <1>1, <2>1, <2>2, <2>3, <2>4 DEF TypeOK
<1> QED
  BY <1>3, <1>4, <1>5, <1>6, <1>7

LEMMA SendType ==
    ASSUME TypeOK, NEW code \in Codes, CpSend(code)
    PROVE  TypeOK'
<1> DEFINE c == [id |-> FreeId, code |-> code]
           f == Frame(c, NextSeq(cpSeq))
<1>1. FreeId \in Ids
  BY FreeFacts DEF CpSend
<1>2. cpSeq \in -1..3 /\ NextSeq(cpSeq) \in 0..3
  BY SeqFacts DEF TypeOK
<1>3. f \in FrameOf(Codes) /\ c \in [id : Ids, code : Codes]
  BY <1>1, <1>2 DEF Frame, FrameOf
<1>4. /\ cmd' = c /\ txSeq' = NextSeq(cpSeq) /\ toPd' = Put(toPd, f)
      /\ execs' = [execs EXCEPT ![FreeId] = 0]
      /\ repeatable' \in {repeatable \cup {FreeId}, repeatable \ {FreeId}}
      /\ answered' = NoId /\ cpPhy' = "REPLY_WAIT"
      /\ UNCHANGED <<state, cpSeq, retry, useScbkd, rxRb, pd, toCp, trouble>>
  BY DEF CpSend
<1>5. toPd \in Seq(FrameOf(Codes))
  BY DEF TypeOK
<1> HIDE DEF c, f
<1>6. toPd' \in Seq(FrameOf(Codes))
  BY <1>3, <1>4, <1>5, PutFacts
<1>7. execs' \in [Ids -> 0..2] /\ repeatable' \in SUBSET Ids
  BY <1>1, <1>4 DEF TypeOK
<1> QED
  BY <1>2, <1>3, <1>4, <1>6, <1>7 DEF TypeOK, pd

LEMMA HeadFacts ==
    ASSUME TypeOK, toPd # <<>>
    PROVE  /\ Head(toPd) \in FrameOf(Codes) /\ Tail(toPd) \in Seq(FrameOf(Codes))
           /\ Base(Head(toPd)) \in -1..3 /\ NextSeq(Base(Head(toPd))) \in 0..3
<1> DEFINE f == Head(toPd)
<1>1. f \in FrameOf(Codes) /\ Tail(toPd) \in Seq(FrameOf(Codes))
  BY HeadTailProperties DEF TypeOK
<1>2. f.seq \in 0..3 /\ pdSeq \in -1..3
  BY <1>1 DEF FrameOf, TypeOK
<1> HIDE DEF f
<1>3. Repeats(f) => pdSeq \in 1..3
  BY <1>2 DEF Repeats, Restarts
<1>4. Base(f) \in -1..3
  BY <1>2, <1>3, SeqFacts DEF Base
<1> QED
  BY <1>1, <1>4, SeqFacts DEF f

LEMMA PdAnswerTypes ==
    ASSUME TypeOK, toPd # <<>>, NEW code \in Codes \cup {"NONE"},
           NEW kind \in Kinds, NEW drops,
           PdAnswer(Head(toPd), code, kind, drops)
    PROVE  /\ toPd' \in Seq(FrameOf(Codes)) /\ toCp' \in Seq(ReplyOf)
           /\ pdSeq' \in -1..3 /\ pdCmd' \in Codes \cup {"NONE"}
           /\ \/ cache' = NoReply
              \/ cache' \in [code : Codes \cup {"NONE"}, reply : ReplyOf]
           /\ trouble' \in 0..MaxTrouble
<1> DEFINE f == Head(toPd)
           reply == Reply(f, NextSeq(Base(f)), kind)
<1>1. reply \in ReplyOf
  BY HeadFacts DEF Reply, ReplyOf, FrameOf
<1>2. Base(f) \in -1..3 /\ NextSeq(Base(f)) \in -1..3
  BY HeadFacts
<1>3. /\ toPd' = Tail(toPd) /\ pdCmd' = code
      /\ \/ /\ toCp' = Put(toCp, reply) /\ trouble' = trouble
            /\ cache' = [code |-> code, reply |-> reply]
            /\ pdSeq' = NextSeq(Base(f))
         \/ /\ Trouble("send") /\ toCp' = toCp
            /\ cache' \in {NoReply, [cache EXCEPT !.reply = reply]}
            /\ cache = NoReply => cache' = NoReply
            /\ pdSeq' = Base(f)
  BY DEF PdAnswer
<1>4. toCp \in Seq(ReplyOf) /\ trouble \in 0..MaxTrouble
      /\ (cache = NoReply \/ cache \in [code : Codes \cup {"NONE"}, reply : ReplyOf])
  BY DEF TypeOK
<1> HIDE DEF reply, f
<1>5. toCp' \in Seq(ReplyOf)
  BY <1>1, <1>3, <1>4, PutFacts
<1>6. trouble' \in 0..MaxTrouble
  BY <1>3, <1>4, LinkAssumption DEF Trouble
<1>7. cache' = NoReply \/ cache' \in [code : Codes \cup {"NONE"}, reply : ReplyOf]
  BY <1>1, <1>3, <1>4
<1> QED
  BY <1>2, <1>3, <1>5, <1>6, <1>7, HeadFacts

LEMMA PdType ==
    ASSUME TypeOK, PdRefresh \/ PdNoise \/ PdRestart
    PROVE  TypeOK'
<1>1. CASE PdRepeat
  <2>1. /\ toPd' = Tail(toPd) /\ toCp' = Put(toCp, cache.reply)
        /\ UNCHANGED <<cp, pd, trouble, hist>> /\ toPd # <<>> /\ cache # NoReply
    BY <1>1 DEF PdRepeat, CacheHit
  <2>2. cache.reply \in ReplyOf /\ toCp \in Seq(ReplyOf)
    BY <2>1 DEF TypeOK
  <2>3. toCp' \in Seq(ReplyOf) /\ toPd' \in Seq(FrameOf(Codes))
    BY <2>1, <2>2, PutFacts, HeadFacts
  <2> QED
    BY <2>1, <2>3 DEF TypeOK, cp, pd, hist
<1>2. CASE PdExecute
  <2> DEFINE f == Head(toPd)
  <2>1. f \in FrameOf(Codes) /\ toPd # <<>>
    BY <1>2, HeadFacts DEF PdExecute
  <2>2. /\ \E kind \in Kinds : \E drops : PdAnswer(f, f.code, kind, drops)
        /\ execs' = [execs EXCEPT ![f.id] = IF @ = 0 THEN 1 ELSE 2]
        /\ UNCHANGED <<cp, repeatable, answered>>
    BY <1>2 DEF PdExecute, Kinds
  <2>3. f.code \in Codes \cup {"NONE"} /\ f.id \in Ids
    BY <2>1 DEF FrameOf
  <2>4. execs' \in [Ids -> 0..2]
    BY <2>2, <2>3 DEF TypeOK
  <2> QED
    BY <2>1, <2>2, <2>3, <2>4, PdAnswerTypes DEF TypeOK, cp
<1>3. CASE PdRefuse
  <2>1. /\ toPd # <<>> /\ UNCHANGED <<cp, hist>> /\ "NAK" \in Kinds
        /\ \E drops : PdAnswer(Head(toPd), pdCmd, "NAK", drops)
    BY <1>3 DEF PdRefuse, Kinds
  <2>2. pdCmd \in Codes \cup {"NONE"}
    BY DEF TypeOK
  <2> QED
    BY <2>1, <2>2, PdAnswerTypes DEF TypeOK, cp, hist
<1>4. CASE PdNoise
  BY <1>4, HeadFacts, LinkAssumption DEF PdNoise, Trouble, TypeOK, cp, hist
<1>5. CASE PdRestart
  <2>1. /\ pdSeq' = -1 /\ pdCmd' = "NONE" /\ cache' = NoReply /\ toPd' = <<>>
        /\ trouble' \in 0..MaxTrouble
        /\ UNCHANGED <<cp, toCp, execs, answered>>
    BY <1>5, LinkAssumption DEF PdRestart, Trouble, TypeOK
  <2>2. repeatable' \in SUBSET Ids
    BY <1>5 DEF PdRestart, TypeOK
  <2> QED
    BY <2>1, <2>2 DEF TypeOK, cp
<1> QED
  BY <1>1, <1>2, <1>3, <1>4, <1>5 DEF PdRefresh

LEMMA LineType ==
    ASSUME TypeOK, LoseCommand \/ LoseReply
    PROVE  TypeOK'
<1>1. CASE LoseCommand
  BY <1>1, HeadFacts, LinkAssumption DEF LoseCommand, Trouble, TypeOK, cp, pd, hist
<1>2. CASE LoseReply
  <2>1. Tail(toCp) \in Seq(ReplyOf)
    BY <1>2, HeadTailProperties DEF LoseReply, TypeOK
  <2> QED
    BY <1>2, <2>1, LinkAssumption DEF LoseReply, Trouble, TypeOK, cp, pd, hist
<1> QED
  BY <1>1, <1>2

LEMMA AskingKept == TypeOK /\ Asking /\ [Next]_vars => Asking'
<1> SUFFICES ASSUME TypeOK, Asking, [Next]_vars PROVE Asking'
  OBVIOUS
<1>1. ASSUME NEW n, NEW seq, NEW spent, NEW rest, Settle(n, seq, spent, rest)
      PROVE  Asking'
  BY <1>1 DEF Settle, Asking
<1>2. CASE \E code \in Codes : CpSend(code)
  <2>1. PICK code \in Codes : CpSend(code)
    BY <1>2
  <2>2. /\ cpPhy' = "REPLY_WAIT" /\ cmd' = [id |-> FreeId, code |-> code]
        /\ FreeId \in Ids /\ state' = state /\ state # "OFFLINE"
    BY <2>1, FreeFacts DEF CpSend, CodesOf
  <2> QED
    BY <2>2, LinkAssumption DEF Asking, NoCmd
<1>3. CASE CpReceive \/ CpNoise
  BY <1>1, <1>3 DEF CpReceive, CpAnswer, CpCryptogram, CpNak, CpUndecodable,
     CpSeqMismatch, CpNoise
<1>4. CASE CpTimeout
  BY <1>1, <1>4 DEF CpTimeout, Asking
<1>5. CASE CpRetry \/ CpReconnect \/ CpScRetry \/ CpRestart
  BY <1>5 DEF CpRetry, CpReconnect, CpScRetry, CpRestart, ResetInto, Asking
<1>6. CASE UNCHANGED cp
  BY <1>6 DEF cp, Asking
<1>7. CASE PdRefresh \/ PdNoise \/ PdRestart \/ LoseCommand \/ LoseReply
  BY <1>6, <1>7 DEF PdRefresh, PdRepeat, PdExecute, PdRefuse, PdNoise, PdRestart,
     LoseCommand, LoseReply
<1> QED
  BY <1>2, <1>3, <1>4, <1>5, <1>6, <1>7 DEF Next, CpRefresh, Disturbance, vars

LEMMA TypeKept == TypeOK /\ Asking /\ [Next]_vars => TypeOK'
<1> SUFFICES ASSUME TypeOK, Asking, [Next]_vars PROVE TypeOK'
  OBVIOUS
<1>1. CASE UNCHANGED vars
  BY <1>1 DEF vars, cp, pd, line, hist, TypeOK
<1> QED
  BY <1>1, SendType, CpReceiveType, CpOtherType, PdType, LineType
     DEF Next, CpRefresh, Disturbance

-----------------------------------------------------------------------------
(* At most once *)

Waiting == 1..Len(toPd)

\* Executed, and not to be executed again.
Executed(c) == execs[c] > 0 /\ c \notin repeatable

\* The copies of a command follow each other.
CopiesFollow ==
    \A i, j \in Waiting : i <= j /\ toPd[i].id = toPd[j].id =>
        \A k \in i..j : toPd[k] = toPd[i]

\* The command being exchanged is the last one on the line.
LatestLast ==
    cmd # NoCmd => \A i \in Waiting : toPd[i].id = cmd.id =>
        /\ toPd[i] = Frame(cmd, txSeq)
        /\ \A j \in i..Len(toPd) : toPd[j].id = cmd.id

\* A copy of a command that was executed comes next, and finds its reply.
ExecutedFirst ==
    \A i \in Waiting : Executed(toPd[i].id) =>
        toPd[i].id = toPd[1].id /\ CacheHit(toPd[i])

\* So will the next copy of the command being exchanged.
CurrentExecuted ==
    cmd # NoCmd /\ Executed(cmd.id) =>
        /\ \A i \in Waiting : toPd[i].id = cmd.id
        /\ CacheHit(Frame(cmd, txSeq))

\* A frame that is not a repeat for the PD restarts the sequence.
ZeroRestarts ==
    /\ \A i \in Waiting : toPd[i].seq = 0 => toPd[i].id \in repeatable
    /\ cmd # NoCmd /\ txSeq = 0 => cmd.id \in repeatable

Line ==
    CopiesFollow /\ LatestLast /\ ExecutedFirst /\ CurrentExecuted /\ ZeroRestarts
IInv == TypeOK /\ Asking /\ Line /\ AtMostOnce

\* A step of the CP that sends nothing.
LEMMA CpLeaves ==
    ASSUME IInv, UNCHANGED <<toPd, pdSeq, cache, execs, repeatable>>,
           cmd' = NoCmd \/ (cmd' = cmd /\ txSeq' = txSeq)
    PROVE  Line' /\ AtMostOnce'
<1>1. /\ \A c : Executed(c)' = Executed(c)
      /\ \A f : CacheHit(f)' = CacheHit(f)
  BY DEF Executed, CacheHit, Repeats, Restarts
<1>2. CopiesFollow' /\ ExecutedFirst'
  BY <1>1 DEF IInv, Line, CopiesFollow, ExecutedFirst, Waiting
<1>3. LatestLast' /\ CurrentExecuted' /\ ZeroRestarts'
  BY <1>1 DEF IInv, Line, LatestLast, CurrentExecuted, ZeroRestarts, Waiting
<1> QED
  BY <1>2, <1>3 DEF IInv, Line, AtMostOnce

\* Frames are appended behind the others or dropped.
LEMMA Appended ==
    ASSUME NEW S, NEW q \in Seq(S), NEW x \in S, NEW r \in {q, Append(q, x)}
    PROVE  /\ Len(q) \in Nat /\ Len(r) \in {Len(q), Len(q) + 1}
           /\ \A i \in 1..Len(q) : r[i] = q[i] /\ i \in 1..Len(r)
           /\ \A i \in 1..Len(r) : i \in 1..Len(q) \/ (i = Len(r) /\ i = Len(q) + 1
                                                          /\ r[i] = x)
  BY AppendProperties

LEMMA RetryKeeps ==
    ASSUME IInv, CpRetry
    PROVE  Line' /\ AtMostOnce'
<1> DEFINE f == Frame(cmd, txSeq)
<1>1. cmd # NoCmd /\ cmd \in [id : Ids, code : Codes] /\ txSeq \in 0..3
  BY DEF CpRetry, IInv, Asking, TypeOK
<1>2. NextSeq(RewoundSeq) = txSeq
  BY <1>1 DEF NextSeq, RewoundSeq
<1>3. /\ cmd' = cmd /\ txSeq' = txSeq /\ toPd' = Put(toPd, f)
      /\ UNCHANGED <<pdSeq, cache, execs, repeatable>>
  BY <1>2 DEF CpRetry, pd, hist
<1>4. f \in FrameOf(Codes) /\ toPd \in Seq(FrameOf(Codes)) /\ f.id = cmd.id
      /\ f.seq = txSeq
  BY <1>1 DEF Frame, FrameOf, IInv, TypeOK
<1>5. /\ \A c : Executed(c)' = Executed(c)
      /\ \A g : CacheHit(g)' = CacheHit(g)
  BY <1>3 DEF Executed, CacheHit, Repeats, Restarts
<1>6. f = Frame(cmd, txSeq)'
  BY <1>3 DEF Frame
<1> HIDE DEF f
<1>7. toPd' \in {toPd, Append(toPd, f)}
  BY <1>3, <1>4, PutFacts
<1>8. /\ Len(toPd) \in Nat /\ Len(toPd') \in {Len(toPd), Len(toPd) + 1}
      /\ \A i \in 1..Len(toPd) : toPd'[i] = toPd[i] /\ i \in 1..Len(toPd')
      /\ \A i \in 1..Len(toPd') :
            i \in 1..Len(toPd) \/ (i = Len(toPd') /\ i = Len(toPd) + 1 /\ toPd'[i] = f)
  BY <1>4, <1>7, Appended
<1>9. \A i \in 1..Len(toPd) : toPd[i].id = f.id =>
          \A j \in i..Len(toPd) : toPd[j].id = f.id /\ toPd[j] = f
  BY <1>1, <1>4, <1>8 DEF IInv, Line, LatestLast, Waiting, f
<1>10. CopiesFollow'
  <2> SUFFICES ASSUME NEW i \in 1..Len(toPd'), NEW j \in 1..Len(toPd'), i <= j,
                      toPd'[i].id = toPd'[j].id, NEW k \in i..j
               PROVE  toPd'[k] = toPd'[i]
    BY DEF CopiesFollow, Waiting
  <2>1. CASE j \in 1..Len(toPd)
    BY <1>8, <2>1 DEF IInv, Line, CopiesFollow, Waiting
  <2>2. CASE j \notin 1..Len(toPd)
    <3>1. j = Len(toPd) + 1 /\ toPd'[j] = f
      BY <1>8, <2>2
    <3>2. CASE i \in 1..Len(toPd)
      <4>1. toPd[i].id = f.id /\ toPd'[i] = toPd[i]
        BY <1>8, <3>1, <3>2
      <4>2. CASE k \in 1..Len(toPd)
        <5>1. k \in i..Len(toPd) /\ i \in i..Len(toPd)
          BY <1>8, <3>2, <4>2
        <5> QED
          BY <1>8, <1>9, <3>2, <4>1, <4>2, <5>1
      <4>3. CASE k \notin 1..Len(toPd)
        <5>1. k = j /\ i \in i..Len(toPd)
          BY <1>8, <3>1, <3>2, <4>3
        <5> QED
          BY <1>9, <3>1, <3>2, <4>1, <5>1
      <4> QED
        BY <4>2, <4>3
    <3>3. CASE i \notin 1..Len(toPd)
      BY <1>8, <3>1, <3>3
    <3> QED
      BY <3>2, <3>3
  <2> QED
    BY <2>1, <2>2
<1>11. LatestLast'
  <2> SUFFICES ASSUME NEW i \in 1..Len(toPd'), toPd'[i].id = f.id
               PROVE  toPd'[i] = f /\ \A j \in i..Len(toPd') : toPd'[j].id = f.id
    BY <1>3, <1>4, <1>6 DEF LatestLast, Waiting
  <2>1. CASE i \in 1..Len(toPd)
    <3>1. toPd[i].id = f.id /\ i \in i..Len(toPd)
      BY <1>8, <2>1
    <3>2. \A j \in i..Len(toPd) : toPd[j] = f
      BY <1>9, <2>1, <3>1
    <3> QED
      BY <1>8, <2>1, <3>1, <3>2
  <2>2. CASE i \notin 1..Len(toPd)
    BY <1>8, <2>2
  <2> QED
    BY <2>1, <2>2
<1>12. ExecutedFirst' /\ CurrentExecuted'
  <2>1. Executed(cmd.id) => /\ \A i \in 1..Len(toPd) : toPd[i].id = f.id
                            /\ CacheHit(f)
    BY <1>1, <1>4 DEF IInv, Line, CurrentExecuted, Waiting, f
  <2>2. CurrentExecuted'
    BY <1>3, <1>4, <1>5, <1>6, <1>8, <2>1 DEF CurrentExecuted, Waiting
  <2>3. ASSUME NEW i \in 1..Len(toPd'), Executed(toPd'[i].id)
        PROVE  toPd'[i].id = toPd'[1].id /\ CacheHit(toPd'[i])
    <3>1. CASE i \in 1..Len(toPd)
      BY <1>8, <2>3, <3>1 DEF IInv, Line, ExecutedFirst, Waiting
    <3>2. CASE i \notin 1..Len(toPd)
      <4>1. toPd'[i] = f /\ 1 \in 1..Len(toPd')
        BY <1>8, <3>2
      <4> QED
        BY <1>4, <1>8, <2>1, <2>3, <4>1
    <3> QED
      BY <3>1, <3>2
  <2> QED
    BY <1>5, <2>2, <2>3 DEF ExecutedFirst, Waiting
<1>13. ZeroRestarts' /\ AtMostOnce'
  BY <1>1, <1>3, <1>4, <1>8 DEF IInv, Line, ZeroRestarts, AtMostOnce, Waiting
<1> QED
  BY <1>10, <1>11, <1>12, <1>13 DEF Line

\* A new command has a name that no frame on the line has.
LEMMA SendKeeps ==
    ASSUME IInv, NEW code \in Codes, CpSend(code)
    PROVE  Line' /\ AtMostOnce'
<1>0. PICK new, c, f : /\ new = FreeId /\ c = [id |-> new, code |-> code]
                       /\ f = Frame(c, NextSeq(cpSeq))
  OBVIOUS
<1>1. /\ new \in Ids /\ new \notin Remembered
  BY <1>0, FreeFacts DEF CpSend, IInv
<1>2. cpSeq \in -1..3 /\ NextSeq(cpSeq) \in 0..3
  BY SeqFacts DEF IInv, TypeOK
<1>3. /\ cmd' = c /\ txSeq' = NextSeq(cpSeq) /\ toPd' = Put(toPd, f)
      /\ execs' = [execs EXCEPT ![new] = 0]
      /\ repeatable' = IF NextSeq(cpSeq) = 0 THEN repeatable \cup {new}
                                             ELSE repeatable \ {new}
      /\ UNCHANGED <<pdSeq, cache>>
  BY <1>0 DEF CpSend, pd
<1>4. /\ f \in FrameOf(Codes) /\ toPd \in Seq(FrameOf(Codes))
      /\ f.id = new /\ f.seq = NextSeq(cpSeq) /\ c.id = new /\ cmd'.id = new
      /\ execs \in [Ids -> 0..2] /\ f = Frame(cmd, txSeq)'
  BY <1>0, <1>1, <1>2, <1>3 DEF Frame, FrameOf, IInv, TypeOK
<1>5. toPd' \in {toPd, Append(toPd, f)}
  BY <1>3, <1>4, PutFacts
<1>6. /\ Len(toPd) \in Nat /\ Len(toPd') \in {Len(toPd), Len(toPd) + 1}
      /\ \A i \in 1..Len(toPd) : toPd'[i] = toPd[i] /\ i \in 1..Len(toPd')
      /\ \A i \in 1..Len(toPd') :
            i \in 1..Len(toPd) \/ (i = Len(toPd') /\ i = Len(toPd) + 1 /\ toPd'[i] = f)
  BY <1>4, <1>5, Appended
<1>7. \A i \in 1..Len(toPd) : toPd[i].id # new /\ toPd[i].id \in Ids
  <2>1. \A i \in 1..Len(toPd) : toPd[i] \in ToSet(toPd) /\ toPd[i] \in FrameOf(Codes)
    BY <1>4 DEF ToSet
  <2> QED
    BY <1>1, <2>1 DEF Remembered, FrameOf
<1>8. /\ ~Executed(new)'
      /\ \A x \in Ids : x # new => (Executed(x)' <=> Executed(x))
      /\ \A g : CacheHit(g)' = CacheHit(g)
  <2>1. ~(execs'[new] > 0)
    BY <1>1, <1>3, <1>4
  <2>2. \A g : CacheHit(g)' = CacheHit(g)
    BY <1>3 DEF CacheHit, Repeats, Restarts
  <2>3. ~Executed(new)'
    BY <2>1 DEF Executed
  <2>4. \A x \in Ids : x # new => (Executed(x)' <=> Executed(x))
    <3> SUFFICES ASSUME NEW x \in Ids, x # new PROVE Executed(x)' <=> Executed(x)
      OBVIOUS
    <3>1. execs'[x] = execs[x] /\ (x \in repeatable' <=> x \in repeatable)
      BY <1>1, <1>3, <1>4
    <3> QED
      BY <3>1 DEF Executed
  <2> QED
    BY <2>2, <2>3, <2>4
<1>9. CopiesFollow'
  <2> SUFFICES ASSUME NEW i \in 1..Len(toPd'), NEW j \in 1..Len(toPd'), i <= j,
                      toPd'[i].id = toPd'[j].id, NEW k \in i..j
               PROVE  toPd'[k] = toPd'[i]
    BY DEF CopiesFollow, Waiting
  <2>1. CASE j \in 1..Len(toPd)
    BY <1>6, <2>1 DEF IInv, Line, CopiesFollow, Waiting
  <2>2. CASE j \notin 1..Len(toPd)
    BY <1>4, <1>6, <1>7, <2>2
  <2> QED
    BY <2>1, <2>2
<1>10. LatestLast'
  BY <1>4, <1>6, <1>7 DEF LatestLast, Waiting
<1>11. ExecutedFirst'
  <2> SUFFICES ASSUME NEW i \in 1..Len(toPd'), NEW g, g = toPd'[i],
                      execs'[g.id] > 0, g.id \notin repeatable'
               PROVE  g.id = toPd'[1].id /\ CacheHit(g)'
    BY DEF ExecutedFirst, Waiting, Executed, CacheHit, Repeats, Restarts
  <2>1. g.id # new
    BY <1>1, <1>3, <1>4
  <2>2. i \in 1..Len(toPd) /\ g = toPd[i] /\ toPd'[1] = toPd[1]
    BY <1>4, <1>6, <2>1
  <2>3. Executed(g.id)
    BY <1>7, <1>8, <2>1, <2>2 DEF Executed
  <2> QED
    BY <1>8, <2>2, <2>3 DEF IInv, Line, ExecutedFirst, Waiting
<1>12. CurrentExecuted'
  <2>1. ~(execs'[cmd'.id] > 0)
    BY <1>1, <1>3, <1>4
  <2> QED
    BY <2>1 DEF CurrentExecuted, Executed
<1>13. ZeroRestarts'
  BY <1>3, <1>4, <1>6, <1>7 DEF IInv, Line, ZeroRestarts, Waiting
<1>14. AtMostOnce'
  BY <1>1, <1>3, <1>4 DEF IInv, AtMostOnce
<1> QED
  BY <1>9, <1>10, <1>11, <1>12, <1>13, <1>14 DEF Line

\* The first frame is taken off the line.
LEMMA Taken ==
    ASSUME IInv, toPd # <<>>, toPd' = Tail(toPd), UNCHANGED <<cmd, txSeq>>
    PROVE  /\ Len(toPd) \in Nat \ {0} /\ Head(toPd) = toPd[1]
           /\ Len(toPd') = Len(toPd) - 1
           /\ \A i \in 1..Len(toPd') : toPd'[i] = toPd[i + 1]
           /\ CopiesFollow' /\ LatestLast'
<1>1. /\ Len(toPd) \in Nat \ {0} /\ Head(toPd) = toPd[1]
      /\ Len(toPd') = Len(toPd) - 1
      /\ \A i \in 1..Len(toPd') : toPd'[i] = toPd[i + 1]
  BY HeadTailProperties DEF IInv, TypeOK
<1>2. CopiesFollow'
  <2> SUFFICES ASSUME NEW i \in 1..Len(toPd'), NEW j \in 1..Len(toPd'), i <= j,
                      toPd'[i].id = toPd'[j].id, NEW k \in i..j
               PROVE  toPd'[k] = toPd'[i]
    BY DEF CopiesFollow, Waiting
  <2>1. i + 1 \in 1..Len(toPd) /\ j + 1 \in 1..Len(toPd) /\ k + 1 \in (i + 1)..(j + 1)
    BY <1>1
  <2>2. toPd[k + 1] = toPd[i + 1]
    BY <1>1, <2>1 DEF IInv, Line, CopiesFollow, Waiting
  <2> QED
    BY <1>1, <2>2
<1>3. LatestLast'
  <2> SUFFICES ASSUME cmd # NoCmd, NEW i \in 1..Len(toPd'), toPd'[i].id = cmd.id
               PROVE  /\ toPd'[i] = Frame(cmd, txSeq)
                      /\ \A j \in i..Len(toPd') : toPd'[j].id = cmd.id
    BY DEF LatestLast, Waiting, Frame
  <2>1. i + 1 \in 1..Len(toPd) /\ \A j \in i..Len(toPd') : j + 1 \in (i + 1)..Len(toPd)
    BY <1>1
  <2> QED
    BY <1>1, <2>1 DEF IInv, Line, LatestLast, Waiting
<1> QED
  BY <1>1, <1>2, <1>3

\* A frame is taken off the line and nothing is executed.
LEMMA TakenKeeps ==
    ASSUME IInv, toPd # <<>>, toPd' = Tail(toPd),
           UNCHANGED <<cmd, txSeq, execs, repeatable>>,
           \/ UNCHANGED <<pdSeq, cache>>
           \/ ~CacheHit(Head(toPd))
    PROVE  Line' /\ AtMostOnce'
<1>1. /\ Len(toPd) \in Nat \ {0} /\ Head(toPd) = toPd[1]
      /\ Len(toPd') = Len(toPd) - 1
      /\ \A i \in 1..Len(toPd') : toPd'[i] = toPd[i + 1] /\ i + 1 \in Waiting
                                /\ 1 \in Waiting
      /\ CopiesFollow' /\ LatestLast'
  BY Taken DEF Waiting
<1>2. \A c : Executed(c)' = Executed(c)
  BY DEF Executed
\* If the cache changes, no command that was executed is left on the line.
<1>3. \/ \A f : CacheHit(f)' = CacheHit(f)
      \/ /\ \A i \in Waiting : ~Executed(toPd[i].id)
         /\ cmd # NoCmd => ~Executed(cmd.id)
  <2>1. CASE UNCHANGED <<pdSeq, cache>>
    BY <2>1 DEF CacheHit, Repeats, Restarts
  <2>2. CASE ~CacheHit(Head(toPd))
    <3>1. \A i \in Waiting : ~Executed(toPd[i].id)
      <4> SUFFICES ASSUME NEW i \in Waiting, Executed(toPd[i].id) PROVE FALSE
        OBVIOUS
      <4>1. toPd[i].id = toPd[1].id /\ 1 \in Waiting
        BY <1>1 DEF IInv, Line, ExecutedFirst, Waiting
      <4> QED
        BY <1>1, <2>2, <4>1 DEF IInv, Line, ExecutedFirst
    <3>2. cmd # NoCmd => ~Executed(cmd.id)
      <4> SUFFICES ASSUME cmd # NoCmd, Executed(cmd.id) PROVE FALSE
        OBVIOUS
      <4>1. 1 \in Waiting /\ toPd[1].id = cmd.id
        BY <1>1 DEF IInv, Line, CurrentExecuted, Waiting
      <4> QED
        BY <3>1, <4>1
    <3> QED
      BY <3>1, <3>2
  <2> QED
    BY <2>1, <2>2
<1>4. ExecutedFirst'
  <2> SUFFICES ASSUME NEW i \in 1..Len(toPd'), NEW g, g = toPd'[i],
                      Executed(g.id)
               PROVE  g.id = toPd'[1].id /\ CacheHit(g)'
    BY DEF ExecutedFirst, Waiting, Executed, CacheHit, Repeats, Restarts
  <2>1. /\ toPd'[i] = toPd[i + 1] /\ i + 1 \in Waiting /\ 1 \in Waiting
        /\ toPd'[1] = toPd[2] /\ 2 \in 1..(i + 1)
    BY <1>1
  <2>2. toPd[i + 1].id = toPd[1].id /\ CacheHit(toPd[i + 1])
    BY <2>1 DEF IInv, Line, ExecutedFirst
  <2>3. toPd[2] = toPd[1]
    BY <1>1, <2>1, <2>2 DEF IInv, Line, CopiesFollow, Waiting
  <2> QED
    BY <1>3, <2>1, <2>2, <2>3
<1>5. CurrentExecuted'
  <2> SUFFICES ASSUME cmd # NoCmd, Executed(cmd.id)
               PROVE  /\ \A i \in 1..Len(toPd') : toPd'[i].id = cmd.id
                      /\ CacheHit(Frame(cmd, txSeq))'
    BY <1>2 DEF CurrentExecuted, Waiting
  <2> QED
    BY <1>1, <1>3 DEF IInv, Line, CurrentExecuted, Frame
<1>6. ZeroRestarts' /\ AtMostOnce'
  BY <1>1 DEF IInv, Line, ZeroRestarts, AtMostOnce, Waiting
<1> QED
  BY <1>1, <1>4, <1>5, <1>6 DEF Line

\* The PD answers a frame; unless it cannot send, the reply is in the cache.
LEMMA AnswerCached ==
    ASSUME IInv, toPd # <<>>, "send" \notin Faults, NEW code, NEW kind, NEW drops,
           PdAnswer(Head(toPd), code, kind, drops)
    PROVE  /\ toPd' = Tail(toPd) /\ pdSeq' = NextSeq(Base(Head(toPd)))
           /\ cache' = [code |-> code,
                        reply |-> Reply(Head(toPd), NextSeq(Base(Head(toPd))), kind)]
  BY DEF PdAnswer, Trouble

LEMMA ExecuteKeeps ==
    ASSUME IInv, "send" \notin Faults, PdExecute
    PROVE  Line' /\ AtMostOnce'
<1>1. PICK f : f = Head(toPd)
  OBVIOUS
<1>2. /\ toPd # <<>> /\ ~CacheHit(f) /\ Expected(f)
      /\ \E kind : \E drops : PdAnswer(f, f.code, kind, drops)
      /\ execs' = [execs EXCEPT ![f.id] = IF @ = 0 THEN 1 ELSE 2]
      /\ UNCHANGED <<cmd, txSeq, repeatable>>
  BY <1>1 DEF PdExecute, cp
<1>3. /\ toPd' = Tail(toPd) /\ pdSeq' = f.seq
      /\ \E kind : cache' = [code |-> f.code, reply |-> Reply(f, f.seq, kind)]
  <2>1. f.seq = NextSeq(Base(f))
    BY <1>2 DEF Expected
  <2> QED
    BY <1>1, <1>2, <2>1, AnswerCached
<1>4. /\ Len(toPd) \in Nat \ {0} /\ f = toPd[1] /\ 1 \in Waiting
      /\ Len(toPd') = Len(toPd) - 1
      /\ \A i \in 1..Len(toPd') : toPd'[i] = toPd[i + 1] /\ i + 1 \in Waiting
      /\ CopiesFollow' /\ LatestLast'
  BY <1>1, <1>2, <1>3, Taken DEF Waiting
<1>5. f \in FrameOf(Codes) /\ f.id \in Ids /\ execs \in [Ids -> 0..2]
  BY <1>1, <1>2, HeadFacts DEF IInv, TypeOK, FrameOf
\* It had not been executed, and neither has any other frame on the line.
<1>6. \A i \in Waiting : ~Executed(toPd[i].id)
  <2> SUFFICES ASSUME NEW i \in Waiting, Executed(toPd[i].id) PROVE FALSE
    OBVIOUS
  <2>1. Executed(toPd[1].id)
    BY DEF IInv, Line, ExecutedFirst
  <2> QED
    BY <1>2, <1>4, <2>1 DEF IInv, Line, ExecutedFirst
\* Its copies now find the reply.
<1>7. f.id \notin repeatable => CacheHit(f)'
  <2>1. f.id \notin repeatable => f.seq # 0
    BY <1>4 DEF IInv, Line, ZeroRestarts
  <2>2. cache' # NoReply /\ cache'.code = f.code
    BY <1>3 DEF NoReply
  <2> QED
    BY <1>3, <2>1, <2>2 DEF CacheHit, Repeats, Restarts
<1>8. ExecutedFirst'
  <2> SUFFICES ASSUME NEW i \in 1..Len(toPd'), NEW g, g = toPd'[i],
                      execs'[g.id] > 0, g.id \notin repeatable
               PROVE  g.id = toPd'[1].id /\ CacheHit(g)'
    BY <1>2 DEF ExecutedFirst, Waiting, Executed, CacheHit, Repeats, Restarts
  <2>1. g = toPd[i + 1] /\ i + 1 \in Waiting /\ toPd'[1] = toPd[2]
        /\ 2 \in 1..(i + 1) /\ i + 1 \in 1..(i + 1)
    BY <1>4
  <2>2. g.id = f.id
    BY <1>2, <1>5, <1>6, <2>1 DEF Executed, IInv, TypeOK
  <2>3. g = f /\ toPd[2] = f
    BY <1>4, <2>1, <2>2 DEF IInv, Line, CopiesFollow, Waiting
  <2> QED
    BY <1>7, <2>1, <2>3
<1>9. CurrentExecuted'
  <2> SUFFICES ASSUME cmd # NoCmd, execs'[cmd.id] > 0, cmd.id \notin repeatable
               PROVE  /\ \A i \in 1..Len(toPd') : toPd'[i].id = cmd.id
                      /\ CacheHit(Frame(cmd, txSeq))'
    BY <1>2 DEF CurrentExecuted, Waiting, Executed
  <2>1. cmd.id = f.id
    <3>1. ~Executed(cmd.id)
      BY <1>4, <1>6 DEF IInv, Line, CurrentExecuted
    <3> QED
      BY <1>2, <1>5, <3>1 DEF Executed, IInv, TypeOK
  <2>2. f = Frame(cmd, txSeq) /\ \A j \in Waiting : toPd[j].id = cmd.id
    BY <1>4, <2>1 DEF IInv, Line, LatestLast, Waiting
  <2>3. f = Frame(cmd', txSeq')
    BY <1>2, <2>2 DEF Frame
  <2> QED
    BY <1>4, <1>7, <2>1, <2>2, <2>3
<1>10. ZeroRestarts' /\ AtMostOnce'
  <2>1. ZeroRestarts'
    BY <1>2, <1>4 DEF IInv, Line, ZeroRestarts, Waiting
  <2>2. execs[f.id] = 0 \/ f.id \in repeatable
    BY <1>4, <1>5, <1>6 DEF Executed
  <2> QED
    BY <1>2, <1>5, <2>1, <2>2 DEF IInv, AtMostOnce
<1> QED
  BY <1>4, <1>8, <1>9, <1>10 DEF Line

\* A restarted PD has nothing on the line and has forgotten the current command.
LEMMA PdRestartKeeps ==
    ASSUME IInv, PdRestart
    PROVE  Line' /\ AtMostOnce'
<1>1. /\ toPd' = <<>> /\ UNCHANGED <<cmd, txSeq, execs>>
      /\ repeatable \subseteq repeatable'
      /\ cmd # NoCmd => cmd.id \in repeatable'
  BY DEF PdRestart, cp
<1>2. Waiting' = {}
  BY <1>1 DEF Waiting
<1>3. CopiesFollow' /\ LatestLast' /\ ExecutedFirst'
  BY <1>2 DEF CopiesFollow, LatestLast, ExecutedFirst
<1>4. CurrentExecuted' /\ ZeroRestarts'
  BY <1>1, <1>2 DEF CurrentExecuted, Executed, ZeroRestarts
<1>5. AtMostOnce'
  BY <1>1 DEF IInv, AtMostOnce
<1> QED
  BY <1>3, <1>4, <1>5 DEF Line

-----------------------------------------------------------------------------
(* The theorems *)

LEMMA Initially == Init => IInv
<1> SUFFICES ASSUME Init PROVE IInv
  OBVIOUS
<1>1. 0 \in 0..MaxRetries /\ 0 \in 0..MaxTrouble
  BY LinkAssumption
<1>2. TypeOK /\ Asking
  <2>1. useScbkd \in BOOLEAN
    BY Zenon DEF Init
  <2>2. state \in States /\ Asking
    BY DEF Init, Asking, States, CodesOf
  <2>3. /\ toPd \in Seq(FrameOf(Codes)) /\ toCp \in Seq(ReplyOf)
        /\ rxRb \in Seq(ReplyOf)
    BY DEF Init
  <2>4. execs \in [Ids -> 0..2] /\ repeatable \in SUBSET Ids
    BY DEF Init
  <2> QED
    BY <1>1, <2>1, <2>2, <2>3, <2>4 DEF Init, TypeOK
<1>3. Waiting = {} /\ cmd = NoCmd
  BY DEF Init, Waiting
<1>4. Line
  BY <1>3 DEF Line, CopiesFollow, LatestLast, ExecutedFirst, CurrentExecuted,
     ZeroRestarts
<1>5. AtMostOnce
  BY DEF Init, AtMostOnce
<1> QED
  BY <1>2, <1>4, <1>5 DEF IInv

\* The types do not depend on what may go wrong.
THEOREM TypeCorrect == Spec => []TypeOK
<1>1. Init => TypeOK /\ Asking
  BY Initially DEF IInv
<1>2. (TypeOK /\ Asking) /\ [Next]_vars => (TypeOK /\ Asking)'
  BY TypeKept, AskingKept
<1> QED
  BY <1>1, <1>2, PTL DEF Spec

LEMMA EveryStepKeeps ==
    ASSUME Faults \cap {"send", "noise"} = {}
    PROVE  IInv /\ [Next]_vars => IInv'
<1> SUFFICES ASSUME IInv, [Next]_vars PROVE IInv'
  OBVIOUS
<1>1. "send" \notin Faults /\ "noise" \notin Faults
  OBVIOUS
<1>2. TypeOK' /\ Asking'
  BY TypeKept, AskingKept DEF IInv
<1>3. CASE \E code \in Codes : CpSend(code)
  BY <1>2, <1>3, SendKeeps DEF IInv
<1>4. CASE CpReceive \/ CpTimeout
  <2>1. /\ UNCHANGED <<toPd, pdSeq, cache, execs, repeatable>>
        /\ cmd' = NoCmd \/ (cmd' = cmd /\ txSeq' = txSeq)
    BY <1>4 DEF CpReceive, CpAnswer, CpCryptogram, CpNak, CpUndecodable, CpSeqMismatch,
       CpTimeout, Settle, pd, hist
  <2> QED
    BY <1>2, <2>1, CpLeaves DEF IInv
<1>5. CASE CpReconnect \/ CpScRetry \/ CpRestart
  <2>1. /\ UNCHANGED <<toPd, pdSeq, cache, execs, repeatable>> /\ cmd' = NoCmd
    BY <1>5 DEF CpReconnect, CpScRetry, CpRestart, ResetInto, Asking, IInv, pd, hist
  <2> QED
    BY <1>2, <2>1, CpLeaves DEF IInv
<1>6. CASE CpRetry
  BY <1>2, <1>6, RetryKeeps DEF IInv
<1>7. CASE PdRepeat \/ LoseCommand
  <2>1. /\ toPd # <<>> /\ toPd' = Tail(toPd)
        /\ UNCHANGED <<cmd, txSeq, execs, repeatable, pdSeq, cache>>
    BY <1>7 DEF PdRepeat, LoseCommand, cp, pd, hist
  <2> QED
    BY <1>2, <2>1, TakenKeeps DEF IInv
<1>8. CASE PdExecute
  BY <1>1, <1>2, <1>8, ExecuteKeeps DEF IInv
<1>9. CASE PdRefuse
  <2>1. /\ toPd # <<>> /\ ~CacheHit(Head(toPd)) /\ toPd' = Tail(toPd)
        /\ UNCHANGED <<cmd, txSeq, execs, repeatable>>
    BY <1>9 DEF PdRefuse, PdAnswer, cp, hist
  <2> QED
    BY <1>2, <2>1, TakenKeeps DEF IInv
<1>10. CASE PdRestart
  BY <1>2, <1>10, PdRestartKeeps DEF IInv
<1>11. CASE LoseReply \/ UNCHANGED vars
  BY <1>2, <1>11, CpLeaves DEF IInv, LoseReply, vars, cp, pd, line, hist
<1>12. ~CpNoise /\ ~PdNoise
  BY <1>1 DEF CpNoise, PdNoise, Trouble
<1> QED
  BY <1>3, <1>4, <1>5, <1>6, <1>7, <1>8, <1>9, <1>10, <1>11, <1>12
     DEF Next, CpRefresh, PdRefresh, Disturbance

\* phy_check_packet() and the reply cache of the PD keep their promise, for any
\* retry budget, with any flush callback, on a line that loses and delays what
\* it likes and with ends that restart: no command is executed twice unless it
\* restarted the sequence or the PD forgot it.
THEOREM ExecutedOnce ==
    ASSUME Faults \cap {"send", "noise"} = {}
    PROVE  Spec => []AtMostOnce
<1>1. IInv => AtMostOnce
  BY DEF IInv
<1> QED
  BY Initially, EveryStepKeeps, <1>1, PTL DEF Spec

-----------------------------------------------------------------------------
(* Whose answer a reply is.  The replies that were not looked at, the one in
   the PD's cache and the commands that still wait form one queue: first what
   is left over from commands the CP is done with, then handshakes that broke
   off, then the current command.  The numbers keep them apart, except that a
   command ONLINE may have number 0.                                         *)

\* The application provides the flush callback, and unknown replies are either
\* not ignored or do not come.
Orderly == Flush /\ (IgnoreUnsolicited => "vendor" \notin Faults)

\* The number a reply must have, and the ones a command may have.
Due == NextSeq(cpSeq)
Fit(s) == pdSeq = s \/ NextSeq(pdSeq) = s

Cached == IF cache = NoReply THEN {} ELSE {cache.reply}
Replies == ToSet(Received) \cup Cached
Items == Replies \cup ToSet(toPd)

Own(x) == x.id = cmd.id
Leftover(x) == ~Own(x) /\ x.code # "CHLNG"
OwnAnswer(r) == Own(r) /\ r.kind # "NAK"

\* x may be ahead of y: the current command comes last, and what is left over
\* comes before a handshake unless it has number 0.
InOrder(x, y) ==
    /\ Own(x) => Own(y)
    /\ x.code = "CHLNG" /\ Leftover(y) => y.seq = 0

\* The pairs of elements of a sequence, the one ahead first.
Ahead(q) == UNION {{<<q[i], q[j]>> : i \in 1..(j - 1)} : j \in DOMAIN q}

Sorted ==
    /\ \A x, y \in ToSet(Received) : <<x, y>> \in Ahead(Received) => InOrder(x, y)
    /\ \A x, y \in ToSet(toPd) : <<x, y>> \in Ahead(toPd) => InOrder(x, y)
    /\ \A x \in ToSet(Received), y \in ToSet(toPd) : InOrder(x, y)
    /\ \A x \in ToSet(Received), c \in Cached : InOrder(x, c)
    /\ \A c \in Cached, y \in ToSet(toPd) : InOrder(c, y)

\* Every reply but a NAK was executed for, and the cached one is the PD's last.
ReplySound ==
    /\ \A r \in Replies :
          /\ r.kind # "NAK" => execs[r.id] > 0
          /\ r.kind = "UNKNOWN" => r.code = "POLL" /\ ~IgnoreUnsolicited
    /\ cache # NoReply =>
          /\ Fit(cache.reply.seq)
          /\ cache.code # cache.reply.code /\ cache.reply.kind # "NAK"
             => cache.reply.seq # 0

\* The CP's numbers.
CpNumbers ==
    /\ cpPhy # "IDLE" => txSeq = Due /\ cmd.code \in CodesOf[state]
    /\ cpPhy = "WAIT" => rxRb = <<>>
    /\ state = "INIT" => cpSeq = -1
    /\ state = "CAPDET" => cpSeq = 0

\* What belongs to the current command.
OwnSound ==
    /\ \A x \in Items : Own(x) => x.code = cmd.code
    /\ \A f \in ToSet(toPd) : Own(f) => f.seq = txSeq
    /\ \A r \in Replies :
          Own(r) => IF r.kind = "NAK" THEN txSeq # 0 ELSE r.seq = txSeq

\* Once it was answered, its copies fit the PD, and they find the answer.
AnsweredSound ==
    cmd.code # "CHLNG" =>
        /\ \A x, y \in ToSet(Received) :
              <<x, y>> \in Ahead(Received) /\ OwnAnswer(x) => y.kind # "NAK"
        /\ \A r \in ToSet(Received) : OwnAnswer(r) =>
              /\ toPd # <<>> => Fit(txSeq)
              /\ cache # NoReply =>
                    cache.code = cmd.code /\ cache.reply.kind # "NAK"

\* What is left over has a number that is not due.
LeftoverSound ==
    /\ \A x \in Items : Leftover(x) => x.seq = 0 \/ Due = 0 \/ NextSeq(x.seq) = Due
    /\ \A x, y \in Items : Leftover(x) /\ Leftover(y) => x.seq = y.seq
    /\ \A r \in Replies : Leftover(r) => r.kind # "NAK"
    /\ \A f \in ToSet(toPd) : Leftover(f) /\ f.seq # 0 => Fit(f.seq)
    /\ cache # NoReply /\ cache.code = "CHLNG" =>
          cache.reply.code = "CHLNG" \/ Own(cache.reply)

Pipe ==
    /\ ReplySound /\ CpNumbers /\ OwnSound
    /\ state # "OFFLINE" => Sorted /\ AnsweredSound
    /\ state = "INIT" => \A x \in ToSet(Received) \cup ToSet(toPd) : Own(x)
    /\ state \notin {"INIT", "OFFLINE"} => LeftoverSound

LEMMA Member ==
    ASSUME NEW S, NEW q \in Seq(S)
    PROVE  \A x : x \in ToSet(q) <=> \E i \in 1..Len(q) : x = q[i]
<1>1. DOMAIN q = 1..Len(q)
  OBVIOUS
<1> QED
  BY <1>1 DEF ToSet

LEMMA AheadMember ==
    ASSUME NEW S, NEW q \in Seq(S), NEW x, NEW y
    PROVE  <<x, y>> \in Ahead(q) <=>
               \E i, j \in 1..Len(q) : i < j /\ x = q[i] /\ y = q[j]
<1>1. DOMAIN q = 1..Len(q) /\ Len(q) \in Nat
  OBVIOUS
<1>2. <<x, y>> \in Ahead(q) <=>
          \E j \in DOMAIN q : \E i \in 1..(j - 1) : <<x, y>> = <<q[i], q[j]>>
  BY DEF Ahead
<1> QED
  BY <1>1, <1>2

LEMMA AheadInside ==
    ASSUME NEW S, NEW q \in Seq(S), NEW x, NEW y, <<x, y>> \in Ahead(q)
    PROVE  x \in ToSet(q) /\ y \in ToSet(q)
<1>1. PICK i, j \in 1..Len(q) : x = q[i] /\ y = q[j]
  BY AheadMember
<1> QED
  BY <1>1, Member

\* What a sequence keeps when elements are taken out of it.
LEMMA AheadFewer ==
    ASSUME NEW S, NEW q \in Seq(S), NEW r \in Seq(S),
           NEW e \in [1..Len(r) -> 1..Len(q)],
           \A k \in 1..Len(r) : r[k] = q[e[k]],
           \A k, l \in 1..Len(r) : k < l => e[k] < e[l]
    PROVE  ToSet(r) \subseteq ToSet(q) /\ Ahead(r) \subseteq Ahead(q)
<1>1. ToSet(r) \subseteq ToSet(q)
  BY Member
<1>2. ASSUME NEW p \in Ahead(r) PROVE p \in Ahead(q)
  <2>1. PICK j \in DOMAIN r : p \in {<<r[i], r[j]>> : i \in 1..(j - 1)}
    BY <1>2 DEF Ahead
  <2>2. PICK i \in 1..(j - 1) : p = <<r[i], r[j]>>
    BY <2>1
  <2>3. i \in 1..Len(r) /\ j \in 1..Len(r) /\ i < j
    BY <2>1, <2>2
  <2>4. p = <<q[e[i]], q[e[j]]>> /\ e[i] < e[j]
        /\ e[i] \in 1..Len(q) /\ e[j] \in 1..Len(q)
    BY <2>2, <2>3
  <2>5. <<q[e[i]], q[e[j]]>> \in Ahead(q)
    BY <2>4, AheadMember
  <2> QED
    BY <2>4, <2>5
<1> QED
  BY <1>1, <1>2

LEMMA AheadNone == ToSet(<<>>) = {} /\ Ahead(<<>>) = {}
  BY DEF ToSet, Ahead

LEMMA AheadTail ==
    ASSUME NEW S, NEW q \in Seq(S), q # <<>>
    PROVE  /\ Head(q) \in ToSet(q) /\ Tail(q) \in Seq(S)
           /\ ToSet(Tail(q)) \subseteq ToSet(q) /\ Ahead(Tail(q)) \subseteq Ahead(q)
           /\ \A y \in ToSet(Tail(q)) : <<Head(q), y>> \in Ahead(q)
<1>1. /\ Tail(q) \in Seq(S) /\ Len(q) \in Nat \ {0} /\ Head(q) = q[1]
      /\ Len(Tail(q)) = Len(q) - 1
      /\ \A k \in 1..Len(Tail(q)) : Tail(q)[k] = q[k + 1]
  BY HeadTailProperties
<1> DEFINE e == [k \in 1..Len(Tail(q)) |-> k + 1]
<1>2. /\ e \in [1..Len(Tail(q)) -> 1..Len(q)]
      /\ \A k \in 1..Len(Tail(q)) : Tail(q)[k] = q[e[k]]
      /\ \A k, l \in 1..Len(Tail(q)) : k < l => e[k] < e[l]
  BY <1>1
<1>3. ToSet(Tail(q)) \subseteq ToSet(q) /\ Ahead(Tail(q)) \subseteq Ahead(q)
  <2> HIDE DEF e
  <2> QED
    BY <1>1, <1>2, AheadFewer
<1>4. Head(q) \in ToSet(q)
  BY <1>1, Member
<1>5. ASSUME NEW y \in ToSet(Tail(q)) PROVE <<Head(q), y>> \in Ahead(q)
  <2>0. \A x : x \in ToSet(Tail(q)) <=>
               \E i \in 1..Len(Tail(q)) : x = Tail(q)[i]
    BY <1>1, Member, Zenon
  <2>1. PICK k \in 1..Len(Tail(q)) : y = Tail(q)[k]
    BY <1>5, <2>0, Zenon
  <2>2. 1 \in 1..Len(q) /\ k + 1 \in 1..Len(q) /\ 1 < k + 1
        /\ Head(q) = q[1] /\ y = q[k + 1]
    BY <1>1, <2>1
  <2> QED
    BY <2>2, AheadMember
<1> QED
  BY <1>1, <1>3, <1>4, <1>5

LEMMA AheadPut ==
    ASSUME NEW S, NEW q \in Seq(S), NEW x \in S, NEW r \in {q, Append(q, x)}
    PROVE  /\ ToSet(r) \subseteq ToSet(q) \cup {x}
           /\ Ahead(r) \subseteq Ahead(q) \cup (ToSet(q) \X {x})
<1>1. r \in Seq(S)
  OBVIOUS
<1>2. /\ Len(q) \in Nat /\ Len(r) \in Nat
      /\ \A i \in 1..Len(r) : \/ i \in 1..Len(q) /\ r[i] = q[i]
                              \/ i > Len(q) /\ i = Len(r) /\ r[i] = x
  BY AppendProperties
<1>3. ToSet(r) \subseteq ToSet(q) \cup {x}
  <2> SUFFICES ASSUME NEW y \in ToSet(r) PROVE y \in ToSet(q) \cup {x}
    OBVIOUS
  <2>1. PICK i \in 1..Len(r) : y = r[i]
    BY <1>1, Member
  <2>2. i \in 1..Len(q) /\ y = q[i] => y \in ToSet(q)
    BY Member
  <2> QED
    BY <1>2, <2>1, <2>2
<1>4. ASSUME NEW p \in Ahead(r) PROVE p \in Ahead(q) \cup (ToSet(q) \X {x})
  <2>1. PICK j \in DOMAIN r : p \in {<<r[i], r[j]>> : i \in 1..(j - 1)}
    BY <1>4 DEF Ahead
  <2>2. PICK i \in 1..(j - 1) : p = <<r[i], r[j]>>
    BY <2>1
  <2>3. i \in 1..Len(r) /\ j \in 1..Len(r) /\ i < j
    BY <1>1, <2>1, <2>2
  <2>4. i \in 1..Len(q) /\ r[i] = q[i]
    BY <1>2, <2>3
  <2>5. CASE j \in 1..Len(q) /\ r[j] = q[j]
    <3>1. <<q[i], q[j]>> \in Ahead(q)
      BY <2>3, <2>4, <2>5, AheadMember
    <3> QED
      BY <2>2, <2>4, <2>5, <3>1
  <2>6. CASE r[j] = x
    <3>1. q[i] \in ToSet(q)
      BY <2>4, Member
    <3> QED
      BY <2>2, <2>4, <2>6, <3>1
  <2> QED
    BY <1>2, <2>3, <2>5, <2>6
<1> QED
  BY <1>3, <1>4

\* A reply is lost behind what was already read.
LEMMA AheadDropped ==
    ASSUME NEW S, NEW p \in Seq(S), NEW q \in Seq(S), q # <<>>
    PROVE  /\ ToSet(p \o Tail(q)) \subseteq ToSet(p \o q)
           /\ Ahead(p \o Tail(q)) \subseteq Ahead(p \o q)
<1> DEFINE r == p \o Tail(q)
           e == [k \in 1..Len(r) |-> IF k <= Len(p) THEN k ELSE k + 1]
<1>1. /\ Tail(q) \in Seq(S) /\ Len(q) \in Nat \ {0} /\ Len(Tail(q)) = Len(q) - 1
      /\ \A k \in 1..Len(Tail(q)) : Tail(q)[k] = q[k + 1]
  BY HeadTailProperties
<1>2. /\ r \in Seq(S) /\ p \o q \in Seq(S) /\ Len(p) \in Nat
      /\ Len(p \o q) = Len(p) + Len(q) /\ Len(r) = Len(p) + Len(q) - 1
      /\ \A k \in 1..Len(p \o q) :
            (p \o q)[k] = IF k <= Len(p) THEN p[k] ELSE q[k - Len(p)]
      /\ \A k \in 1..Len(r) :
            r[k] = IF k <= Len(p) THEN p[k] ELSE Tail(q)[k - Len(p)]
  BY <1>1, ConcatProperties
<1>3. e \in [1..Len(r) -> 1..Len(p \o q)]
  <2> HIDE DEF r
  <2> QED
    BY <1>1, <1>2
<1>4. ASSUME NEW k \in 1..Len(r) PROVE r[k] = (p \o q)[e[k]]
  <2>1. CASE k <= Len(p)
    BY <1>1, <1>2, <2>1
  <2>2. CASE k > Len(p)
    <3>1. k - Len(p) \in 1..Len(Tail(q)) /\ e[k] = k + 1 /\ k + 1 \in 1..Len(p \o q)
      BY <1>1, <1>2, <2>2
    <3>2. r[k] = q[(k - Len(p)) + 1] /\ (p \o q)[k + 1] = q[(k + 1) - Len(p)]
      BY <1>1, <1>2, <2>2, <3>1
    <3>3. (k - Len(p)) + 1 = (k + 1) - Len(p)
      BY <1>2
    <3> QED
      BY <3>1, <3>2, <3>3
  <2> QED
    BY <1>2, <2>1, <2>2
<1>5. \A k, l \in 1..Len(r) : k < l => e[k] < e[l]
  BY <1>2
<1> HIDE DEF r, e
<1>6. ToSet(r) \subseteq ToSet(p \o q) /\ Ahead(r) \subseteq Ahead(p \o q)
  BY <1>2, <1>3, <1>4, <1>5, AheadFewer
<1> QED
  BY <1>6 DEF r

-----------------------------------------------------------------------------
(* The queue through the steps *)

LEMMA ItemTypes ==
    ASSUME TypeOK
    PROVE  /\ toPd \in Seq(FrameOf(Codes)) /\ Received \in Seq(ReplyOf)
           /\ ToSet(toPd) \subseteq FrameOf(Codes)
           /\ Replies \subseteq ReplyOf
<1>1. toPd \in Seq(FrameOf(Codes)) /\ Received \in Seq(ReplyOf)
  BY ReceivedFacts DEF TypeOK
<1>2. Cached \subseteq ReplyOf
  BY DEF TypeOK, Cached
<1> QED
  BY <1>1, <1>2, ToSetFacts DEF Replies

LEMMA ItemNames == TypeOK => \A x \in Items : x.id \in Ids /\ x.id # NoId
  BY ItemTypes, LinkAssumption DEF Items, ReplyOf, FrameOf

\* No reply belongs to a CP that is not waiting for one.
LEMMA NothingOwn ==
    ASSUME TypeOK, cmd = NoCmd
    PROVE  \A x \in Items : ~Own(x)
  BY ItemNames DEF Own, NoCmd

\* Frames or replies are lost, or the PD is started again.
Fewer ==
    /\ ToSet(Received)' \subseteq ToSet(Received)
    /\ Ahead(Received)' \subseteq Ahead(Received)
    /\ ToSet(toPd)' \subseteq ToSet(toPd)
    /\ Ahead(toPd)' \subseteq Ahead(toPd)
    /\ toPd = <<>> => toPd' = <<>>
    /\ cache' = cache \/ cache' = NoReply
    /\ pdSeq' = pdSeq \/ (toPd' = <<>> /\ cache' = NoReply)

LEMMA FewerKeeps ==
    ASSUME TypeOK, Pipe, Fewer, CpNumbers',
           UNCHANGED <<state, cmd, cpSeq, txSeq, execs>>
    PROVE  Pipe'
<1>1. /\ Cached' \subseteq Cached /\ Replies' \subseteq Replies
      /\ Items' \subseteq Items
  BY DEF Fewer, Cached, Replies, Items
<1>2. /\ Due' = Due /\ \A x : Own(x)' = Own(x) /\ Leftover(x)' = Leftover(x)
      /\ \A x : OwnAnswer(x)' = OwnAnswer(x)
      /\ \A x, y : InOrder(x, y)' = InOrder(x, y)
  BY DEF Due, Own, Leftover, OwnAnswer, InOrder
<1>3. cache' # NoReply => cache' = cache /\ \A s : Fit(s)' = Fit(s)
  BY DEF Fewer, Fit
<1>4. /\ toPd' # <<>> => toPd # <<>> /\ \A s : Fit(s)' = Fit(s)
      /\ toPd' = <<>> => ToSet(toPd)' = {}
  BY AheadNone DEF Fewer, Fit
<1>5. ReplySound'
  BY <1>1, <1>3 DEF Pipe, ReplySound
<1>6. OwnSound'
  BY <1>1, <1>2 DEF Pipe, OwnSound, Fewer
<1>7. state # "OFFLINE" => Sorted'
  BY <1>1, <1>2 DEF Pipe, Sorted, Fewer
<1>8. state # "OFFLINE" => AnsweredSound'
  BY <1>2, <1>3, <1>4 DEF Pipe, AnsweredSound, Fewer
<1>9. state = "INIT" => \A x \in (ToSet(Received) \cup ToSet(toPd))' : Own(x)'
  BY <1>2 DEF Pipe, Fewer
<1>10. state \notin {"INIT", "OFFLINE"} => LeftoverSound'
  <2> SUFFICES ASSUME LeftoverSound PROVE LeftoverSound'
    BY DEF Pipe
  <2>1. \A x \in Items' : Leftover(x)' => x.seq = 0 \/ Due' = 0 \/ NextSeq(x.seq) = Due'
    BY <1>1, <1>2 DEF LeftoverSound
  <2>2. \A x, y \in Items' : Leftover(x)' /\ Leftover(y)' => x.seq = y.seq
    BY <1>1, <1>2 DEF LeftoverSound
  <2>3. \A r \in Replies' : Leftover(r)' => r.kind # "NAK"
    BY <1>1, <1>2 DEF LeftoverSound
  <2>4. \A f \in ToSet(toPd)' : Leftover(f)' /\ f.seq # 0 => Fit(f.seq)'
    BY <1>2, <1>4 DEF LeftoverSound, Fewer
  <2>5. cache' # NoReply /\ cache'.code = "CHLNG" =>
            cache'.reply.code = "CHLNG" \/ Own(cache.reply)'
    BY <1>2, <1>3 DEF LeftoverSound, Own
  <2> QED
    BY <2>1, <2>2, <2>3, <2>4, <2>5 DEF LeftoverSound
<1> QED
  BY <1>5, <1>6, <1>7, <1>8, <1>9, <1>10 DEF Pipe

LEMMA LossFewer ==
    ASSUME TypeOK, LoseReply \/ LoseCommand \/ PdNoise \/ PdRestart \/ UNCHANGED vars
    PROVE  Fewer /\ UNCHANGED cp /\ UNCHANGED execs
<1>1. UNCHANGED cp /\ UNCHANGED execs
  BY DEF LoseReply, LoseCommand, PdNoise, PdRestart, vars, cp, hist
<1>2. CASE LoseReply
  <2>1. /\ Received' = rxRb \o Tail(toCp) /\ toCp # <<>>
        /\ UNCHANGED <<toPd, pdSeq, cache>>
    BY <1>2 DEF LoseReply, Received, cp, pd
  <2>2. rxRb \in Seq(ReplyOf) /\ toCp \in Seq(ReplyOf)
    BY DEF TypeOK
  <2>3. /\ ToSet(rxRb \o Tail(toCp)) \subseteq ToSet(rxRb \o toCp)
        /\ Ahead(rxRb \o Tail(toCp)) \subseteq Ahead(rxRb \o toCp)
    BY <2>1, <2>2, AheadDropped
  <2> QED
    BY <1>1, <2>1, <2>3 DEF Fewer, Received
<1>3. CASE LoseCommand \/ PdNoise
  <2>1. /\ toPd # <<>> /\ toPd' = Tail(toPd) /\ Received' = Received
        /\ pdSeq' = pdSeq /\ cache' \in {cache, NoReply}
    BY <1>1, <1>3 DEF LoseCommand, PdNoise, Received, cp, pd
  <2>2. /\ ToSet(Tail(toPd)) \subseteq ToSet(toPd)
        /\ Ahead(Tail(toPd)) \subseteq Ahead(toPd)
    BY <2>1, AheadTail, ItemTypes
  <2> QED
    BY <1>1, <2>1, <2>2 DEF Fewer
<1>4. CASE PdRestart \/ UNCHANGED vars
  <2>1. /\ Received' = Received /\ cache' \in {cache, NoReply}
        /\ toPd' = toPd \/ toPd' = <<>>
        /\ pdSeq' = pdSeq \/ (toPd' = <<>> /\ cache' = NoReply)
    BY <1>1, <1>4 DEF PdRestart, Received, vars, cp, pd, line
  <2> QED
    BY <1>1, <2>1, AheadNone DEF Fewer
<1> QED
  BY <1>2, <1>3, <1>4

LEMMA LossKeeps ==
    ASSUME TypeOK, Pipe,
           LoseReply \/ LoseCommand \/ PdNoise \/ PdRestart \/ UNCHANGED vars
    PROVE  Pipe'
<1>1. Fewer /\ UNCHANGED <<state, cmd, cpPhy, cpSeq, txSeq, rxRb, execs>>
  BY LossFewer DEF cp
<1>2. CpNumbers'
  BY <1>1 DEF Pipe, CpNumbers, Due
<1> QED
  BY <1>1, <1>2, FewerKeeps

\* The PD takes the frame f and sends x, or cannot.
Emits(f, x) ==
    /\ toPd # <<>> /\ f \in ToSet(toPd)
    /\ ToSet(toPd)' \subseteq ToSet(toPd) /\ Ahead(toPd)' \subseteq Ahead(toPd)
    /\ \A y \in ToSet(toPd)' : <<f, y>> \in Ahead(toPd)
    /\ ToSet(Received)' \subseteq ToSet(Received) \cup {x}
    /\ Ahead(Received)' \subseteq Ahead(Received) \cup (ToSet(Received) \X {x})
    /\ UNCHANGED cp

LEMMA EmitFacts ==
    ASSUME TypeOK, toPd # <<>>, toPd' = Tail(toPd), NEW x \in ReplyOf,
           toCp' = Put(toCp, x) \/ toCp' = toCp, UNCHANGED cp
    PROVE  Emits(Head(toPd), x)
<1>1. toPd \in Seq(FrameOf(Codes)) /\ Received \in Seq(ReplyOf)
      /\ rxRb \in Seq(ReplyOf) /\ toCp \in Seq(ReplyOf)
  BY ItemTypes DEF TypeOK
<1>2. rxRb' = rxRb /\ toCp' \in {toCp, Append(toCp, x)}
  BY <1>1, PutFacts DEF cp
<1>3. rxRb \o Append(toCp, x) = Append(rxRb \o toCp, x)
  BY <1>1
<1>4. Received' \in {Received, Append(Received, x)}
  BY <1>2, <1>3 DEF Received
<1> HIDE DEF Received
<1>5. /\ ToSet(Received') \subseteq ToSet(Received) \cup {x}
      /\ Ahead(Received') \subseteq Ahead(Received) \cup (ToSet(Received) \X {x})
  BY <1>1, <1>4, AheadPut
<1>6. /\ Head(toPd) \in ToSet(toPd)
      /\ ToSet(Tail(toPd)) \subseteq ToSet(toPd)
      /\ Ahead(Tail(toPd)) \subseteq Ahead(toPd)
      /\ \A y \in ToSet(Tail(toPd)) : <<Head(toPd), y>> \in Ahead(toPd)
  BY <1>1, AheadTail
<1> QED
  BY <1>5, <1>6 DEF Emits

\* What does not depend on the PD.
LEMMA EmitLeaves ==
    ASSUME Pipe, UNCHANGED cp
    PROVE  /\ CpNumbers' /\ Due' = Due
           /\ UNCHANGED <<state, cmd, cpPhy, cpSeq, txSeq, rxRb>>
           /\ \A y : Own(y)' = Own(y) /\ Leftover(y)' = Leftover(y)
                     /\ OwnAnswer(y)' = OwnAnswer(y)
           /\ \A y, z : InOrder(y, z)' = InOrder(y, z)
<1>1. UNCHANGED <<state, cmd, cpPhy, cpSeq, txSeq, rxRb>>
  BY DEF cp
<1>2. CpNumbers' /\ Due' = Due
  BY <1>1 DEF Pipe, CpNumbers, Due
<1> QED
  BY <1>1, <1>2 DEF Own, Leftover, OwnAnswer, InOrder

LEMMA EmitSorted ==
    ASSUME TypeOK, Pipe, NEW f, NEW x, Emits(f, x), Cached' \subseteq Cached \cup {x},
           Sorted,
           \A y \in ToSet(Received) : InOrder(y, x),
           \A c \in Cached' \cap Cached : InOrder(x, c),
           \A y \in ToSet(toPd)' : InOrder(x, y),
           InOrder(x, x)
    PROVE  Sorted'
<1>1. \A y, z : InOrder(y, z)' = InOrder(y, z)
  BY EmitLeaves DEF Emits
<1>2. \A y, z \in ToSet(Received)' :
          <<y, z>> \in Ahead(Received)' => InOrder(y, z)
  <2> SUFFICES ASSUME NEW y \in ToSet(Received)', NEW z \in ToSet(Received)',
                      <<y, z>> \in Ahead(Received)'
               PROVE  InOrder(y, z)
    OBVIOUS
  <2>1. <<y, z>> \in Ahead(Received) \/ (y \in ToSet(Received) /\ z = x)
    BY DEF Emits
  <2>2. CASE y \in ToSet(Received) /\ z = x
    BY <2>2
  <2>3. CASE <<y, z>> \in Ahead(Received)
    <3>1. y \in ToSet(Received) /\ z \in ToSet(Received)
      BY <2>3, ItemTypes, AheadInside
    <3> QED
      BY <2>3, <3>1 DEF Sorted
  <2> QED
    BY <2>1, <2>2, <2>3
<1>3. \A y, z \in ToSet(toPd)' : <<y, z>> \in Ahead(toPd)' => InOrder(y, z)
  BY DEF Emits, Sorted
<1>4. \A y \in ToSet(Received)', z \in ToSet(toPd)' : InOrder(y, z)
  BY DEF Emits, Sorted
<1>5. \A y \in ToSet(Received)', c \in Cached' : InOrder(y, c)
  BY DEF Emits, Sorted
<1>6. \A c \in Cached', z \in ToSet(toPd)' : InOrder(c, z)
  BY DEF Emits, Sorted
<1> QED
  BY <1>1, <1>2, <1>3, <1>4, <1>5, <1>6 DEF Sorted

LEMMA ExpectedFacts ==
    ASSUME TypeOK, NEW f \in FrameOf(Codes)
    PROVE  /\ Expected(f) <=> f.seq = 0 \/ Fit(f.seq)
           /\ ~Expected(f) => Base(f) = pdSeq
           /\ NextSeq(Base(f)) \in 0..3
<1>1. f.seq \in 0..3 /\ pdSeq \in -1..3
  BY DEF FrameOf, TypeOK
<1>2. CASE f.seq = 0
  BY <1>2 DEF Expected, Base, Restarts, NextSeq
<1>3. CASE f.seq # 0 /\ f.seq = pdSeq
  <2>1. Base(f) = Rollback(pdSeq) /\ NextSeq(Rollback(pdSeq)) = pdSeq
    BY <1>1, <1>3 DEF Base, Restarts, Repeats, NextSeq, Rollback
  <2> QED
    BY <1>1, <1>3, <2>1 DEF Expected, Fit
<1>4. CASE f.seq # 0 /\ f.seq # pdSeq
  <2>1. Base(f) = pdSeq
    BY <1>4 DEF Base, Restarts, Repeats
  <2> QED
    BY <1>1, <1>4, <2>1, SeqFacts DEF Expected, Fit
<1> QED
  BY <1>2, <1>3, <1>4

LEMMA RepeatPipe ==
    ASSUME TypeOK, Asking, Pipe, PdRepeat
    PROVE  Pipe'
<1>1. PICK f, x : f = Head(toPd) /\ x = cache.reply
  OBVIOUS
<1>2. /\ toPd # <<>> /\ CacheHit(f) /\ toPd' = Tail(toPd) /\ cache # NoReply
      /\ toCp' = Put(toCp, x) /\ UNCHANGED <<cp, pdSeq, cache, execs>>
  BY <1>1 DEF PdRepeat, CacheHit, pd, hist
<1>3. x \in ReplyOf /\ x \in Cached /\ Cached = {x} /\ x \in Replies
  BY <1>1, <1>2 DEF TypeOK, Cached, Replies
<1>4. Emits(f, x)
  BY <1>1, <1>2, <1>3, EmitFacts
<1>5. /\ CpNumbers' /\ Due' = Due
      /\ UNCHANGED <<state, cmd, cpPhy, cpSeq, txSeq, rxRb>>
      /\ \A y : Own(y)' = Own(y) /\ Leftover(y)' = Leftover(y)
                /\ OwnAnswer(y)' = OwnAnswer(y)
      /\ \A y, z : InOrder(y, z)' = InOrder(y, z)
      /\ \A s : Fit(s)' = Fit(s)
      /\ Cached' = Cached
  BY <1>2, EmitLeaves DEF Fit, Cached
<1>6. Replies' \subseteq Replies /\ Items' \subseteq Items
  BY <1>3, <1>4, <1>5 DEF Replies, Items, Emits
<1>7. ReplySound'
  BY <1>2, <1>5, <1>6 DEF Pipe, ReplySound
<1>8. OwnSound'
  BY <1>4, <1>5, <1>6 DEF Pipe, OwnSound, Emits
<1>9. ASSUME state # "OFFLINE" PROVE Sorted' /\ AnsweredSound'
  <2>1. Sorted /\ AnsweredSound
    BY <1>9 DEF Pipe
  <2>2. Sorted'
    <3>1. InOrder(x, x)
      BY DEF InOrder, Leftover
    <3> QED
      BY <1>3, <1>4, <1>5, <2>1, <3>1, EmitSorted DEF Sorted, Emits
  <2>3. ASSUME cmd.code # "CHLNG",
               NEW y \in ToSet(Received)', NEW z \in ToSet(Received)',
               <<y, z>> \in Ahead(Received)', OwnAnswer(y)
        PROVE  z.kind # "NAK"
    <3>1. CASE <<y, z>> \in Ahead(Received)
      <4>1. y \in ToSet(Received) /\ z \in ToSet(Received)
        BY <3>1, ItemTypes, AheadInside
      <4> QED
        BY <2>1, <2>3, <3>1, <4>1 DEF AnsweredSound
    <3>2. CASE y \in ToSet(Received) /\ z = x
      BY <1>1, <1>2, <2>1, <2>3, <3>2 DEF AnsweredSound
    <3> QED
      BY <1>4, <2>3, <3>1, <3>2 DEF Emits
  <2>4. ASSUME cmd.code # "CHLNG", NEW r \in ToSet(Received)', OwnAnswer(r)
        PROVE  Fit(txSeq) /\ cache.code = cmd.code /\ cache.reply.kind # "NAK"
    <3>1. CASE r \in ToSet(Received)
      BY <1>2, <2>1, <2>4, <3>1 DEF AnsweredSound
    <3>2. CASE r = x
      <4>1. Own(f) /\ f \in ToSet(toPd)
        BY <1>3, <1>4, <2>1, <2>4, <3>2 DEF Sorted, InOrder, OwnAnswer, Emits
      <4>2. f.code = cmd.code /\ cache.code = f.code
        BY <1>2, <4>1 DEF Pipe, OwnSound, Items, CacheHit
      <4>3. x.seq = txSeq /\ Fit(x.seq)
        BY <1>1, <1>2, <1>3, <2>4, <3>2 DEF Pipe, OwnSound, OwnAnswer, ReplySound
      <4> QED
        BY <1>1, <2>4, <3>2, <4>2, <4>3 DEF OwnAnswer
    <3> QED
      BY <1>4, <2>4, <3>1, <3>2 DEF Emits
  <2> QED
    BY <1>2, <1>5, <2>2, <2>3, <2>4 DEF AnsweredSound
\* A number 0 is never answered from the cache.
<1>10. ASSUME state = "INIT", NEW y \in (ToSet(Received) \cup ToSet(toPd))'
       PROVE  Own(y)
  <2>1. Own(f) /\ f \in ToSet(toPd) /\ f \in FrameOf(Codes)
    BY <1>4, <1>10, ItemTypes DEF Pipe, Emits
  <2>2. cmd # NoCmd
    BY <2>1, NothingOwn DEF Items
  <2>3. txSeq = Due /\ cpSeq = -1
    BY <1>10, <2>2 DEF Asking, Pipe, CpNumbers
  <2>4. f.seq = 0
    BY <2>1, <2>3 DEF Pipe, OwnSound, Due, NextSeq
  <2> QED
    BY <1>2, <2>4 DEF CacheHit, Repeats, Restarts
<1>11. ASSUME state \notin {"INIT", "OFFLINE"} PROVE LeftoverSound'
  <2>1. LeftoverSound
    BY <1>11 DEF Pipe
  <2>2. \A g \in ToSet(toPd)' : g \in ToSet(toPd)
    BY <1>4 DEF Emits
  <2> QED
    BY <1>2, <1>5, <1>6, <2>1, <2>2 DEF LeftoverSound
<1> QED
  BY <1>5, <1>7, <1>8, <1>9, <1>10, <1>11 DEF Pipe

\* The PD answers f with x, which it keeps under `code` unless it cannot send.
Answers(f, x, code, drops) ==
    /\ Emits(f, x) /\ f \in FrameOf(Codes) /\ x \in ReplyOf
    /\ x.id = f.id /\ x.code = f.code /\ x.seq = NextSeq(Base(f))
    /\ Fit(x.seq)' /\ Cached' \subseteq {x}
    /\ cache' # NoReply =>
          /\ cache'.reply = x
          /\ \/ cache'.code = code
             \/ cache # NoReply /\ cache'.code = cache.code /\ ~drops
    /\ \/ ToSet(Received)' \subseteq ToSet(Received)
       \/ cache' # NoReply /\ cache'.code = code

LEMMA AnswerFacts ==
    ASSUME TypeOK, Pipe, toPd # <<>>, NEW kind \in Kinds, NEW code, NEW drops,
           PdAnswer(Head(toPd), code, kind, drops), UNCHANGED cp
    PROVE  \E x \in ReplyOf : x.kind = kind /\ Answers(Head(toPd), x, code, drops)
<1>1. PICK f, x : f = Head(toPd) /\ x = Reply(f, NextSeq(Base(f)), kind)
  OBVIOUS
<1>2. f \in FrameOf(Codes) /\ NextSeq(Base(f)) \in 0..3 /\ Base(f) \in -1..3
  BY <1>1, HeadFacts
<1>3. /\ x \in ReplyOf /\ x.id = f.id /\ x.code = f.code /\ x.kind = kind
      /\ x.seq = NextSeq(Base(f))
  BY <1>1, <1>2 DEF Reply, ReplyOf, FrameOf
<1>4. /\ toPd' = Tail(toPd)
      /\ \/ /\ toCp' = Put(toCp, x) /\ cache' = [code |-> code, reply |-> x]
            /\ pdSeq' = x.seq
         \/ /\ toCp' = toCp /\ pdSeq' = Base(f)
            /\ \/ cache' = NoReply
               \/ cache # NoReply /\ ~drops /\ cache' = [cache EXCEPT !.reply = x]
  BY <1>1, <1>3 DEF PdAnswer
<1>5. Emits(f, x)
  BY <1>1, <1>3, <1>4, EmitFacts
<1>6. Fit(x.seq)'
  BY <1>3, <1>4 DEF Fit
<1>7. cache' # NoReply =>
          /\ cache'.reply = x
          /\ \/ cache'.code = code
             \/ cache # NoReply /\ cache'.code = cache.code /\ ~drops
  BY <1>4 DEF TypeOK
<1>8. \/ ToSet(Received)' \subseteq ToSet(Received)
      \/ cache' # NoReply /\ cache'.code = code
  <2>1. toCp' = toCp => Received' = Received
    BY DEF Received, cp
  <2>2. [code |-> code, reply |-> x] # NoReply
    BY DEF NoReply
  <2> QED
    BY <1>4, <2>1, <2>2
<1>9. Cached' \subseteq {x}
  BY <1>7 DEF Cached
<1>10. Answers(f, x, code, drops)
  BY <1>2, <1>3, <1>5, <1>6, <1>7, <1>8, <1>9 DEF Answers
<1> QED
  BY <1>1, <1>3, <1>10

\* What does not depend on whether f is executed.
LEMMA AnswerKeeps ==
    ASSUME TypeOK, Pipe, NEW f, NEW x, NEW code, NEW drops,
           Answers(f, x, code, drops),
           x.kind = "NAK" => ~Leftover(f) /\ f.seq # 0,
           x.kind # "NAK" => x.seq = f.seq
    PROVE  /\ OwnSound'
           /\ state # "OFFLINE" => Sorted'
           /\ state = "INIT" =>
                 \A y \in (ToSet(Received) \cup ToSet(toPd))' : Own(y)'
<1>1. /\ Emits(f, x) /\ f \in ToSet(toPd) /\ f \in Items
      /\ x.id = f.id /\ x.code = f.code
      /\ \A y : Own(y)' = Own(y) /\ Leftover(y)' = Leftover(y)
      /\ UNCHANGED <<state, cmd, txSeq>>
  BY EmitLeaves DEF Answers, Emits, Items
<1>2. /\ Replies' \subseteq Replies \cup {x} /\ Items' \subseteq Items \cup {x}
      /\ ToSet(toPd)' \subseteq ToSet(toPd)
      /\ ToSet(Received)' \subseteq ToSet(Received) \cup {x}
  BY DEF Answers, Emits, Replies, Items
<1>3. Own(x) <=> Own(f)
  BY <1>1 DEF Own
<1>4. OwnSound'
  <2>1. Own(x) => /\ x.code = cmd.code
                  /\ IF x.kind = "NAK" THEN txSeq # 0 ELSE x.seq = txSeq
    BY <1>1, <1>3 DEF Pipe, OwnSound
  <2> QED
    BY <1>1, <1>2, <2>1 DEF Pipe, OwnSound
<1>5. ASSUME state # "OFFLINE" PROVE Sorted'
  <2>1. Sorted
    BY <1>5 DEF Pipe
  <2>2. Leftover(x) => Leftover(f) /\ x.seq = f.seq
    BY <1>1, <1>3 DEF Leftover
  <2>3. \A y \in ToSet(Received) : InOrder(y, x)
    BY <1>1, <1>3, <2>1, <2>2 DEF Sorted, InOrder
  <2>4. \A y \in ToSet(toPd)' : InOrder(x, y)
    BY <1>1, <1>2, <1>3, <2>1 DEF Sorted, InOrder, Emits
  <2>5. InOrder(x, x)
    BY DEF InOrder, Leftover
  <2>6. Cached' \subseteq Cached \cup {x} /\ \A c \in Cached' \cap Cached : InOrder(x, c)
    BY <2>5 DEF Answers
  <2> QED
    BY <1>1, <2>1, <2>3, <2>4, <2>5, <2>6, EmitSorted
<1>6. ASSUME state = "INIT", NEW y \in (ToSet(Received) \cup ToSet(toPd))'
      PROVE  Own(y)
  BY <1>1, <1>2, <1>3, <1>6 DEF Pipe
<1> QED
  BY <1>1, <1>4, <1>5, <1>6

\* A command that fits is executed.
LEMMA ExecutePipe ==
    ASSUME Orderly, TypeOK, Pipe, PdExecute
    PROVE  Pipe'
<1>1. PICK f, drops : f = Head(toPd)
                      /\ drops = (Restarts(f) \/ Repeats(f) \/ f.code = "CHLNG")
  OBVIOUS
<1>2. /\ toPd # <<>> /\ Expected(f) /\ ~CacheHit(f)
      /\ execs' = [execs EXCEPT ![f.id] = IF @ = 0 THEN 1 ELSE 2]
      /\ UNCHANGED cp
      /\ \E kind \in {"ANSWER", "UNKNOWN"} :
            /\ PdAnswer(f, f.code, kind, drops)
            /\ kind = "UNKNOWN" => f.code = "POLL" /\ "vendor" \in Faults
  BY <1>1, Zenon DEF PdExecute
<1>3. PICK x \in ReplyOf : /\ Answers(f, x, f.code, drops)
                           /\ x.kind \in {"ANSWER", "UNKNOWN"}
                           /\ x.kind = "UNKNOWN" => f.code = "POLL" /\ "vendor" \in Faults
  BY <1>1, <1>2, AnswerFacts DEF Kinds
<1>4. /\ f \in FrameOf(Codes) /\ f \in ToSet(toPd) /\ f \in Items /\ x.seq = f.seq
      /\ x.id = f.id /\ x.code = f.code /\ Emits(f, x)
  BY <1>2, <1>3 DEF Answers, Emits, Expected, Items
<1>5. /\ OwnSound'
      /\ state # "OFFLINE" => Sorted'
      /\ state = "INIT" => \A y \in (ToSet(Received) \cup ToSet(toPd))' : Own(y)'
  BY <1>3, <1>4, AnswerKeeps
<1>6. /\ CpNumbers' /\ Due' = Due
      /\ UNCHANGED <<state, cmd, cpPhy, cpSeq, txSeq, rxRb>>
      /\ \A y : Own(y)' = Own(y) /\ Leftover(y)' = Leftover(y)
                /\ OwnAnswer(y)' = OwnAnswer(y)
      /\ \A y, z : InOrder(y, z)' = InOrder(y, z)
  BY <1>2, EmitLeaves
<1>7. /\ Replies' \subseteq Replies \cup {x} /\ Items' \subseteq Items \cup {x}
      /\ ToSet(toPd)' \subseteq ToSet(toPd)
      /\ ToSet(Received)' \subseteq ToSet(Received) \cup {x}
      /\ Fit(f.seq)'
      /\ cache' # NoReply => cache'.reply = x /\
            \/ cache'.code = f.code
            \/ cache # NoReply /\ cache'.code = cache.code /\ ~drops
      /\ \/ ToSet(Received)' \subseteq ToSet(Received)
         \/ cache' # NoReply /\ cache'.code = f.code
  BY <1>3, <1>4 DEF Answers, Emits, Replies, Items
<1>8. ~drops => f.seq # 0 /\ f.code # "CHLNG"
  BY <1>1 DEF Restarts
<1>9. Own(x) <=> Own(f)
  BY <1>4 DEF Own
<1>10. ReplySound'
  <2>1. execs'[x.id] > 0 /\ \A c \in Ids : execs[c] > 0 => execs'[c] > 0
    BY <1>2, <1>4 DEF TypeOK, FrameOf
  <2>2. \A r \in Replies : r.id \in Ids
    BY ItemTypes DEF ReplyOf
  <2>3. x.kind = "UNKNOWN" => x.code = "POLL" /\ ~IgnoreUnsolicited
    BY <1>3, <1>4 DEF Orderly
  <2> QED
    BY <1>3, <1>4, <1>7, <1>8, <2>1, <2>2, <2>3 DEF Pipe, ReplySound
<1>11. ASSUME state # "OFFLINE" PROVE AnsweredSound'
  <2>1. Sorted /\ AnsweredSound
    BY <1>11 DEF Pipe
  <2>2. ASSUME cmd.code # "CHLNG",
               NEW y \in ToSet(Received)', NEW z \in ToSet(Received)',
               <<y, z>> \in Ahead(Received)', OwnAnswer(y)
        PROVE  z.kind # "NAK"
    <3>1. CASE <<y, z>> \in Ahead(Received)
      <4>1. y \in ToSet(Received) /\ z \in ToSet(Received)
        BY <3>1, ItemTypes, AheadInside
      <4> QED
        BY <2>1, <2>2, <3>1, <4>1 DEF AnsweredSound
    <3>2. CASE z = x
      BY <1>3, <3>2
    <3> QED
      BY <1>4, <2>2, <3>1, <3>2 DEF Emits
  <2>3. ASSUME cmd.code # "CHLNG", NEW r \in ToSet(Received)', OwnAnswer(r)
        PROVE  /\ Fit(txSeq)'
               /\ cache' # NoReply =>
                     cache'.code = cmd.code /\ cache'.reply.kind # "NAK"
    <3>1. Own(f)
      BY <1>4, <1>7, <1>9, <2>1, <2>3 DEF Sorted, InOrder, OwnAnswer
    <3>2. f.seq = txSeq /\ f.code = cmd.code
      BY <1>4, <3>1 DEF Pipe, OwnSound
    <3>3. r \in ToSet(Received) => (cache # NoReply => cache.code = cmd.code)
      BY <2>1, <2>3 DEF AnsweredSound
    <3>4. r \notin ToSet(Received) => (cache' # NoReply => cache'.code = f.code)
      BY <1>7
    <3>5. Fit(txSeq)'
      BY <1>6, <1>7, <3>2 DEF Fit
    <3> QED
      BY <1>3, <1>7, <3>2, <3>3, <3>4, <3>5
  <2> QED
    BY <1>6, <2>2, <2>3 DEF AnsweredSound
<1>12. ASSUME state \notin {"INIT", "OFFLINE"} PROVE LeftoverSound'
  <2>1. LeftoverSound /\ Sorted
    BY <1>12 DEF Pipe
  <2>2. Leftover(x) => Leftover(f)
    BY <1>4, <1>9 DEF Leftover
  <2>3. \A y \in Items' : Leftover(y) => y.seq = 0 \/ Due = 0 \/ NextSeq(y.seq) = Due
    BY <1>4, <1>7, <2>1, <2>2 DEF LeftoverSound
  <2>4. \A y, z \in Items' : Leftover(y) /\ Leftover(z) => y.seq = z.seq
    <3>1. \A y \in Items' : Leftover(y) =>
              \E w \in Items : Leftover(w) /\ w.seq = y.seq
      BY <1>4, <1>7, <2>2
    <3> QED
      BY <2>1, <3>1 DEF LeftoverSound
  <2>5. \A r \in Replies' : Leftover(r) => r.kind # "NAK"
    BY <1>3, <1>7, <2>1 DEF LeftoverSound
  <2>6. ASSUME NEW g \in ToSet(toPd)', Leftover(g), g.seq # 0 PROVE Fit(g.seq)'
    <3>1. g \in ToSet(toPd) /\ g \in Items /\ InOrder(f, g)
      BY <1>4, <1>7, <2>1, <2>6 DEF Sorted, Emits, Items
    <3>2. Leftover(f)
      BY <2>6, <3>1 DEF InOrder, Leftover
    <3>3. f.seq = g.seq
      BY <1>4, <2>1, <2>6, <3>1, <3>2 DEF LeftoverSound
    <3> QED
      BY <1>7, <3>3
  <2>7. ASSUME cache' # NoReply, cache'.code = "CHLNG"
        PROVE  cache'.reply.code = "CHLNG" \/ Own(cache'.reply)
    <3>1. CASE cache'.code = f.code
      BY <1>4, <1>7, <2>7, <3>1
    <3>2. CASE cache # NoReply /\ cache.code = "CHLNG" /\ ~drops
      <4>1. cache.reply \in Cached /\ InOrder(cache.reply, f)
        BY <1>4, <2>1, <3>2 DEF Cached, Sorted
      <4>2. Own(f)
        BY <1>8, <2>1, <3>2, <4>1 DEF LeftoverSound, InOrder, Leftover
      <4> QED
        BY <1>7, <1>9, <2>7, <4>2
    <3> QED
      BY <1>7, <2>7, <3>1, <3>2
  <2> QED
    BY <1>6, <2>3, <2>4, <2>5, <2>6, <2>7 DEF LeftoverSound, Own
<1> QED
  BY <1>5, <1>6, <1>10, <1>11, <1>12 DEF Pipe

\* A command that does not fit is none of those left over.
LEMMA RefusePipe ==
    ASSUME TypeOK, Asking, Pipe, PdRefuse
    PROVE  Pipe'
<1>1. PICK f, drops : f = Head(toPd) /\ drops = (Restarts(f) \/ Repeats(f))
  OBVIOUS
<1>2. /\ toPd # <<>> /\ ~Expected(f) /\ UNCHANGED <<cp, execs>>
      /\ PdAnswer(f, pdCmd, "NAK", drops) /\ "NAK" \in Kinds
  BY <1>1, Zenon DEF PdRefuse, Kinds, hist
<1>3. PICK x \in ReplyOf : Answers(f, x, pdCmd, drops) /\ x.kind = "NAK"
  BY <1>1, <1>2, AnswerFacts
<1>4. /\ f \in FrameOf(Codes) /\ f \in ToSet(toPd) /\ f \in Items
      /\ x.id = f.id /\ x.code = f.code /\ Emits(f, x)
  BY <1>2, <1>3 DEF Answers, Emits, Items
<1>5. f.seq # 0 /\ ~Fit(f.seq)
  BY <1>2, <1>4, ExpectedFacts
<1>6. /\ CpNumbers' /\ Due' = Due
      /\ UNCHANGED <<state, cmd, cpPhy, cpSeq, txSeq, rxRb>>
      /\ \A y : Own(y)' = Own(y) /\ Leftover(y)' = Leftover(y)
                /\ OwnAnswer(y)' = OwnAnswer(y)
      /\ \A y, z : InOrder(y, z)' = InOrder(y, z)
  BY <1>2, EmitLeaves
<1>7. /\ Replies' \subseteq Replies \cup {x} /\ Items' \subseteq Items \cup {x}
      /\ ToSet(toPd)' \subseteq ToSet(toPd)
      /\ ToSet(Received)' \subseteq ToSet(Received) \cup {x}
      /\ Fit(x.seq)'
      /\ cache' # NoReply => cache'.reply = x
  BY <1>3, <1>4 DEF Answers, Emits, Replies, Items
<1>8. ReplySound'
  BY <1>2, <1>3, <1>7 DEF Pipe, ReplySound
\* OFFLINE there may be anything left over, but then nothing is said of it.
<1>9. state \notin {"INIT", "OFFLINE"} => ~Leftover(f)
  BY <1>4, <1>5 DEF Pipe, LeftoverSound
<1>10. state # "INIT"
  <2> SUFFICES ASSUME state = "INIT" PROVE FALSE
    OBVIOUS
  <2>1. Own(f)
    BY <1>4 DEF Pipe
  <2>2. cmd # NoCmd
    BY <1>4, <2>1, NothingOwn
  <2>3. txSeq = Due /\ cpSeq = -1
    BY <2>2 DEF Asking, Pipe, CpNumbers
  <2> QED
    BY <1>4, <1>5, <2>1, <2>3 DEF Pipe, OwnSound, Due, NextSeq
<1>11. CASE state = "OFFLINE"
  <2>1. \A y \in Items : ~Own(y)
    BY <1>11, NothingOwn DEF Asking
  <2>2. ~Own(x)
    BY <1>4, <2>1 DEF Own
  <2>3. OwnSound'
    BY <1>6, <1>7, <2>1, <2>2 DEF OwnSound, Items, Replies
  <2> QED
    BY <1>6, <1>8, <1>11, <2>3 DEF Pipe
<1>12. CASE state # "OFFLINE"
  <2>1. /\ Sorted /\ AnsweredSound /\ LeftoverSound /\ ~Leftover(f)
    BY <1>9, <1>10, <1>12 DEF Pipe
  <2>2. OwnSound' /\ Sorted'
    BY <1>3, <1>5, <1>12, <2>1, AnswerKeeps
  <2>3. ~Leftover(x) /\ (Own(x) <=> Own(f))
    BY <1>4, <2>1 DEF Leftover, Own
  <2>4. AnsweredSound'
    <3>1. ASSUME cmd.code # "CHLNG", NEW y \in ToSet(Received) PROVE ~OwnAnswer(y)
      <4> SUFFICES ASSUME OwnAnswer(y) PROVE FALSE
        OBVIOUS
      <4>1. Own(f) /\ Fit(txSeq)
        BY <1>2, <1>4, <2>1, <3>1 DEF Sorted, InOrder, OwnAnswer, AnsweredSound
      <4> QED
        BY <1>4, <1>5, <4>1 DEF Pipe, OwnSound
    <3>2. ~OwnAnswer(x)
      BY <1>3 DEF OwnAnswer
    <3> QED
      BY <1>6, <1>7, <3>1, <3>2 DEF AnsweredSound
  <2>5. LeftoverSound'
    <3>1. \A y \in Items' : Leftover(y) => y \in Items
      BY <1>7, <2>3
    <3>2. \A r \in Replies' : Leftover(r) => r \in Replies
      BY <1>7, <2>3
    <3>3. ASSUME NEW g \in ToSet(toPd)', Leftover(g), g.seq # 0 PROVE Fit(g.seq)'
      <4>1. InOrder(f, g)
        BY <1>4, <1>7, <2>1 DEF Sorted, Emits
      <4> QED
        BY <2>1, <3>3, <4>1 DEF InOrder, Leftover
    <3>4. cache' # NoReply => cache'.reply.code = "CHLNG" \/ Own(cache'.reply)
      BY <1>7, <2>3 DEF Leftover
    <3> QED
      BY <1>6, <2>1, <3>1, <3>2, <3>3, <3>4 DEF LeftoverSound, Own
  <2> QED
    BY <1>6, <1>8, <1>10, <2>2, <2>4, <2>5 DEF Pipe
<1> QED
  BY <1>11, <1>12

LEMMA NewName ==
    ASSUME TypeOK, Remembered # Ids
    PROVE  \A y \in Items : y.id # FreeId
<1>1. FreeId \notin Remembered
  BY FreeFacts
<1>2. ASSUME NEW y \in ToSet(Received) PROVE y \in ToSet(rxRb) \cup ToSet(toCp)
  <2>1. rxRb \in Seq(ReplyOf) /\ toCp \in Seq(ReplyOf) /\ Received \in Seq(ReplyOf)
    BY ItemTypes DEF TypeOK
  <2>2. PICK i \in 1..Len(rxRb \o toCp) : y = (rxRb \o toCp)[i]
    BY <1>2, <2>1, Member DEF Received
  <2>3. \/ i \in 1..Len(rxRb) /\ y = rxRb[i]
        \/ i - Len(rxRb) \in 1..Len(toCp) /\ y = toCp[i - Len(rxRb)]
    BY <2>1, <2>2, ConcatProperties
  <2> QED
    BY <2>1, <2>3, Member
<1> QED
  BY <1>1, <1>2 DEF Remembered, Cached, Replies, Items

\* A new command goes to the end of the queue, and nothing in it is its own.
LEMMA SendPipe ==
    ASSUME TypeOK, Asking, Pipe, NEW code \in Codes, CpSend(code)
    PROVE  Pipe'
<1>1. PICK new, c, f : /\ new = FreeId /\ c = [id |-> new, code |-> code]
                       /\ f = Frame(c, NextSeq(cpSeq))
  OBVIOUS
<1>2. new \in Ids /\ new \notin Remembered
  BY <1>1, FreeFacts DEF CpSend
<1>3. /\ cmd = NoCmd /\ code \in CodesOf[state]
      /\ cmd' = c /\ txSeq' = NextSeq(cpSeq) /\ toPd' = Put(toPd, f)
      /\ execs' = [execs EXCEPT ![new] = 0]
      /\ cpPhy' = "REPLY_WAIT" /\ Received' = Received
      /\ UNCHANGED <<state, cpSeq, rxRb, pdSeq, cache>>
  BY <1>1 DEF CpSend, Asking, Received, pd
<1>4. /\ f.id = new /\ f.code = code /\ f.seq = NextSeq(cpSeq)
      /\ c.id = new /\ c.code = code
  BY <1>1 DEF Frame
<1>5. f \in FrameOf(Codes)
  BY <1>1, <1>2, <1>4, SeqFacts DEF Frame, FrameOf, TypeOK
<1>6. /\ ToSet(toPd)' \subseteq ToSet(toPd) \cup {f}
      /\ Ahead(toPd)' \subseteq Ahead(toPd) \cup (ToSet(toPd) \X {f})
  BY <1>3, <1>5, ItemTypes, PutFacts, AheadPut
<1>7. /\ ToSet(Received)' = ToSet(Received) /\ Ahead(Received)' = Ahead(Received)
      /\ Cached' = Cached /\ Replies' = Replies /\ Items' \subseteq Items \cup {f}
      /\ Due' = Due /\ \A s : Fit(s)' = Fit(s)
  BY <1>3, <1>6 DEF Cached, Replies, Items, Due, Fit
<1>8. \A y \in Items : y.id # new /\ ~Own(y) /\ ~Own(y)' /\ ~OwnAnswer(y)'
  <2>1. \A y \in Items : y.id # new
    BY <1>1, NewName DEF CpSend
  <2>2. \A y \in Items : ~Own(y)
    BY <1>3, NothingOwn
  <2> QED
    BY <1>3, <1>4, <2>1, <2>2 DEF Own, OwnAnswer
<1>9. Own(f)' /\ \A y \in Items : Leftover(y)' = Leftover(y)
  BY <1>3, <1>4, <1>8 DEF Own, Leftover
<1>10. ReplySound'
  <2>1. \A r \in Replies : r.id \in Ids /\ r.id # new
    BY <1>8, ItemTypes DEF ReplyOf, Items
  <2>2. \A r \in Replies : execs'[r.id] = execs[r.id]
    BY <1>2, <1>3, <2>1 DEF TypeOK
  <2> QED
    BY <1>3, <1>7, <2>2 DEF Pipe, ReplySound
<1>11. CpNumbers'
  BY <1>3, <1>4 DEF Pipe, CpNumbers, Due
<1>12. OwnSound'
  BY <1>3, <1>4, <1>6, <1>7, <1>8 DEF OwnSound, Items
<1>13. ASSUME state # "OFFLINE" PROVE Sorted' /\ AnsweredSound'
  <2>1. Sorted
    BY <1>13 DEF Pipe
  <2>2. \A y, z \in Items : InOrder(y, z) => InOrder(y, z)'
    BY <1>8, <1>9 DEF InOrder
  <2>3. \A y : InOrder(y, f)'
    BY <1>9 DEF InOrder, Leftover
  <2>4. ASSUME NEW y \in ToSet(toPd)', NEW z \in ToSet(toPd)',
               <<y, z>> \in Ahead(toPd)'
        PROVE  InOrder(y, z)'
    <3>1. CASE <<y, z>> \in Ahead(toPd)
      <4>1. y \in ToSet(toPd) /\ z \in ToSet(toPd)
        BY <3>1, ItemTypes, AheadInside
      <4> QED
        BY <2>1, <2>2, <3>1, <4>1 DEF Sorted, Items
    <3>2. CASE z = f
      BY <2>3, <3>2
    <3> QED
      BY <1>6, <2>4, <3>1, <3>2
  <2>5. Sorted'
    BY <1>6, <1>7, <2>1, <2>2, <2>3, <2>4 DEF Sorted, Items, Replies
  <2>6. AnsweredSound'
    BY <1>7, <1>8 DEF AnsweredSound, Items, Replies
  <2> QED
    BY <2>5, <2>6
<1>14. ASSUME state = "INIT", NEW y \in (ToSet(Received) \cup ToSet(toPd))'
       PROVE  Own(y)'
  BY <1>6, <1>7, <1>8, <1>9, <1>14 DEF Pipe, Items, Replies
<1>15. ASSUME state \notin {"INIT", "OFFLINE"} PROVE LeftoverSound'
  <2>1. LeftoverSound
    BY <1>15 DEF Pipe
  <2>2. \A y \in Items' : Leftover(y)' => y \in Items /\ Leftover(y)
    BY <1>7, <1>9 DEF Leftover
  <2>3. \A g \in ToSet(toPd)' : Leftover(g)' => g \in ToSet(toPd) /\ Leftover(g)
    BY <1>6, <1>9 DEF Leftover, Items
  <2>4. cache # NoReply => ~Own(cache.reply)
    BY <1>8 DEF Cached, Replies, Items
  <2>5. \A r \in Replies : r \in Items
    BY DEF Items
  <2> QED
    BY <1>3, <1>7, <1>9, <2>1, <2>2, <2>3, <2>4, <2>5 DEF LeftoverSound
<1> QED
  BY <1>3, <1>10, <1>11, <1>12, <1>13, <1>14, <1>15 DEF Pipe

\* A repeated command goes to the end of the queue, where it belongs.
LEMMA RetryPipe ==
    ASSUME Orderly, TypeOK, Asking, Pipe, CpRetry
    PROVE  Pipe'
<1>1. PICK f : f = Frame(cmd, txSeq)
  OBVIOUS
<1>2. /\ cpPhy = "WAIT" /\ cmd # NoCmd /\ cmd \in [id : Ids, code : Codes]
      /\ txSeq \in 0..3 /\ txSeq = Due /\ rxRb = <<>> /\ cmd.code \in CodesOf[state]
  BY DEF CpRetry, Asking, TypeOK, Pipe, CpNumbers
<1>3. NextSeq(RewoundSeq) = txSeq
  BY <1>2 DEF NextSeq, RewoundSeq
<1>4. /\ toPd' = Put(toPd, f) /\ toCp' = <<>> /\ cpSeq' = txSeq - 1
      /\ txSeq' = txSeq /\ cpPhy' = "REPLY_WAIT"
      /\ UNCHANGED <<state, cmd, rxRb, pdSeq, cache, execs>>
  BY <1>1, <1>3 DEF CpRetry, Orderly, RewoundSeq, pd, hist
<1>5. f \in FrameOf(Codes) /\ f.id = cmd.id /\ f.code = cmd.code /\ f.seq = txSeq
  BY <1>1, <1>2 DEF Frame, FrameOf
<1>6. /\ ToSet(toPd)' \subseteq ToSet(toPd) \cup {f}
      /\ Ahead(toPd)' \subseteq Ahead(toPd) \cup (ToSet(toPd) \X {f})
  <2>1. toPd \in Seq(FrameOf(Codes))
    BY DEF TypeOK
  <2>2. toPd' \in {toPd, Append(toPd, f)}
    BY <1>4, <1>5, <2>1, PutFacts
  <2> QED
    BY <1>5, <2>1, <2>2, AheadPut
<1>7. ToSet(Received)' = {} /\ Ahead(Received)' = {}
  <2>1. Received' = <<>>
    BY <1>2, <1>4 DEF Received
  <2> QED
    BY <2>1, AheadNone
<1>8. /\ Due' = Due /\ \A s : Fit(s)' = Fit(s) /\ Cached' = Cached
      /\ Replies' \subseteq Replies /\ Items' \subseteq Items \cup {f}
  BY <1>2, <1>3, <1>4, <1>6, <1>7 DEF Due, Fit, Cached, Replies, Items, RewoundSeq
<1>9. /\ \A y : Own(y)' = Own(y) /\ Leftover(y)' = Leftover(y)
      /\ \A y, z : InOrder(y, z)' = InOrder(y, z)
      /\ Own(f)
  BY <1>4, <1>5 DEF Own, Leftover, InOrder
<1>10. ReplySound'
  BY <1>4, <1>8 DEF Pipe, ReplySound
<1>11. CpNumbers'
  <2>1. state = "INIT" => txSeq - 1 = -1
    BY <1>2 DEF Pipe, CpNumbers, Due, NextSeq
  <2>2. state = "CAPDET" => txSeq - 1 = 0
    BY <1>2 DEF Pipe, CpNumbers, Due, NextSeq
  <2> QED
    BY <1>2, <1>4, <1>8, <2>1, <2>2 DEF CpNumbers
<1>12. OwnSound'
  BY <1>4, <1>5, <1>6, <1>8, <1>9 DEF Pipe, OwnSound
<1>13. ASSUME state # "OFFLINE" PROVE Sorted' /\ AnsweredSound'
  <2>1. Sorted
    BY <1>13 DEF Pipe
  <2>2. \A y : InOrder(y, f)
    BY <1>9 DEF InOrder, Leftover
  <2>3. ASSUME NEW y \in ToSet(toPd)', NEW z \in ToSet(toPd)',
               <<y, z>> \in Ahead(toPd)'
        PROVE  InOrder(y, z)
    <3>1. CASE <<y, z>> \in Ahead(toPd)
      <4>1. y \in ToSet(toPd) /\ z \in ToSet(toPd)
        BY <3>1, ItemTypes, AheadInside
      <4> QED
        BY <2>1, <3>1, <4>1 DEF Sorted
    <3>2. CASE z = f
      BY <2>2, <3>2
    <3> QED
      BY <1>6, <2>3, <3>1, <3>2
  <2>4. Sorted'
    BY <1>6, <1>7, <1>8, <1>9, <2>1, <2>2, <2>3 DEF Sorted
  <2>5. AnsweredSound'
    BY <1>7 DEF AnsweredSound
  <2> QED
    BY <2>4, <2>5
<1>14. ASSUME state = "INIT", NEW y \in (ToSet(Received) \cup ToSet(toPd))'
       PROVE  Own(y)'
  BY <1>6, <1>7, <1>9, <1>14 DEF Pipe
<1>15. ASSUME state \notin {"INIT", "OFFLINE"} PROVE LeftoverSound'
  <2>1. LeftoverSound
    BY <1>15 DEF Pipe
  <2>2. \A y \in Items' : Leftover(y) => y \in Items
    BY <1>8, <1>9 DEF Leftover
  <2>3. \A g \in ToSet(toPd)' : Leftover(g) => g \in ToSet(toPd)
    BY <1>6, <1>9 DEF Leftover
  <2> QED
    BY <1>4, <1>8, <1>9, <2>1, <2>2, <2>3 DEF LeftoverSound
<1> QED
  BY <1>4, <1>10, <1>11, <1>12, <1>13, <1>14, <1>15 DEF Pipe

\* The phy is reset between two exchanges, or with the CP.
LEMMA ResetPipe ==
    ASSUME Orderly, TypeOK, Asking, Pipe, CpReconnect \/ CpScRetry \/ CpRestart
    PROVE  Pipe'
<1>1. /\ cpPhy' = "IDLE" /\ cmd' = NoCmd /\ cpSeq' = -1
      /\ Received' = <<>> /\ UNCHANGED <<toPd, pdSeq, cache, execs>>
      /\ \/ state' = "INIT" /\ toPd = <<>>
         \/ state' = "SC_CHLNG" /\ state = "ONLINE" /\ cmd = NoCmd
  BY DEF CpReconnect, CpScRetry, CpRestart, ResetInto, TransportAfterReset,
     Received, Asking, Orderly, pd, hist
<1>3. /\ ToSet(Received)' = {} /\ Ahead(Received)' = {}
      /\ ToSet(toPd)' = ToSet(toPd) /\ Ahead(toPd)' = Ahead(toPd)
      /\ Cached' = Cached /\ Replies' \subseteq Replies /\ Items' \subseteq Items
      /\ \A s : Fit(s)' = Fit(s)
      /\ state' = "INIT" => ToSet(toPd) = {}
      /\ Due' = 0
  BY <1>1, AheadNone DEF Cached, Replies, Items, Fit, Due, NextSeq
<1>4. \A y \in Items' : ~Own(y)'
  BY <1>1, <1>3, ItemNames DEF Own, NoCmd
<1>5. ReplySound'
  BY <1>1, <1>3 DEF Pipe, ReplySound
<1>6. CpNumbers' /\ OwnSound'
  BY <1>1, <1>3, <1>4 DEF CpNumbers, OwnSound, Items
<1>7. AnsweredSound'
  BY <1>3 DEF AnsweredSound
<1>8. CASE state' = "INIT"
  BY <1>3, <1>5, <1>6, <1>7, <1>8 DEF Pipe, Sorted
<1>9. CASE state' = "SC_CHLNG"
  <2>1. Sorted /\ LeftoverSound /\ cmd' = cmd
    BY <1>1, <1>9 DEF Pipe
  <2>2. /\ \A y : Own(y)' = Own(y) /\ Leftover(y)' = Leftover(y)
        /\ \A y, z : InOrder(y, z)' = InOrder(y, z)
    BY <2>1 DEF Own, Leftover, InOrder
  <2>3. Sorted'
    BY <1>3, <2>1, <2>2 DEF Sorted
  <2>4. LeftoverSound'
    BY <1>1, <1>3, <2>1, <2>2 DEF LeftoverSound
  <2> QED
    BY <1>5, <1>6, <1>7, <1>9, <2>3, <2>4 DEF Pipe
<1> QED
  BY <1>1, <1>8, <1>9

-----------------------------------------------------------------------------
(* The replies the CP takes *)

\* The exchange is over, and what was not looked at is left over.
Settles(n, seq) ==
    /\ state' = n /\ cpPhy' = "IDLE" /\ cmd' = NoCmd
    /\ \/ /\ cpSeq' = seq
          /\ ToSet(Received)' \subseteq ToSet(Received)
          /\ Ahead(Received)' \subseteq Ahead(Received)
       \/ n = "SC_CHLNG" /\ state # n /\ cpSeq' = -1 /\ Received' = <<>>
    /\ UNCHANGED <<toPd, pdSeq, cache, execs>>

LEMMA SettlesFacts ==
    ASSUME TypeOK, NEW n, NEW seq, NEW spent, NEW rest \in {<<>>, Tail(Received)},
           rest = <<>> \/ Received # <<>>,
           Settle(n, seq, spent, rest), UNCHANGED <<toPd, pdSeq, cache, execs>>
    PROVE  /\ Settles(n, seq)
           /\ ~(n = "SC_CHLNG" /\ state # n) =>
                 cpSeq' = seq /\ ToSet(Received)' = ToSet(rest)
<1>1. /\ ToSet(rest) \subseteq ToSet(Received)
      /\ Ahead(rest) \subseteq Ahead(Received)
  BY ItemTypes, AheadTail, AheadNone
<1>2. /\ state' = n /\ cpPhy' = "IDLE" /\ cmd' = NoCmd /\ toCp' = <<>>
  BY DEF Settle
<1>3. CASE n = "SC_CHLNG" /\ state # n
  <2>1. cpSeq' = -1 /\ Received' = <<>>
    BY <1>2, <1>3 DEF Settle, Received
  <2> QED
    BY <1>2, <1>3, <2>1 DEF Settles
<1>4. CASE ~(n = "SC_CHLNG" /\ state # n)
  <2>1. cpSeq' = seq /\ rxRb' = rest
    BY <1>4 DEF Settle
  <2>2. rest \in Seq(ReplyOf)
    <3>1. <<>> \in Seq(ReplyOf)
      OBVIOUS
    <3>2. Received # <<>> => Tail(Received) \in Seq(ReplyOf)
      BY ReceivedFacts
    <3> QED
      BY <3>1, <3>2
  <2>3. Received' = rest
    BY <1>2, <2>1, <2>2 DEF Received
  <2> QED
    BY <1>1, <1>2, <1>4, <2>1, <2>3 DEF Settles
<1> QED
  BY <1>3, <1>4

\* What holds after any exchange.
LEMMA SettledAnyway ==
    ASSUME TypeOK, Pipe, NEW n, NEW seq, Settles(n, seq), n # "INIT",
           n = "CAPDET" => cpSeq' = 0
    PROVE  /\ ReplySound' /\ CpNumbers' /\ OwnSound' /\ AnsweredSound'
           /\ \A y \in Items' : ~Own(y)'
           /\ Items' \subseteq Items /\ Replies' \subseteq Replies
           /\ Cached' = Cached /\ \A s : Fit(s)' = Fit(s)
           /\ n = "OFFLINE" => Pipe'
<1>1. /\ ToSet(Received)' \subseteq ToSet(Received) /\ ToSet(toPd)' = ToSet(toPd)
      /\ Cached' = Cached /\ \A s : Fit(s)' = Fit(s)
  BY AheadNone DEF Settles, Cached, Fit
<1>2. Items' \subseteq Items /\ Replies' \subseteq Replies
  BY <1>1 DEF Items, Replies
<1>3. \A y \in Items' : ~Own(y)'
  BY <1>2, ItemNames DEF Settles, Own, NoCmd
<1>4. ReplySound'
  BY <1>1, <1>2 DEF Settles, Pipe, ReplySound
<1>5. CpNumbers' /\ OwnSound'
  BY <1>3 DEF Settles, CpNumbers, OwnSound, Items
<1>6. AnsweredSound'
  BY <1>3 DEF AnsweredSound, Items, Replies, OwnAnswer
<1>7. n = "OFFLINE" => Pipe'
  BY <1>4, <1>5 DEF Settles, Pipe
<1> QED
  BY <1>1, <1>2, <1>3, <1>4, <1>5, <1>6, <1>7

\* The reply at the head of the queue, and what is behind it.
LEMMA HeadOfQueue ==
    ASSUME TypeOK, Sorted, Received # <<>>, NEW n, NEW seq, Settles(n, seq),
           NEW r, r = Head(Received),
           ToSet(Received)' \subseteq ToSet(Tail(Received))
    PROVE  /\ r \in ToSet(Received) /\ r \in Replies /\ r \in Items /\ r \in ReplyOf
           /\ \A y \in ToSet(Received)' : <<r, y>> \in Ahead(Received)
           /\ \A y \in Items' : InOrder(r, y)
<1>1. /\ r \in ToSet(Received)
      /\ ToSet(Tail(Received)) \subseteq ToSet(Received)
      /\ \A y \in ToSet(Tail(Received)) : <<r, y>> \in Ahead(Received)
  BY AheadTail, ItemTypes
<1>2. r \in Replies /\ r \in Items /\ r \in ReplyOf
  BY <1>1, ItemTypes DEF Replies, Items
<1>3. \A y \in ToSet(Tail(Received)) : InOrder(r, y)
  BY <1>1 DEF Sorted
<1>4. Cached' = Cached /\ ToSet(toPd)' = ToSet(toPd)
  BY DEF Settles, Cached
<1>5. \A y \in Items' : InOrder(r, y)
  BY <1>1, <1>3, <1>4 DEF Items, Replies, Sorted
<1> QED
  BY <1>1, <1>2, <1>5

\* Once nothing is its own, the queue is still in order if what was its own
\* fits in with the rest.
LEMMA SettledInOrder ==
    ASSUME TypeOK, Pipe, Sorted, NEW n, NEW seq, Settles(n, seq),
           n \notin {"INIT", "OFFLINE"}, n = "CAPDET" => cpSeq' = 0,
           \A x, y \in Items' :
              InOrder(x, y) /\ x.code = "CHLNG" /\ y.code # "CHLNG" => y.seq = 0,
           LeftoverSound'
    PROVE  Pipe'
<1>1. /\ ReplySound' /\ CpNumbers' /\ OwnSound' /\ AnsweredSound'
      /\ \A y \in Items' : ~Own(y)'
      /\ Cached' = Cached
  BY SettledAnyway
<1>2. \A x, y \in Items' : InOrder(x, y) => InOrder(x, y)'
  BY <1>1 DEF InOrder, Leftover
<1>3. /\ ToSet(Received)' \subseteq ToSet(Received)
      /\ Ahead(Received)' \subseteq Ahead(Received)
      /\ ToSet(toPd)' = ToSet(toPd) /\ Ahead(toPd)' = Ahead(toPd)
  BY AheadNone DEF Settles
<1>4. Sorted'
  BY <1>1, <1>2, <1>3 DEF Sorted, Items, Replies
<1> QED
  BY <1>1, <1>4 DEF Pipe, Settles

\* The CP takes the reply to its command: all that is behind it is of the same
\* command, with the same number.
LEMMA OwnBehind ==
    ASSUME TypeOK, Asking, Pipe, ReplyHere,
           NEW r, r = Head(Received), OwnAnswer(r), r.code # "CHLNG",
           NEW n, NEW seq, Settles(n, seq),
           ToSet(Received)' \subseteq ToSet(Tail(Received))
    PROVE  /\ r \in ToSet(Received) /\ cmd.code # "CHLNG" /\ AnsweredSound /\ Sorted
           /\ \A y \in ToSet(Received)' : <<r, y>> \in Ahead(Received)
           /\ \A y \in Items' : y.code # "CHLNG" /\ y.seq = Due
           /\ \A y \in Replies' : y.kind # "NAK"
<1>1. /\ cpPhy = "REPLY_WAIT" /\ Received # <<>> /\ txSeq = Due
      /\ state # "OFFLINE" /\ Sorted /\ AnsweredSound
  BY DEF ReplyHere, Pipe, CpNumbers, Asking
<1>2. /\ r \in ToSet(Received) /\ r \in Items
      /\ \A y \in ToSet(Received)' : <<r, y>> \in Ahead(Received)
      /\ \A y \in Items' : InOrder(r, y)
  BY <1>1, HeadOfQueue
<1>3. /\ ToSet(Received)' \subseteq ToSet(Received) /\ ToSet(toPd)' = ToSet(toPd)
      /\ Cached' = Cached /\ Items' \subseteq Items /\ Replies' \subseteq Replies
  BY AheadNone DEF Settles, Cached, Items, Replies
<1>4. cmd.code = r.code /\ cmd.code # "CHLNG"
  BY <1>2 DEF Pipe, OwnSound, OwnAnswer
<1>5. \A y \in Items' : Own(y) /\ y.code # "CHLNG"
  BY <1>2, <1>3, <1>4 DEF InOrder, OwnAnswer, Pipe, OwnSound
<1>6. \A y \in Replies' : y.kind # "NAK"
  <2>1. \A y \in ToSet(Received)' : y.kind # "NAK"
    BY <1>1, <1>2, <1>3, <1>4 DEF AnsweredSound
  <2>2. \A c \in Cached : c.kind # "NAK"
    BY <1>1, <1>2, <1>4 DEF AnsweredSound, Cached
  <2> QED
    BY <1>3, <2>1, <2>2 DEF Replies
<1>7. \A y \in Items' : y.seq = Due
  <2>1. \A y \in ToSet(toPd)' : y.seq = txSeq
    BY <1>3, <1>5 DEF Pipe, OwnSound, Items
  <2>2. \A y \in Replies' : y.seq = txSeq
    BY <1>3, <1>5, <1>6 DEF Pipe, OwnSound, Items
  <2> QED
    BY <1>1, <2>1, <2>2 DEF Items
<1> QED
  BY <1>1, <1>2, <1>4, <1>5, <1>6, <1>7

LEMMA OwnTaken ==
    ASSUME TypeOK, Asking, Pipe, ReplyHere,
           NEW r, r = Head(Received), OwnAnswer(r), r.code # "CHLNG",
           Settles(OkState, NextSeq(cpSeq)),
           ToSet(Received)' \subseteq ToSet(Tail(Received)),
           ~(OkState = "SC_CHLNG" /\ state # OkState) => cpSeq' = NextSeq(cpSeq)
    PROVE  Pipe'
<1>1. /\ r \in ToSet(Received) /\ cmd.code # "CHLNG" /\ AnsweredSound /\ Sorted
      /\ \A y \in Items' : y.code # "CHLNG" /\ y.seq = Due
      /\ \A y \in Replies' : y.kind # "NAK"
  BY OwnBehind
<1>2. /\ ToSet(toPd)' = ToSet(toPd) /\ cache' = cache /\ \A s : Fit(s)' = Fit(s)
  BY DEF Settles, Fit
<1>3. Due' = 0 \/ Due' = NextSeq(Due)
  BY DEF Settles, Due, NextSeq
<1>4. LeftoverSound'
  <2>1. \A f \in ToSet(toPd)' : Fit(f.seq)'
    <3>1. ToSet(toPd)' # {} => Fit(txSeq)
      BY <1>1, <1>2, AheadNone DEF AnsweredSound
    <3>2. txSeq = Due
      BY DEF ReplyHere, Pipe, CpNumbers
    <3> QED
      BY <1>1, <1>2, <3>1, <3>2 DEF Items
  <2>2. cache' # NoReply => cache'.code # "CHLNG"
    BY <1>1, <1>2 DEF AnsweredSound
  <2> QED
    BY <1>1, <1>3, <2>1, <2>2 DEF LeftoverSound
<1>5. OkState \notin {"INIT", "OFFLINE"} /\ (OkState = "CAPDET" => cpSeq' = 0)
  BY DEF OkState, Pipe, CpNumbers, NextSeq
<1> QED
  BY <1>1, <1>4, <1>5, SettledInOrder

\* A command ONLINE that has number 0 is answered with what is left over.
LEMMA StrayFacts ==
    ASSUME TypeOK, Asking, Pipe, ReplyHere,
           NEW r, r = Head(Received), InSequence(r), ~Own(r), r.code # "CHLNG"
    PROVE  /\ state \in {"SC_CHLNG", "ONLINE"} /\ Due = 0 /\ txSeq = 0
           /\ LeftoverSound /\ Sorted /\ r \in Items /\ Leftover(r) /\ r.seq = 0
<1>1. r \in ToSet(Received) /\ r \in Items
  BY AheadTail, ItemTypes DEF ReplyHere, Items, Replies
<1>2. /\ state # "OFFLINE" /\ state # "INIT" /\ LeftoverSound /\ Sorted /\ txSeq = Due
      /\ state = "CAPDET" => Due = 1
  BY <1>1 DEF ReplyHere, Asking, Pipe, CpNumbers, Due, NextSeq
<1>3. Leftover(r) /\ r.seq = Due
  BY DEF Leftover, InSequence, Due
<1>4. Due = 0
  <2>1. NextSeq(Due) # Due
    BY DEF NextSeq, Due, TypeOK
  <2> QED
    BY <1>1, <1>2, <1>3, <2>1 DEF LeftoverSound
<1> QED
  BY <1>1, <1>2, <1>3, <1>4 DEF TypeOK, States, CodesOf

LEMMA StrayTaken ==
    ASSUME TypeOK, Asking, Pipe, ReplyHere,
           NEW r, r = Head(Received), InSequence(r), ~Own(r), r.code # "CHLNG",
           state = "ONLINE", Settles("ONLINE", NextSeq(cpSeq))
    PROVE  Pipe'
<1>1. /\ Due = 0 /\ txSeq = 0 /\ LeftoverSound /\ Sorted
      /\ r \in Items /\ Leftover(r) /\ r.seq = 0 /\ cmd.code # "CHLNG"
  <2>1. cmd.code # "CHLNG"
    BY DEF ReplyHere, Pipe, CpNumbers, CodesOf
  <2> QED
    BY <2>1, StrayFacts
<1>2. /\ ToSet(toPd)' = ToSet(toPd) /\ Cached' = Cached /\ cache' = cache
      /\ cpSeq' = 0 /\ \A s : Fit(s)' = Fit(s)
      /\ Items' \subseteq Items /\ Replies' \subseteq Replies
  BY <1>1, AheadNone DEF Settles, Cached, Fit, Items, Replies, Due
<1>3. \A y \in Items : Own(y) => y.seq = 0
  BY <1>1 DEF Pipe, OwnSound, Items
<1>4. \A y \in Items : y.code # "CHLNG" => y.seq = 0
  BY <1>1, <1>3 DEF LeftoverSound, Leftover
<1>5. \A y \in Replies : y.code # "CHLNG" => y.kind # "NAK"
  BY <1>1 DEF LeftoverSound, Leftover, Pipe, OwnSound
<1>6. cache # NoReply /\ cache.code = "CHLNG" => cache.reply.code = "CHLNG"
  <2> SUFFICES ASSUME cache # NoReply, cache.code = "CHLNG", cache.reply.code # "CHLNG"
               PROVE  FALSE
    OBVIOUS
  <2>1. cache.reply \in Replies /\ cache.reply \in Items
    BY DEF Cached, Replies, Items
  <2>2. cache.reply.kind # "NAK" /\ cache.reply.seq = 0
    BY <1>4, <1>5, <2>1
  <2> QED
    BY <2>2 DEF Pipe, ReplySound
<1>7. LeftoverSound'
  BY <1>2, <1>4, <1>5, <1>6 DEF LeftoverSound, Leftover, Items
<1> QED
  BY <1>1, <1>2, <1>4, <1>7, SettledInOrder

\* A handshake ends, perhaps to be tried again: what is left over stays.
LEMMA HandshakeEnds ==
    ASSUME TypeOK, Asking, Pipe, cpPhy # "IDLE", state = "SC_CHLNG",
           NEW n \in {"SC_CHLNG", "ONLINE"}, NEW seq, Settles(n, seq),
           \/ seq = cpSeq
           \/ /\ seq = NextSeq(cpSeq) /\ ReplyHere /\ InSequence(Head(Received))
              /\ ToSet(Received)' \subseteq ToSet(Tail(Received))
    PROVE  Pipe'
<1>1. Sorted /\ LeftoverSound /\ cmd.code = "CHLNG"
  BY DEF Pipe, CpNumbers, CodesOf
<1>2. /\ ToSet(toPd)' = ToSet(toPd) /\ Cached' = Cached /\ cache' = cache
      /\ cpSeq' = seq /\ \A s : Fit(s)' = Fit(s)
      /\ Items' \subseteq Items /\ Replies' \subseteq Replies
  BY AheadNone DEF Settles, Cached, Fit, Items, Replies
<1>3. \A y \in Items : Own(y) => y.code = "CHLNG"
  BY <1>1 DEF Pipe, OwnSound
<1>4. \A y \in Items' : ~Own(y)'
  BY <1>2, ItemNames DEF Settles, Own, NoCmd
<1>5. \A y \in Items' : Leftover(y)' = Leftover(y)
  BY <1>2, <1>3, <1>4 DEF Leftover
<1>6. \A y \in Items' : Leftover(y) => y.seq = 0 \/ Due' = 0 \/ NextSeq(y.seq) = Due'
  <2>1. CASE seq = cpSeq
    BY <1>1, <1>2, <2>1 DEF LeftoverSound, Due
  <2>2. CASE seq # cpSeq
    <3>1. PICK r : r = Head(Received)
      OBVIOUS
    <3>2. /\ Received # <<>> /\ InSequence(r)
          /\ ToSet(Received)' \subseteq ToSet(Tail(Received))
      BY <2>2, <3>1 DEF ReplyHere
    <3>3. r \in Items /\ \A y \in Items' : InOrder(r, y)
      BY <1>1, <3>1, <3>2, HeadOfQueue
    <3>4. CASE Own(r) \/ r.code = "CHLNG"
      BY <3>3, <3>4 DEF InOrder, Leftover
    <3>5. CASE ~Own(r) /\ r.code # "CHLNG"
      BY <1>1, <1>2, <2>2, <3>1, <3>2, <3>5, StrayFacts DEF LeftoverSound
    <3> QED
      BY <3>4, <3>5
  <2> QED
    BY <2>1, <2>2
<1>7. LeftoverSound'
  <2>1. cache # NoReply /\ cache.code = "CHLNG" => cache.reply.code = "CHLNG"
    <3>1. cache # NoReply => cache.reply \in Items
      BY DEF Cached, Replies, Items
    <3> QED
      BY <1>1, <1>3, <3>1 DEF LeftoverSound
  <2>2. \A y \in Replies' : y \in Items' /\ \A f \in ToSet(toPd)' : f \in Items'
    BY DEF Items
  <2>3. \A f \in ToSet(toPd)' : f \in Items'
    BY DEF Items
  <2> QED
    BY <1>1, <1>2, <1>5, <1>6, <2>1, <2>2, <2>3 DEF LeftoverSound
<1>8. \A x, y \in Items' :
          InOrder(x, y) /\ x.code = "CHLNG" /\ y.code # "CHLNG" => y.seq = 0
  BY <1>2, <1>3 DEF InOrder, Leftover
<1> QED
  BY <1>1, <1>7, <1>8, SettledInOrder

\* An unknown reply is not ignored.
LEMMA NothingIgnored ==
    ASSUME Orderly, TypeOK, Pipe, Received # <<>>
    PROVE  ~Ignored(Head(Received))
<1>1. Head(Received) \in Replies
  BY AheadTail, ItemTypes DEF Replies
<1> QED
  BY <1>1 DEF Ignored, Pipe, ReplySound

LEMMA FitsFacts ==
    ASSUME TypeOK, Asking, Pipe, ReplyHere,
           NEW r, r = Head(Received), InSequence(r), r.kind = "ANSWER",
           r.code # "CHLNG", Fits(r)
    PROVE  Own(r) \/ (state = "ONLINE" /\ txSeq = 0)
<1>1. state = "SC_CHLNG" => cmd.code = "CHLNG"
  BY DEF ReplyHere, Pipe, CpNumbers, CodesOf
<1>2. state # "SC_CHLNG"
  BY <1>1 DEF Fits
<1> QED
  BY <1>2, StrayFacts

\* An exchange that ends badly.
LEMMA BadEndPipe ==
    ASSUME TypeOK, Asking, Pipe, cpPhy # "IDLE", NEW seq, Settles(ErrState, seq),
           \/ seq = cpSeq
           \/ /\ seq = NextSeq(cpSeq) /\ ReplyHere /\ InSequence(Head(Received))
              /\ state = "SC_CHLNG" =>
                    ToSet(Received)' \subseteq ToSet(Tail(Received))
    PROVE  Pipe'
<1>1. CASE state = "SC_CHLNG"
  <2>1. ErrState \in {"SC_CHLNG", "ONLINE"}
    BY <1>1 DEF ErrState
  <2> QED
    BY <1>1, <2>1, HandshakeEnds
<1>2. CASE state # "SC_CHLNG"
  <2>1. ErrState = "OFFLINE"
    BY <1>2 DEF ErrState
  <2> QED
    BY <2>1, SettledAnyway
<1> QED
  BY <1>1, <1>2

LEMMA ReceivePipe ==
    ASSUME Orderly, TypeOK, Asking, Pipe, CpReceive \/ CpNoise
    PROVE  Pipe'
<1>1. PICK r : r = Head(Received)
  OBVIOUS
<1>2. /\ ReplyHere /\ Received # <<>> /\ cpPhy # "IDLE"
      /\ UNCHANGED <<toPd, pdSeq, cache, execs>>
  BY DEF CpReceive, CpAnswer, CpCryptogram, CpNak, CpUndecodable, CpSeqMismatch,
     CpNoise, ReplyHere, pd, hist
<1>3. ASSUME NEW n, NEW seq, NEW spent, Settle(n, seq, spent, Tail(Received))
      PROVE  /\ Settles(n, seq)
             /\ ~(n = "SC_CHLNG" /\ state # n) =>
                   /\ cpSeq' = seq
                   /\ ToSet(Received)' \subseteq ToSet(Tail(Received))
  BY <1>2, <1>3, SettlesFacts
<1>4. state = "SC_CHLNG" \/ ErrState # "SC_CHLNG"
  BY DEF ErrState
<1>5. CASE CpAnswer
  <2>1. /\ InSequence(r) /\ r.kind = "ANSWER" /\ r.code # "CHLNG"
        /\ IF Fits(r) THEN Settle(OkState, NextSeq(cpSeq), 0, Tail(Received))
                      ELSE Settle(ErrState, NextSeq(cpSeq), 0, Tail(Received))
    BY <1>1, <1>5 DEF CpAnswer
  <2>2. CASE Fits(r) /\ Own(r)
    <3>1. ToSet(Received)' \subseteq ToSet(Tail(Received))
      <4>1. OkState = "SC_CHLNG" /\ state # OkState => Received' = <<>>
        BY <2>1, <2>2 DEF Settle, Received
      <4> QED
        BY <1>3, <2>1, <2>2, <4>1, AheadNone
    <3> QED
      BY <1>1, <1>2, <1>3, <2>1, <2>2, <3>1, OwnTaken DEF OwnAnswer
  <2>3. CASE Fits(r) /\ ~Own(r)
    <3>1. state = "ONLINE" /\ OkState = "ONLINE"
      BY <1>1, <1>2, <2>1, <2>3, FitsFacts DEF OkState
    <3> QED
      BY <1>1, <1>2, <1>3, <2>1, <2>3, <3>1, StrayTaken
  <2>4. CASE ~Fits(r)
    BY <1>1, <1>2, <1>3, <1>4, <2>1, <2>4, BadEndPipe
  <2> QED
    BY <2>2, <2>3, <2>4
<1>6. CASE CpCryptogram \/ CpNak
  <2>1. InSequence(Head(Received))
        /\ \E k : Settle(ErrState, NextSeq(cpSeq), k, Tail(Received))
    BY <1>6 DEF CpCryptogram, CpNak
  <2> QED
    BY <1>2, <1>3, <1>4, <2>1, BadEndPipe
<1>7. CASE CpUndecodable \/ CpNoise
  <2>1. \E k : Settle(ErrState, cpSeq, k, Tail(Received))
    BY <1>2, <1>7, NothingIgnored DEF CpUndecodable, CpNoise
  <2> QED
    BY <1>2, <1>3, <2>1, BadEndPipe
<1>8. CASE CpSeqMismatch
  <2>1. Settles("OFFLINE", cpSeq)
    BY <1>3, <1>8 DEF CpSeqMismatch
  <2> QED
    BY <2>1, SettledAnyway
<1> QED
  BY <1>5, <1>6, <1>7, <1>8 DEF CpReceive

LEMMA TimeoutPipe ==
    ASSUME TypeOK, Asking, Pipe, CpTimeout
    PROVE  Pipe'
<1>1. /\ cpPhy # "IDLE" /\ Received = <<>>
      /\ UNCHANGED <<toPd, pdSeq, cache, execs>>
  BY DEF CpTimeout, pd, hist
<1>2. CASE MayRetry
  <2>1. /\ UNCHANGED <<state, cmd, cpSeq, txSeq, rxRb, toCp>>
        /\ Received' = Received
    BY <1>2 DEF CpTimeout, Received
  <2>2. rxRb = <<>>
    <3>1. Len(rxRb \o toCp) = Len(rxRb) + Len(toCp) /\ Len(rxRb \o toCp) = 0
          /\ Len(rxRb) \in Nat /\ Len(toCp) \in Nat
      BY <1>1, ConcatProperties DEF TypeOK, Received
    <3> QED
      BY <3>1, EmptySeq DEF TypeOK
  <2>3. CpNumbers'
    BY <1>1, <2>1, <2>2 DEF Pipe, CpNumbers, Due
  <2>4. Fewer
    BY <1>1, <2>1 DEF Fewer
  <2> QED
    BY <1>1, <2>1, <2>3, <2>4, FewerKeeps
<1>3. CASE ~MayRetry
  <2>1. Settle(ErrState, cpSeq, retry, <<>>)
    BY <1>3 DEF CpTimeout
  <2>2. Settles(ErrState, cpSeq)
    BY <1>1, <2>1, SettlesFacts
  <2> QED
    BY <1>1, <2>2, BadEndPipe
<1> QED
  BY <1>2, <1>3

LEMMA PipeKept ==
    ASSUME Orderly
    PROVE  TypeOK /\ Asking /\ Pipe /\ [Next]_vars => Pipe'
<1> SUFFICES ASSUME TypeOK, Asking, Pipe, [Next]_vars PROVE Pipe'
  OBVIOUS
<1>1. CASE CpRefresh
  BY <1>1, SendPipe, ReceivePipe, TimeoutPipe, RetryPipe, ResetPipe DEF CpRefresh
<1>2. CASE PdRefresh
  BY <1>2, RepeatPipe, ExecutePipe, RefusePipe DEF PdRefresh
<1>3. CASE CpScRetry \/ Disturbance \/ UNCHANGED vars
  BY <1>3, ResetPipe, ReceivePipe, LossKeeps DEF Disturbance
<1> QED
  BY <1>1, <1>2, <1>3 DEF Next

LEMMA InitialPipe == Init => Pipe
<1> SUFFICES ASSUME Init PROVE Pipe
  OBVIOUS
<1>1. Received = <<>> /\ toPd = <<>> /\ Cached = {} /\ cache = NoReply
  BY DEF Init, Received, Cached
<1>2. /\ ToSet(Received) = {} /\ ToSet(toPd) = {} /\ Replies = {} /\ Items = {}
      /\ Ahead(Received) = {} /\ Ahead(toPd) = {}
  BY <1>1, AheadNone DEF Replies, Items
<1> QED
  BY <1>1, <1>2 DEF Init, Pipe, ReplySound, CpNumbers, OwnSound, Sorted, AnsweredSound

\* The answer is the command's own, unless the command has number 0.
LEMMA OwnAccepted ==
    ASSUME TypeOK, Asking, Pipe, [Next]_vars
    PROVE  \/ answered' \in {answered, NoId}
           \/ answered' = cmd.id /\ execs[cmd.id] > 0
           \/ state = "ONLINE" /\ txSeq = 0
<1>1. CASE CpAnswer
  <2>1. PICK r : r = Head(Received)
    OBVIOUS
  <2>2. /\ ReplyHere /\ InSequence(r) /\ r.kind = "ANSWER" /\ r.code # "CHLNG"
        /\ IF Fits(r) THEN answered' = r.id ELSE answered' = answered
    BY <1>1, <2>1 DEF CpAnswer
  <2>3. r \in Replies
    BY <2>1, <2>2, AheadTail, ItemTypes DEF ReplyHere, Replies
  <2>4. Own(r) => r.id = cmd.id /\ execs[cmd.id] > 0
    BY <2>2, <2>3 DEF Own, Pipe, ReplySound
  <2> QED
    BY <2>1, <2>2, <2>4, FitsFacts
<1>2. CASE ~CpAnswer
  BY <1>2 DEF Next, CpRefresh, CpReceive, PdRefresh, Disturbance, CpSend, CpCryptogram,
     CpNak, CpUndecodable, CpSeqMismatch, CpTimeout, CpRetry, CpReconnect, CpScRetry,
     ResetInto, CpNoise, CpRestart, PdRepeat, PdExecute, PdRefuse, PdNoise, PdRestart,
     LoseCommand, LoseReply, vars, hist
<1> QED
  BY <1>1, <1>2

\* osdp_phy_check_packet() and the CP's rules take no reply for the answer to a
\* command it was not made for, for any retry budget, on a line that loses,
\* delays and garbles what it likes, with a PD whose sends fail and with ends
\* that restart; only a command ONLINE that has number 0 is not protected.
THEOREM AnswersBelong ==
    ASSUME Orderly
    PROVE  Spec => AnswersAreOwn
<1>1. Init => TypeOK /\ Asking /\ Pipe
  BY Initially, InitialPipe DEF IInv
<1>2. TypeOK /\ Asking /\ Pipe /\ [Next]_vars => (TypeOK /\ Asking /\ Pipe)'
  BY TypeKept, AskingKept, PipeKept
<1>3. TypeOK /\ Asking /\ Pipe /\ [Next]_vars =>
          [\/ answered' \in {answered, NoId}
           \/ answered' = cmd.id /\ execs[cmd.id] > 0
           \/ state = "ONLINE" /\ txSeq = 0]_vars
  BY OwnAccepted
<1> QED
  BY <1>1, <1>2, <1>3, PTL DEF Spec, AnswersAreOwn

-----------------------------------------------------------------------------
(* The promise of module Rpc *)

\* ONLINE, a command has number 0 only when the budget is spent, so that it is
\* sent once.
Spent ==
    /\ state # "SC_CHLNG" => ~useScbkd
    /\ state = "SC_CHLNG" /\ useScbkd /\ cpSeq = -1 => retry = MaxRetries
    /\ state = "ONLINE" /\ cpSeq = -1 => retry = MaxRetries /\ cpPhy # "WAIT"

\* One command, or one reply to it, is all there is of it.
SentOnce ==
    /\ \A x, y \in ToSet(Received) : <<x, y>> \in Ahead(Received) => ~Own(x)
    /\ \A x, y \in ToSet(toPd) : <<x, y>> \in Ahead(toPd) => ~Own(x)
    /\ \A x \in ToSet(Received) : Own(x) => toPd = <<>>

\* Number 0 keeps no company.
NoZero ==
    /\ state \in {"SC_CHLNG", "ONLINE"} =>
          \A x \in ToSet(Received) \cup ToSet(toPd) : Leftover(x) => x.seq # 0
    /\ state = "ONLINE" /\ cpPhy # "IDLE" /\ txSeq = 0 => SentOnce

LEMMA ZeroFacts ==
    ASSUME TypeOK
    PROVE  /\ Due = 0 <=> cpSeq = -1
           /\ NextSeq(cpSeq) # -1
  BY DEF TypeOK, Due, NextSeq

LEMMA NoMembers ==
    ASSUME NEW S, NEW q \in Seq(S), ToSet(q) = {}
    PROVE  q = <<>>
<1>1. Len(q) \in Nat
  OBVIOUS
<1>2. Len(q) = 0
  <2> SUFFICES ASSUME Len(q) # 0 PROVE FALSE
    OBVIOUS
  <2>1. 1 \in 1..Len(q)
    BY <1>1
  <2> QED
    BY <2>1, Member
<1> QED
  BY <1>2, EmptySeq

\* A step that leaves the CP as it is and adds nothing to the queue.
LEMMA FewerNoZero ==
    ASSUME NoZero, Fewer, UNCHANGED <<state, cmd, txSeq>>,
           cpPhy' # "IDLE" => cpPhy # "IDLE"
    PROVE  NoZero'
<1>1. \A y : Own(y)' = Own(y) /\ Leftover(y)' = Leftover(y)
  BY DEF Own, Leftover
<1> QED
  BY <1>1 DEF NoZero, SentOnce, Fewer

\* The PD takes a frame and sends one reply.
LEMMA EmitNoZero ==
    ASSUME TypeOK, Pipe, NoZero, NEW f, NEW x, Emits(f, x),
           toPd' \in Seq(FrameOf(Codes)),
           state \in {"SC_CHLNG", "ONLINE"} /\ Leftover(x) => x.seq # 0,
           state = "ONLINE" /\ cpPhy # "IDLE" /\ txSeq = 0 /\ Own(x) => Own(f)
    PROVE  NoZero'
<1>1. /\ UNCHANGED <<state, cmd, cpPhy, txSeq>> /\ f \in ToSet(toPd)
      /\ \A y : Own(y)' = Own(y) /\ Leftover(y)' = Leftover(y)
      /\ ToSet(toPd)' \subseteq ToSet(toPd) /\ toPd # <<>>
      /\ ToSet(Received)' \subseteq ToSet(Received) \cup {x}
  BY EmitLeaves DEF Emits
<1>2. state \in {"SC_CHLNG", "ONLINE"} =>
          \A y \in (ToSet(Received) \cup ToSet(toPd))' : Leftover(y) => y.seq # 0
  BY <1>1 DEF NoZero
<1>3. ASSUME state = "ONLINE", cpPhy # "IDLE", txSeq = 0 PROVE SentOnce'
  <2>1. SentOnce
    BY <1>3 DEF NoZero
  <2>2. \A y \in ToSet(Received) : ~Own(y)
    BY <1>1, <2>1 DEF SentOnce
  <2>3. ASSUME NEW y \in ToSet(Received)', NEW z \in ToSet(Received)',
               <<y, z>> \in Ahead(Received)'
        PROVE  ~Own(y)
    <3>1. y \in ToSet(Received)
      <4>1. <<y, z>> \in Ahead(Received) \/ y \in ToSet(Received)
        BY <2>3 DEF Emits
      <4> QED
        BY <4>1, ItemTypes, AheadInside
    <3> QED
      BY <2>2, <3>1
  <2>4. \A y, z \in ToSet(toPd)' : <<y, z>> \in Ahead(toPd)' => ~Own(y)
    BY <2>1 DEF SentOnce, Emits
  <2>5. ASSUME NEW y \in ToSet(Received)', Own(y) PROVE toPd' = <<>>
    <3>1. Own(f)
      BY <1>1, <1>3, <2>2, <2>5
    <3>2. ToSet(toPd') = {}
      BY <1>1, <2>1, <3>1 DEF SentOnce, Emits
    <3> QED
      BY <3>2, NoMembers
  <2> QED
    BY <1>1, <2>3, <2>4, <2>5 DEF SentOnce
<1> QED
  BY <1>1, <1>2, <1>3 DEF NoZero

LEMMA PdNoZero ==
    ASSUME TypeOK, TypeOK', Pipe, NoZero, PdRefresh
    PROVE  NoZero'
<1>1. PICK f : f = Head(toPd)
  OBVIOUS
<1>2. /\ toPd # <<>> /\ f \in FrameOf(Codes) /\ UNCHANGED cp
      /\ toPd' \in Seq(FrameOf(Codes))
  BY <1>1, HeadFacts DEF PdRefresh, PdRepeat, PdExecute, PdRefuse, TypeOK
<1>3. f \in ToSet(toPd)
  BY <1>1, <1>2, AheadTail, ItemTypes
\* A command with number 0 is not answered from the cache.
<1>4. CASE PdRepeat
  <2>1. PICK x : x = cache.reply
    OBVIOUS
  <2>2. /\ CacheHit(f) /\ toPd' = Tail(toPd) /\ cache # NoReply
        /\ toCp' = Put(toCp, x)
    BY <1>1, <1>4, <2>1 DEF PdRepeat, CacheHit
  <2>3. x \in ReplyOf /\ x \in Cached
    BY <2>1, <2>2 DEF TypeOK, Cached
  <2>4. Emits(f, x)
    BY <1>1, <1>2, <2>2, <2>3, EmitFacts
  <2>5. f.seq # 0 /\ f.seq = pdSeq /\ pdSeq \in 1..3
    BY <1>2, <2>2 DEF CacheHit, Repeats, Restarts, FrameOf
  <2>6. x.seq # 0
    BY <2>1, <2>2, <2>5 DEF Pipe, ReplySound, Fit, NextSeq
  <2>7. state = "ONLINE" /\ txSeq = 0 => ~Own(f) /\ ~Own(x)
    BY <1>3, <2>3, <2>5 DEF Pipe, OwnSound, Sorted, InOrder
  <2> QED
    BY <1>2, <2>4, <2>6, <2>7, EmitNoZero
<1>5. CASE PdExecute \/ PdRefuse
  <2>1. PICK x, code, drops : x \in ReplyOf /\ Answers(f, x, code, drops)
    <3>1. CASE PdExecute
      <4>1. PICK kind \in {"ANSWER", "UNKNOWN"} :
                \E drops : PdAnswer(Head(toPd), Head(toPd).code, kind, drops)
        BY <3>1, Zenon DEF PdExecute
      <4>2. kind \in Kinds
        BY DEF Kinds
      <4> QED
        BY <1>1, <1>2, <4>1, <4>2, AnswerFacts
    <3>2. CASE PdRefuse
      <4>1. PICK drops : PdAnswer(Head(toPd), pdCmd, "NAK", drops)
        BY <3>2, Zenon DEF PdRefuse
      <4>2. "NAK" \in Kinds
        BY DEF Kinds
      <4> QED
        BY <1>1, <1>2, <4>1, <4>2, AnswerFacts
    <3> QED
      BY <1>5, <3>1, <3>2
  <2>2. Emits(f, x) /\ x.id = f.id /\ x.code = f.code /\ x.seq = NextSeq(Base(f))
    BY <2>1 DEF Answers
  <2>3. (Own(x) <=> Own(f)) /\ (Leftover(x) => Leftover(f))
    BY <2>2 DEF Own, Leftover
  <2>4. ASSUME state \in {"SC_CHLNG", "ONLINE"}, Leftover(f) PROVE x.seq # 0
    <3>1. f.seq # 0 /\ Fit(f.seq)
      BY <1>3, <2>4 DEF NoZero, Pipe, LeftoverSound
    <3>2. Expected(f)
      BY <1>2, <3>1, ExpectedFacts
    <3> QED
      BY <2>2, <3>1, <3>2 DEF Expected
  <2> QED
    BY <1>2, <2>1, <2>2, <2>3, <2>4, EmitNoZero
<1> QED
  BY <1>4, <1>5 DEF PdRefresh

\* One command that has number 0 is all there is of it.
LEMMA SendNoZero ==
    ASSUME TypeOK, Asking, Pipe, NoZero, NEW code \in Codes, CpSend(code)
    PROVE  NoZero'
<1>1. PICK new, c, f : /\ new = FreeId /\ c = [id |-> new, code |-> code]
                       /\ f = Frame(c, NextSeq(cpSeq))
  OBVIOUS
<1>2. new \in Ids /\ new \notin Remembered
  BY <1>1, FreeFacts DEF CpSend
<1>3. /\ cmd = NoCmd /\ code \in CodesOf[state]
      /\ cmd' = c /\ txSeq' = NextSeq(cpSeq) /\ toPd' = Put(toPd, f)
      /\ cpPhy' = "REPLY_WAIT" /\ Received' = Received
      /\ UNCHANGED <<state, cpSeq, rxRb, pdSeq, cache>>
  BY <1>1 DEF CpSend, Asking, Received, pd
<1>4. /\ f.id = new /\ f.code = code /\ f.seq = NextSeq(cpSeq)
      /\ c.id = new /\ c.code = code
  BY <1>1 DEF Frame
<1>5. f \in FrameOf(Codes)
  BY <1>1, <1>2, <1>4, SeqFacts DEF Frame, FrameOf, TypeOK
<1>6. /\ ToSet(toPd)' \subseteq ToSet(toPd) \cup {f}
      /\ Ahead(toPd)' \subseteq Ahead(toPd) \cup (ToSet(toPd) \X {f})
  BY <1>3, <1>5, ItemTypes, PutFacts, AheadPut
<1>7. \A y \in ToSet(Received) \cup ToSet(toPd) : ~Own(y) /\ y.id # new
  BY <1>1, <1>3, NewName, NothingOwn DEF Items, Replies, CpSend
<1>8. /\ Own(f)' /\ \A y \in ToSet(Received) \cup ToSet(toPd) :
                       ~Own(y)' /\ Leftover(y)' = Leftover(y)
  BY <1>3, <1>4, <1>7 DEF Own, Leftover
<1>9. state' \in {"SC_CHLNG", "ONLINE"} =>
          \A y \in (ToSet(Received) \cup ToSet(toPd))' : Leftover(y)' => y.seq # 0
  BY <1>3, <1>6, <1>8 DEF NoZero, Leftover
<1>10. SentOnce'
  <2>1. ASSUME NEW y \in ToSet(toPd)', NEW z \in ToSet(toPd)',
               <<y, z>> \in Ahead(toPd)'
        PROVE  ~Own(y)'
    <3>1. y \in ToSet(toPd)
      <4>1. <<y, z>> \in Ahead(toPd) \/ y \in ToSet(toPd)
        BY <1>6, <2>1
      <4> QED
        BY <4>1, ItemTypes, AheadInside
    <3> QED
      BY <1>8, <3>1
  <2> QED
    BY <1>3, <1>8, <2>1 DEF SentOnce
<1> QED
  BY <1>9, <1>10 DEF NoZero

\* It is not sent again.
LEMMA RetryNoZero ==
    ASSUME Orderly, TypeOK, Asking, Pipe, Spent, NoZero, CpRetry
    PROVE  NoZero'
<1>1. PICK f : f = Frame(cmd, txSeq)
  OBVIOUS
<1>2. /\ cpPhy = "WAIT" /\ cmd # NoCmd /\ cmd \in [id : Ids, code : Codes]
      /\ txSeq \in 0..3 /\ txSeq = Due /\ rxRb = <<>>
  BY DEF CpRetry, Asking, TypeOK, Pipe, CpNumbers
<1>3. NextSeq(RewoundSeq) = txSeq
  BY <1>2 DEF NextSeq, RewoundSeq
<1>4. /\ toPd' = Put(toPd, f) /\ Received' = <<>>
      /\ txSeq' = txSeq /\ UNCHANGED <<state, cmd>>
  BY <1>1, <1>2, <1>3 DEF CpRetry, Orderly, Received
<1>5. f \in FrameOf(Codes) /\ f.id = cmd.id
  BY <1>1, <1>2 DEF Frame, FrameOf
<1>6. /\ ToSet(toPd)' \subseteq ToSet(toPd) \cup {f} /\ ToSet(Received)' = {}
  <2>1. toPd \in Seq(FrameOf(Codes))
    BY DEF TypeOK
  <2>2. toPd' \in {toPd, Append(toPd, f)}
    BY <1>4, <1>5, <2>1, PutFacts
  <2> QED
    BY <1>4, <1>5, <2>1, <2>2, AheadPut, AheadNone
<1>7. \A y : Leftover(y)' = Leftover(y)
  BY <1>4 DEF Leftover, Own
<1>8. ~Leftover(f)
  BY <1>5 DEF Leftover, Own
<1>9. ~(state = "ONLINE" /\ txSeq = 0)
  BY <1>2, ZeroFacts DEF Spent
<1> QED
  BY <1>4, <1>6, <1>7, <1>8, <1>9 DEF NoZero

LEMMA ResetNoZero ==
    ASSUME Orderly, TypeOK, Asking, NoZero, CpReconnect \/ CpScRetry \/ CpRestart
    PROVE  NoZero'
<1>1. /\ cpPhy' = "IDLE" /\ Received' = <<>> /\ toPd' = toPd
      /\ \/ state' = "INIT"
         \/ state' = "SC_CHLNG" /\ state = "ONLINE" /\ cmd' = cmd
  BY DEF CpReconnect, CpScRetry, CpRestart, ResetInto, TransportAfterReset,
     Received, Asking, Orderly
<1>2. ToSet(Received)' = {}
  BY <1>1, AheadNone
<1>3. cmd' = cmd => \A y : Leftover(y)' = Leftover(y)
  BY DEF Leftover, Own
<1> QED
  BY <1>1, <1>2, <1>3 DEF NoZero

\* A handshake that ends adds nothing to what is left over.
LEMMA BadEndNoZero ==
    ASSUME TypeOK, Pipe, NoZero, cpPhy # "IDLE", NEW n \in {ErrState, "OFFLINE"},
           NEW seq, Settles(n, seq)
    PROVE  NoZero'
<1>1. CASE state = "SC_CHLNG" /\ n # "OFFLINE"
  <2>1. /\ cpPhy' = "IDLE" /\ cmd' = NoCmd
        /\ ToSet(Received)' \subseteq ToSet(Received) /\ ToSet(toPd)' = ToSet(toPd)
    BY AheadNone DEF Settles
  <2>2. cmd.code = "CHLNG"
    BY <1>1 DEF Pipe, CpNumbers, CodesOf
  <2>3. \A y \in ToSet(Received) \cup ToSet(toPd) : Own(y) => y.code = "CHLNG"
    BY <2>2 DEF Pipe, OwnSound, Items, Replies
  <2>4. \A y \in ToSet(Received) \cup ToSet(toPd) : Leftover(y)' => Leftover(y)
    BY <2>1, <2>3 DEF Leftover
  <2> QED
    BY <1>1, <2>1, <2>4 DEF NoZero
<1>2. CASE state # "SC_CHLNG" \/ n = "OFFLINE"
  <2>1. state' = "OFFLINE"
    BY <1>2 DEF Settles, ErrState
  <2> QED
    BY <2>1 DEF NoZero
<1> QED
  BY <1>1, <1>2

\* With no number 0 left over, an answer that fits is the command's own.
LEMMA FitsOwn ==
    ASSUME TypeOK, Asking, Pipe, NoZero, ReplyHere,
           NEW r, r = Head(Received), InSequence(r), r.code # "CHLNG"
    PROVE  Own(r)
<1> SUFFICES ASSUME ~Own(r) PROVE FALSE
  OBVIOUS
<1>1. state \in {"SC_CHLNG", "ONLINE"} /\ Leftover(r) /\ r.seq = 0
  BY StrayFacts
<1>2. r \in ToSet(Received)
  BY AheadTail, ItemTypes DEF ReplyHere
<1> QED
  BY <1>1, <1>2 DEF NoZero

LEMMA AnswerNoZero ==
    ASSUME TypeOK, Asking, Pipe, NoZero, CpAnswer, Fits(Head(Received))
    PROVE  NoZero'
<1>1. PICK r : r = Head(Received)
  OBVIOUS
<1>2. /\ ReplyHere /\ Received # <<>> /\ InSequence(r) /\ r.kind = "ANSWER"
      /\ r.code # "CHLNG" /\ Fits(r) /\ cpPhy # "IDLE"
      /\ Settle(OkState, NextSeq(cpSeq), 0, Tail(Received))
      /\ UNCHANGED <<toPd, pdSeq, cache, execs>>
  BY <1>1 DEF CpAnswer, ReplyHere, pd
<1>3. Own(r)
  BY <1>1, <1>2, FitsOwn
<1>4. Settles(OkState, NextSeq(cpSeq))
  BY <1>2, SettlesFacts
<1>5. ToSet(Received)' \subseteq ToSet(Tail(Received))
  <2>1. OkState = "SC_CHLNG" /\ state # OkState => Received' = <<>>
    BY <1>2 DEF Settle, Received
  <2> QED
    BY <1>2, <2>1, SettlesFacts, AheadNone
<1>6. /\ r \in ToSet(Received)
      /\ \A y \in ToSet(Received)' : <<r, y>> \in Ahead(Received)
      /\ \A y \in Items' : y.seq = Due
  BY <1>1, <1>2, <1>3, <1>4, <1>5, OwnBehind DEF OwnAnswer
<1>7. /\ state' = OkState /\ cpPhy' = "IDLE" /\ toPd' = toPd
      /\ ToSet(Received)' \subseteq ToSet(Received)
  BY <1>4, AheadNone DEF Settles
<1>8. state = "INIT" => state' = "CAPDET"
  BY <1>7 DEF OkState
<1>9. CASE state # "INIT" /\ Due # 0
  BY <1>6, <1>7, <1>9 DEF NoZero, Items, Replies
<1>10. CASE state # "INIT" /\ Due = 0
  <2>1. state = "ONLINE" /\ txSeq = 0
    <3>1. state # "SC_CHLNG"
      BY <1>2 DEF Fits, ReplyHere, Pipe, CpNumbers, CodesOf
    <3>2. state # "CAPDET"
      BY <1>10 DEF Pipe, CpNumbers, Due, NextSeq
    <3>3. state # "OFFLINE" /\ txSeq = Due
      BY <1>2 DEF Asking, Pipe, CpNumbers
    <3> QED
      BY <1>10, <3>1, <3>2, <3>3 DEF TypeOK, States, CodesOf
  <2>2. SentOnce
    BY <1>2, <2>1 DEF NoZero
  <2>3. ToSet(Received)' = {} /\ toPd = <<>>
    BY <1>3, <1>6, <1>7, <2>2 DEF SentOnce
  <2> QED
    BY <1>7, <2>3, AheadNone DEF NoZero
<1> QED
  BY <1>7, <1>8, <1>9, <1>10 DEF NoZero

LEMMA ReceiveNoZero ==
    ASSUME Orderly, TypeOK, Asking, Pipe, NoZero, CpReceive \/ CpTimeout
    PROVE  NoZero'
<1>1. cpPhy # "IDLE" /\ UNCHANGED <<toPd, pdSeq, cache, execs>>
  BY DEF CpReceive, CpAnswer, CpCryptogram, CpNak, CpUndecodable, CpSeqMismatch,
     CpTimeout, ReplyHere, pd, hist
<1>2. CASE CpReceive
  <2>1. Received # <<>> /\ ~Ignored(Head(Received))
    BY <1>2, NothingIgnored DEF CpReceive, CpAnswer, CpCryptogram, CpNak,
       CpUndecodable, CpSeqMismatch, ReplyHere
  <2>2. CASE CpAnswer /\ Fits(Head(Received))
    BY <2>2, AnswerNoZero
  <2>3. CASE ~(CpAnswer /\ Fits(Head(Received)))
    <3>1. PICK n \in {ErrState, "OFFLINE"}, seq \in {cpSeq, NextSeq(cpSeq)},
               k \in {0, retry} : Settle(n, seq, k, Tail(Received))
      BY <1>2, <2>1, <2>3 DEF CpReceive, CpAnswer, CpCryptogram, CpNak, CpUndecodable,
         CpSeqMismatch
    <3>2. Settles(n, seq)
      BY <1>1, <2>1, <3>1, SettlesFacts
    <3> QED
      BY <1>1, <3>2, BadEndNoZero
  <2> QED
    BY <2>2, <2>3
<1>3. CASE CpTimeout /\ MayRetry
  <2>1. UNCHANGED <<state, cmd, txSeq, Received>>
    BY <1>3 DEF CpTimeout, Received
  <2>2. Fewer
    BY <1>1, <2>1 DEF Fewer
  <2> QED
    BY <1>1, <2>1, <2>2, FewerNoZero
<1>4. CASE CpTimeout /\ ~MayRetry
  <2>1. Settle(ErrState, cpSeq, retry, <<>>)
    BY <1>4 DEF CpTimeout
  <2>2. Settles(ErrState, cpSeq)
    BY <1>1, <2>1, SettlesFacts
  <2> QED
    BY <1>1, <2>2, BadEndNoZero
<1> QED
  BY <1>2, <1>3, <1>4

LEMMA NoZeroKept ==
    ASSUME Orderly, "noise" \notin Faults
    PROVE  TypeOK /\ Asking /\ Pipe /\ Spent /\ NoZero /\ [Next]_vars => NoZero'
<1> SUFFICES ASSUME TypeOK, Asking, Pipe, Spent, NoZero, [Next]_vars PROVE NoZero'
  OBVIOUS
<1>1. TypeOK'
  BY TypeKept
<1>2. CASE CpRefresh
  BY <1>2, SendNoZero, ReceiveNoZero, RetryNoZero, ResetNoZero DEF CpRefresh
<1>3. CASE PdRefresh
  BY <1>1, <1>3, PdNoZero
<1>4. CASE CpScRetry \/ CpRestart
  BY <1>4, ResetNoZero
<1>5. CASE LoseReply \/ LoseCommand \/ PdNoise \/ PdRestart \/ UNCHANGED vars
  <2>1. Fewer /\ UNCHANGED <<state, cmd, cpPhy, txSeq>>
    BY <1>5, LossFewer DEF cp
  <2> QED
    BY <2>1, FewerNoZero
<1>6. ~CpNoise
  BY DEF CpNoise, Trouble
<1> QED
  BY <1>2, <1>3, <1>4, <1>5, <1>6 DEF Next, Disturbance

\* The budget is not renewed by a handshake that no reply got through to.
LEMMA SpentKept ==
    ASSUME Orderly, "noise" \notin Faults
    PROVE  TypeOK /\ Asking /\ Pipe /\ Spent /\ NoZero /\ [Next]_vars => Spent'
<1> SUFFICES ASSUME TypeOK, Asking, Pipe, Spent, NoZero, [Next]_vars PROVE Spent'
  OBVIOUS
<1>1. retry \in 0..MaxRetries /\ MaxRetries \in Nat
  BY LinkAssumption DEF TypeOK
<1>2. ASSUME NEW n, NEW seq, NEW spent, NEW rest, Settle(n, seq, spent, rest)
      PROVE  /\ state' = n /\ cpPhy' = "IDLE"
             /\ useScbkd' <=> state = "SC_CHLNG" /\ n = "SC_CHLNG"
             /\ n # "SC_CHLNG" \/ state = n => cpSeq' = seq /\ retry' = spent
  BY <1>2, Zenon DEF Settle
<1>3. ASSUME NEW seq, seq # -1, NEW spent, NEW rest, NEW n,
             Settle(n, seq, spent, rest)
      PROVE  Spent'
  BY <1>2, <1>3 DEF Spent
<1>4. ASSUME NEW spent, NEW rest, Settle(ErrState, cpSeq, spent, rest),
             state = "SC_CHLNG" /\ cpSeq = -1 => spent = MaxRetries
      PROVE  Spent'
  <2>1. CASE state = "SC_CHLNG"
    BY <1>2, <1>4, <2>1 DEF Spent, ErrState
  <2>2. CASE state # "SC_CHLNG"
    BY <1>2, <1>4, <2>2 DEF Spent, ErrState
  <2> QED
    BY <2>1, <2>2
<1>5. CASE \E code \in Codes : CpSend(code)
  BY <1>5 DEF CpSend, Spent
<1>6. CASE CpAnswer \/ CpCryptogram \/ CpNak
  BY <1>3, <1>6, ZeroFacts DEF CpAnswer, CpCryptogram, CpNak
\* An unknown reply has number 0 only if it is left over.
<1>7. CASE CpUndecodable
  <2>1. PICK r : r = Head(Received)
    OBVIOUS
  <2>2. /\ ReplyHere /\ InSequence(r) /\ Received # <<>> /\ ~Ignored(r)
        /\ \/ r.kind = "UNKNOWN"
           \/ r.kind = "ANSWER" /\ r.code = "CHLNG" /\ cmd.code # "CHLNG"
        /\ Settle(ErrState, cpSeq, retry, Tail(Received))
    BY <1>7, <2>1, NothingIgnored DEF CpUndecodable, ReplyHere
  <2>3. ~(state = "SC_CHLNG" /\ cpSeq = -1)
    <3> SUFFICES ASSUME state = "SC_CHLNG" PROVE FALSE
      OBVIOUS
    <3>1. cmd.code = "CHLNG"
      BY <2>2 DEF ReplyHere, Pipe, CpNumbers, CodesOf
    <3>2. r \in Replies /\ r \in Items
      BY <2>1, <2>2, AheadTail, ItemTypes DEF Replies, Items
    <3>3. r.code = "POLL"
      BY <2>2, <3>1, <3>2 DEF Pipe, ReplySound
    <3>4. Own(r)
      BY <2>1, <2>2, <3>3, FitsOwn
    <3> QED
      BY <3>1, <3>2, <3>3, <3>4 DEF Pipe, OwnSound
  <2> QED
    BY <1>4, <2>2, <2>3
<1>8. CASE CpSeqMismatch
  BY <1>2, <1>8 DEF CpSeqMismatch, Spent
<1>9. CASE CpTimeout
  <2>1. CASE MayRetry
    <3>1. /\ retry < MaxRetries /\ UNCHANGED <<state, cpSeq, useScbkd>>
      BY <1>9, <2>1 DEF CpTimeout, MayRetry
    <3> QED
      BY <1>1, <3>1 DEF Spent
  <2>2. CASE ~MayRetry
    BY <1>1, <1>4, <1>9, <2>2 DEF CpTimeout, MayRetry
  <2> QED
    BY <2>1, <2>2
<1>10. CASE CpRetry
  <2>1. /\ cpPhy = "WAIT" /\ cpSeq' = txSeq - 1 /\ txSeq = Due /\ txSeq \in 0..3
        /\ UNCHANGED <<state, retry, useScbkd>>
    BY <1>10 DEF CpRetry, RewoundSeq, Pipe, CpNumbers, TypeOK
  <2>2. cpSeq' = -1 => cpSeq = -1
    BY <2>1, ZeroFacts
  <2> QED
    BY <2>1, <2>2 DEF Spent
<1>11. CASE CpReconnect \/ CpScRetry \/ CpRestart
  <2>1. ~useScbkd'
    <3>1. CASE CpReconnect \/ CpScRetry
      BY <3>1 DEF CpReconnect, CpScRetry, ResetInto, Spent
    <3>2. CASE CpRestart
      BY <3>2, Zenon DEF CpRestart
    <3> QED
      BY <1>11, <3>1, <3>2
  <2>2. state' \in {"INIT", "SC_CHLNG"}
    BY <1>11 DEF CpReconnect, CpScRetry, CpRestart, ResetInto
  <2> QED
    BY <2>1, <2>2 DEF Spent
<1>12. CASE UNCHANGED cp
  BY <1>12 DEF cp, Spent
<1>13. CASE PdRefresh \/ PdNoise \/ PdRestart \/ LoseCommand \/ LoseReply
  BY <1>12, <1>13 DEF PdRefresh, PdRepeat, PdExecute, PdRefuse, PdNoise, PdRestart,
     LoseCommand, LoseReply
<1>14. ~CpNoise
  BY DEF CpNoise, Trouble
<1> QED
  BY <1>5, <1>6, <1>7, <1>8, <1>9, <1>10, <1>11, <1>12, <1>13, <1>14
     DEF Next, CpRefresh, CpReceive, Disturbance, vars

RInv == IInv /\ Pipe /\ Spent /\ NoZero

LEMMA RInvKept ==
    ASSUME Orderly, Faults \cap {"send", "noise"} = {}
    PROVE  RInv /\ [Next]_vars => RInv'
<1>1. "noise" \notin Faults
  OBVIOUS
<1> QED
  BY <1>1, EveryStepKeeps, PipeKept, SpentKept, NoZeroKept DEF RInv, IInv

LEMMA InitialRInv == Init => RInv
<1> SUFFICES ASSUME Init PROVE RInv
  OBVIOUS
<1>1. IInv /\ Pipe
  BY Initially, InitialPipe
<1>2. Spent
  <2>1. ~useScbkd
    BY Zenon DEF Init
  <2> QED
    BY <2>1 DEF Init, Spent
<1>3. NoZero
  BY DEF Init, NoZero
<1> QED
  BY <1>1, <1>2, <1>3 DEF RInv

\* The CP gives a command up, or does nothing the other end can tell.
LEMMA GivesUp ==
    ASSUME TypeOK, Asking, UNCHANGED hist, cmd' = cmd \/ cmd' = NoCmd
    PROVE  [Promise!Next]_Promise!vars
<1>1. CASE cmd'.id = cmd.id
  BY <1>1 DEF Promise!vars, hist
<1>2. CASE cmd'.id # cmd.id
  <2>1. cmd.id # NoId /\ cmd'.id = NoId
    BY <1>2 DEF NoCmd
  <2>2. Promise!GiveUp
    BY <2>1 DEF Promise!GiveUp, hist
  <2> QED
    BY <2>2 DEF Promise!Next
<1> QED
  BY <1>1, <1>2

\* The steps of the CP, and of a PD that executes or forgets.
LEMMA SendPromise ==
    ASSUME TypeOK, Asking, NEW code \in Codes, CpSend(code)
    PROVE  [Promise!Next]_Promise!vars
<1>1. FreeId \in Ids /\ cmd = NoCmd
  BY FreeFacts DEF CpSend, Asking
<1>2. /\ cmd'.id = FreeId /\ cmd.id = NoId /\ answered' = NoId
      /\ execs' = [execs EXCEPT ![FreeId] = 0]
      /\ repeatable' = IF NextSeq(cpSeq) = 0 THEN repeatable \cup {FreeId}
                                             ELSE repeatable \ {FreeId}
  BY <1>1 DEF CpSend, NoCmd
<1>3. CASE NextSeq(cpSeq) = 0
  <2>1. Promise!Issue(FreeId, TRUE)
    BY <1>2, <1>3 DEF Promise!Issue
  <2> QED
    BY <1>1, <2>1 DEF Promise!Next
<1>4. CASE NextSeq(cpSeq) # 0
  <2>1. Promise!Issue(FreeId, FALSE)
    BY <1>2, <1>4 DEF Promise!Issue
  <2> QED
    BY <1>1, <2>1 DEF Promise!Next
<1> QED
  BY <1>3, <1>4

LEMMA AnswerPromise ==
    ASSUME RInv, CpAnswer
    PROVE  [Promise!Next]_Promise!vars
<1>1. TypeOK /\ Asking /\ Pipe /\ NoZero
  BY DEF RInv, IInv
<1>2. PICK r : r = Head(Received)
  OBVIOUS
<1>3. /\ ReplyHere /\ InSequence(r) /\ r.kind = "ANSWER" /\ r.code # "CHLNG"
      /\ IF Fits(r) THEN answered' = r.id ELSE answered' = answered
      /\ cmd' = NoCmd /\ UNCHANGED <<execs, repeatable>>
  BY <1>2 DEF CpAnswer, Settle
<1>4. CASE Fits(r)
  <2>1. Own(r) /\ r \in Replies /\ r \in Items
    BY <1>1, <1>2, <1>3, FitsOwn, AheadTail, ItemTypes DEF ReplyHere, Replies, Items
  <2>2. /\ answered' = cmd.id /\ execs[cmd.id] > 0 /\ cmd.id # NoId
    BY <1>1, <1>3, <1>4, <2>1, ItemNames DEF Own, Pipe, ReplySound
  <2>3. Promise!Answer
    BY <1>3, <2>2 DEF Promise!Answer, NoCmd
  <2> QED
    BY <2>3 DEF Promise!Next
<1>5. CASE ~Fits(r)
  BY <1>1, <1>3, <1>5, GivesUp DEF hist
<1> QED
  BY <1>4, <1>5

LEMMA ExecutePromise ==
    ASSUME RInv, PdExecute
    PROVE  [Promise!Next]_Promise!vars
<1>1. PICK f : f = Head(toPd)
  OBVIOUS
<1>2. /\ toPd # <<>> /\ ~CacheHit(f)
      /\ execs' = [execs EXCEPT ![f.id] = IF @ = 0 THEN 1 ELSE 2]
      /\ UNCHANGED <<cmd, repeatable, answered>>
  BY <1>1 DEF PdExecute, cp
<1>3. f \in FrameOf(Codes) /\ f.id \in Ids
  BY <1>1, <1>2, HeadFacts DEF RInv, IInv, TypeOK, FrameOf
<1>4. ~Executed(f.id)
  <2>1. 1 \in Waiting /\ f = toPd[1]
    <3>1. Len(toPd) \in Nat \ {0} /\ f = toPd[1]
      BY <1>1, <1>2, HeadTailProperties DEF RInv, IInv, TypeOK
    <3> QED
      BY <3>1 DEF Waiting
  <2> QED
    BY <1>2, <2>1 DEF RInv, IInv, Line, ExecutedFirst
<1>5. execs[f.id] = 0 \/ f.id \in repeatable
  BY <1>3, <1>4 DEF Executed, RInv, IInv, TypeOK
<1>6. Promise!Execute(f.id)
  BY <1>2, <1>5 DEF Promise!Execute
<1> QED
  BY <1>3, <1>6 DEF Promise!Next

LEMMA RestartPromise ==
    ASSUME TypeOK, PdRestart
    PROVE  [Promise!Next]_Promise!vars
<1>1. PICK forgotten \in SUBSET Ids : repeatable' = repeatable \cup forgotten
  <2>1. CASE cmd = NoCmd
    <3>1. {} \in SUBSET Ids /\ repeatable' = repeatable \cup {}
      BY <2>1 DEF PdRestart
    <3> QED
      BY <3>1
  <2>2. CASE cmd # NoCmd
    <3>1. {cmd.id} \in SUBSET Ids /\ repeatable' = repeatable \cup {cmd.id}
      BY <2>2 DEF PdRestart, TypeOK
    <3> QED
      BY <3>1
  <2> QED
    BY <2>1, <2>2
<1>2. UNCHANGED <<cmd, execs, answered>>
  BY DEF PdRestart, cp
<1>3. Promise!Forget(forgotten)
  BY <1>1, <1>2 DEF Promise!Forget
<1> QED
  BY <1>1, <1>3 DEF Promise!Next

LEMMA EveryStepPromised ==
    RInv /\ [Next]_vars => [Promise!Next]_Promise!vars
<1> SUFFICES ASSUME RInv, [Next]_vars PROVE [Promise!Next]_Promise!vars
  OBVIOUS
<1>1. TypeOK /\ Asking
  BY DEF RInv, IInv
<1>2. CASE \E code \in Codes : CpSend(code)
  BY <1>1, <1>2, SendPromise
<1>3. CASE CpAnswer
  BY <1>3, AnswerPromise
<1>4. CASE PdExecute
  BY <1>4, ExecutePromise
<1>5. CASE PdRestart
  BY <1>1, <1>5, RestartPromise
<1>6. CASE \/ CpCryptogram \/ CpNak \/ CpUndecodable \/ CpSeqMismatch \/ CpTimeout
           \/ CpNoise \/ CpRestart
  <2>1. UNCHANGED hist /\ (cmd' = cmd \/ cmd' = NoCmd)
    BY <1>6 DEF CpCryptogram, CpNak, CpUndecodable, CpSeqMismatch, CpTimeout, CpNoise,
       CpRestart, Settle
  <2> QED
    BY <1>1, <2>1, GivesUp
<1>7. CASE \/ CpRetry \/ CpReconnect \/ CpScRetry \/ PdRepeat \/ PdRefuse \/ PdNoise
           \/ LoseCommand \/ LoseReply \/ UNCHANGED vars
  <2>1. UNCHANGED hist /\ cmd' = cmd
    BY <1>7 DEF CpRetry, CpReconnect, CpScRetry, ResetInto, PdRepeat, PdRefuse, PdNoise,
       LoseCommand, LoseReply, vars, cp
  <2> QED
    BY <1>1, <2>1, GivesUp
<1> QED
  BY <1>2, <1>3, <1>4, <1>5, <1>6, <1>7
     DEF Next, CpRefresh, CpReceive, PdRefresh, Disturbance

\* The link implements the remote procedure call of module Rpc: a command is
\* executed once, and the reply the CP takes is the answer to it, even where a
\* handshake leaves the numbers as they were.  As for ExecutedOnce, the line
\* and the PD lose and delay, but they do not garble or fail to send.
THEOREM LinkImplementsRpc ==
    ASSUME Orderly, Faults \cap {"send", "noise"} = {}
    PROVE  Spec => KeepsPromise
<1>1. Init => Promise!Init
  BY DEF Init, Promise!Init, NoCmd
<1>2. RInv /\ [Next]_vars => [Promise!Next]_Promise!vars
  BY EveryStepPromised
<1>3. Init => RInv
  BY InitialRInv
<1>4. RInv /\ [Next]_vars => RInv'
  BY RInvKept
<1> QED
  BY <1>1, <1>2, <1>3, <1>4, PTL DEF Spec, KeepsPromise, Promise!Spec
=============================================================================
