---------------------------- MODULE PdCoreProofs ----------------------------
(* Theorems about PdCore, for every set of events and keys, every choice of
   answers and faults.                                                       *)
EXTENDS PdCore, SequenceTheorems, TLAPS

-----------------------------------------------------------------------------
(* The inductive invariant behind the safety properties.  It follows one
   exchange from label to label.                                             *)

\* A reply is parked from its building until the transport takes it or fails;
\* the command is unanswered from its reception until then.
ParkInv ==
    /\ pc \in {"receive", "command", "decoded", "gone"} => ~parked
    /\ pc = "built" => parked
    /\ pc = "completing" => (parked <=> resume = "built")
    /\ owed = IF parked \/ pc \in {"command", "decoded"} THEN 1 ELSE 0

\* pd->active_event is set while, and only while, an event answers.
ActiveInv ==
    /\ pc \in {"receive", "command", "gone"} => active = NoEvent
    /\ pc = "idle" /\ ~parked => active = NoEvent
    /\ pc = "completing" => active # NoEvent
    /\ pc = "decoded" => (active # NoEvent <=> reply = "EVENT")

\* The parked packet answers the command received last.
StagedInv == parked =>
    /\ staged.cmd = cmd
    /\ staged.event = IF pc = "completing" THEN NoEvent ELSE active
    /\ staged.reply = reply \/ (reply = "EVENT" /\ staged.reply = "NAK")
    /\ staged.event # NoEvent => staged.reply = "EVENT"

\* The union holds the key of an accepted KEYSET until its acknowledgement is
\* out: nothing is received in between.
KeyInv ==
    (parked \/ pc \in {"command", "decoded"}) /\ CommitsKey =>
        scratch = accepted /\ accepted \in Keys

\* What an enforcing PD discloses was asked for, and is finalized, in a session.
EnforceInv ==
    /\ enforce /\ pc = "command" => sc
    /\ enforce /\ pc = "decoded" /\ reply = "EVENT" => sc
    /\ pc = "decoded" => reply # "REPORT"
    /\ enforce /\ parked /\ staged.reply \in {"EVENT", "REPORT"} =>
         staged.secure

IInv ==
    TypeOK /\ ParkInv /\ ActiveInv /\ StagedInv /\ KeyInv /\ EnforceInv
    /\ DefaultKeyRetired

-----------------------------------------------------------------------------
(* The queue, a sequence without duplicates: enqueue appends, dequeue takes
   the head.                                                               *)

\* What is in a queue has the queue's type.
LEMMA RangeLemma ==
  ASSUME NEW S, NEW q \in Seq(S)
  PROVE  Range(q) \subseteq S
  BY RangeOfSeq

\* enqueue adds one object at the end of the queue.
LEMMA AppendLemma ==
  ASSUME NEW S, NEW q \in Seq(S), NEW x \in S
  PROVE  /\ Range(Append(q, x)) = Range(q) \cup {x}
         /\ IsInjective(q) /\ x \notin Range(q) => IsInjective(Append(q, x))
<1>1. /\ DOMAIN q = 1..Len(q) /\ DOMAIN Append(q, x) = 1..(Len(q) + 1)
      /\ Len(q) \in Nat /\ Append(q, x)[Len(q) + 1] = x
      /\ \A i \in 1..Len(q) : Append(q, x)[i] = q[i]
  OBVIOUS
<1> QED
  BY <1>1 DEF Range, IsInjective

\* dequeue takes the first object out of the queue.
LEMMA TailLemma ==
  ASSUME NEW S, NEW q \in Seq(S), q # <<>>, IsInjective(q)
  PROVE  /\ Head(q) \in S
         /\ Head(q) \notin Range(Tail(q))
         /\ Range(q) = Range(Tail(q)) \cup {Head(q)}
         /\ IsInjective(Tail(q))
<1>1. /\ DOMAIN q = 1..Len(q) /\ DOMAIN Tail(q) = 1..(Len(q) - 1)
      /\ Len(q) \in Nat /\ Len(q) > 0 /\ Head(q) = q[1] /\ Head(q) \in S
      /\ \A i \in 1..(Len(q) - 1) : Tail(q)[i] = q[i + 1]
  OBVIOUS
<1>2. Range(q) = Range(<<Head(q)>>) \cup Range(Tail(q))
  <2>1. q = <<Head(q)>> \o Tail(q) /\ <<Head(q)>> \in Seq(S) /\ Tail(q) \in Seq(S)
    BY <1>1
  <2> QED
    BY <2>1, RangeConcatenation
<1>3. Head(q) \notin Range(Tail(q)) /\ IsInjective(Tail(q))
  BY <1>1 DEF Range, IsInjective
<1>4. Range(<<Head(q)>>) = {Head(q)}
  BY DEF Range
<1> QED
  BY <1>1, <1>2, <1>3, <1>4

\* A queue that was detached is empty.
LEMMA EmptyLemma == Range(<<>>) = {} /\ IsInjective(<<>>)
  BY DEF Range, IsInjective

-----------------------------------------------------------------------------
(* Type correctness *)

\* The first event of a queue is an event, the others are a queue.
LEMMA HeadType ==
  ASSUME TypeOK, queue # <<>>
  PROVE  Head(queue) \in Events /\ Tail(queue) \in Seq(Events)
  BY DEF TypeOK, EventsOK

\* What is in a queue of events are events.
LEMMA RangeType ==
  ASSUME TypeOK
  PROVE  Range(queue) \subseteq Events
  BY RangeLemma DEF TypeOK, EventsOK

\* osdp_pd_setup() starts the PD in a well-typed state.
LEMMA InitTypeOK == Init => TypeOK
<1>1. NoFrame \in Frames
  BY DEF NoFrame, Frames, Replies
<1> SUFFICES ASSUME Init PROVE TypeOK
  OBVIOUS
<1>2. ControlOK /\ SessionOK
  BY DEF Init, ControlOK, SessionOK
<1>3. ExchangeOK
  BY DEF Init, ExchangeOK, Replies
<1>4. SendingOK
  BY <1>1 DEF Init, SendingOK
<1>5. EventsOK
  BY DEF Init, EventsOK
<1> QED
  BY <1>2, <1>3, <1>4, <1>5 DEF TypeOK

\* Every API call and every step of a refresh keeps every variable in its type,
\* given that what is committed is a key and that a command is received only
\* when the one before it is answered.
LEMMA StepTypeOK == IInv /\ [Next]_vars => TypeOK'
<1> SUFFICES ASSUME IInv, [Next]_vars PROVE TypeOK'
  OBVIOUS
<1>0. NoFrame \in Frames
  BY DEF NoFrame, Frames, Replies
<1> USE DEF IInv
<1>1. ASSUME NEW e \in Events, osdp_pd_submit_event(e) PROVE TypeOK'
  BY <1>1, <1>0 DEF osdp_pd_submit_event, AppHasControl, Quiet, TypeOK,
     ControlOK, SessionOK, ExchangeOK, SendingOK, EventsOK, Replies, Codes,
     CallbackCodes, session, sending, control
<1>2. ASSUME osdp_pd_flush_events PROVE TypeOK'
  <2>1. ControlOK'
    BY <1>2 DEF osdp_pd_flush_events, AppHasControl, HandBack, TypeOK,
       ControlOK, control
  <2>2. SessionOK'
    BY <1>2 DEF osdp_pd_flush_events, AppHasControl, HandBack, TypeOK,
       SessionOK, session
  <2>3. ExchangeOK'
    BY <1>2 DEF osdp_pd_flush_events, AppHasControl, HandBack, TypeOK,
       ExchangeOK, Replies, exchange
  <2>4. SendingOK'
    BY <1>2, <1>0 DEF osdp_pd_flush_events, AppHasControl, HandBack, TypeOK,
       SendingOK, sending
  <2>5. EventsOK'
    BY <1>2, RangeType DEF osdp_pd_flush_events, HandBack, TypeOK, EventsOK
  <2> QED
    BY <2>1, <2>2, <2>3, <2>4, <2>5 DEF TypeOK
<1>3. ASSUME osdp_pd_teardown PROVE TypeOK'
  <2>1. ControlOK'
    BY <1>3 DEF osdp_pd_teardown, HandBack, TypeOK, ControlOK
  <2>2. SessionOK'
    BY <1>3 DEF osdp_pd_teardown, HandBack, TypeOK, SessionOK
  <2>3. ExchangeOK'
    BY <1>3 DEF osdp_pd_teardown, HandBack, TypeOK, ExchangeOK, Replies
  <2>4. SendingOK'
    BY <1>3, <1>0 DEF osdp_pd_teardown, HandBack, TypeOK, SendingOK
  <2>5. EventsOK'
    BY <1>3, RangeType DEF osdp_pd_teardown, HandBack, TypeOK, EventsOK
  <2> QED
    BY <2>1, <2>2, <2>3, <2>4, <2>5 DEF TypeOK
<1>4. ASSUME osdp_pd_setup PROVE TypeOK'
  BY <1>4, <1>0 DEF osdp_pd_setup, Quiet, TypeOK, ControlOK, SessionOK,
     ExchangeOK, SendingOK, EventsOK, Replies, Codes, CallbackCodes,
     sending, events
<1>5. ASSUME Begin PROVE TypeOK'
  <2>1. ControlOK'
    BY <1>5 DEF Begin, AfterTimers, EndSession, Quiet, TypeOK, ControlOK
  <2>2. SessionOK'
    BY <1>5 DEF Begin, AfterTimers, EndSession, Quiet, TypeOK, SessionOK
  <2>3. ExchangeOK'
    BY <1>5 DEF Begin, AfterTimers, EndSession, Quiet, TypeOK, ExchangeOK,
       Replies, exchange
  <2>4. SendingOK'
    BY <1>5, <1>0 DEF Begin, AfterTimers, EndSession, Quiet, TypeOK,
       SendingOK, sending
  <2>5. EventsOK'
    BY <1>5 DEF Begin, AfterTimers, EndSession, Quiet, TypeOK, EventsOK,
       events
  <2> QED
    BY <2>1, <2>2, <2>3, <2>4, <2>5 DEF TypeOK
<1>6. ASSUME ReceiveNothing PROVE TypeOK'
  BY <1>6, <1>0 DEF ReceiveNothing, Quiet, TypeOK, ControlOK, SessionOK,
     ExchangeOK, SendingOK, EventsOK, Replies, Codes, CallbackCodes,
     session, exchange, sending, events
<1>7. ASSUME ReceiveError PROVE TypeOK'
  <2>1. ControlOK'
    BY <1>7 DEF ReceiveError, Quiet, TypeOK, ControlOK
  <2>2. SessionOK'
    BY <1>7 DEF ReceiveError, Quiet, TypeOK, SessionOK
  <2>3. ExchangeOK'
    BY <1>7 DEF ReceiveError, Quiet, TypeOK, ExchangeOK, Replies, exchange
  <2>4. SendingOK'
    BY <1>7, <1>0 DEF ReceiveError, Quiet, TypeOK, SendingOK, sending
  <2>5. EventsOK'
    BY <1>7 DEF ReceiveError, Quiet, TypeOK, EventsOK, events
  <2> QED
    BY <2>1, <2>2, <2>3, <2>4, <2>5 DEF TypeOK
<1>8. ASSUME Refuse PROVE TypeOK'
  <2>1. ControlOK'
    BY <1>8 DEF Refuse, Received, Quiet, TypeOK, ControlOK
  <2>2. SessionOK'
    BY <1>8 DEF Refuse, Received, Quiet, TypeOK, SessionOK
  <2>3. ExchangeOK'
    BY <1>8 DEF Refuse, Received, Quiet, TypeOK, ExchangeOK, ParkInv,
       Replies
  <2>4. SendingOK'
    BY <1>8, <1>0 DEF Refuse, Received, Quiet, TypeOK, SendingOK, sending
  <2>5. EventsOK'
    BY <1>8 DEF Refuse, Received, Quiet, TypeOK, EventsOK, events
  <2> QED
    BY <2>1, <2>2, <2>3, <2>4, <2>5 DEF TypeOK
<1>9. ASSUME NEW r \in BOOLEAN, NEW c \in Codes, DecodeRefused(c, r)
       PROVE  TypeOK'
  <2>1. ControlOK'
    BY <1>9 DEF DecodeRefused, Decode, Received, HandshakeKey, SecureAfter,
       Quiet, TypeOK, ControlOK
  <2>2. SessionOK'
    BY <1>9 DEF DecodeRefused, Decode, Received, HandshakeKey, SecureAfter,
       Quiet, TypeOK, SessionOK
  <2>3. ExchangeOK'
    BY <1>9 DEF DecodeRefused, Decode, Received, HandshakeKey, SecureAfter,
       Quiet, TypeOK, ExchangeOK, ParkInv, Replies, Codes
  <2>4. SendingOK'
    BY <1>9, <1>0 DEF DecodeRefused, Decode, Received, HandshakeKey,
       SecureAfter, Quiet, TypeOK, SendingOK, sending
  <2>5. EventsOK'
    BY <1>9 DEF DecodeRefused, Decode, Received, HandshakeKey, SecureAfter,
       Quiet, TypeOK, EventsOK, events
  <2> QED
    BY <2>1, <2>2, <2>3, <2>4, <2>5 DEF TypeOK
<1>10. ASSUME NEW r \in BOOLEAN, DecodePoll(r) PROVE TypeOK'
  <2>1. ControlOK'
    BY <1>10 DEF DecodePoll, Decode, Received, HandshakeKey, SecureAfter,
       Allowed, TakeEvent, Dequeued, Quiet, TypeOK, ControlOK
  <2>2. SessionOK'
    BY <1>10 DEF DecodePoll, Decode, Received, HandshakeKey, SecureAfter,
       Allowed, TakeEvent, Dequeued, Quiet, TypeOK, SessionOK
  <2>3. ExchangeOK'
    BY <1>10 DEF DecodePoll, Decode, Received, HandshakeKey, SecureAfter,
       Allowed, TakeEvent, Dequeued, Quiet, TypeOK, ExchangeOK, ParkInv,
       Replies, Codes, CallbackCodes
  <2>4. SendingOK'
    BY <1>10, <1>0 DEF DecodePoll, Decode, Received, HandshakeKey,
       SecureAfter, Allowed, TakeEvent, Dequeued, Quiet, TypeOK, SendingOK,
       sending
  <2>5. EventsOK'
    BY <1>10, HeadType DEF DecodePoll, Decode, Received, TakeEvent, Dequeued,
       Quiet, TypeOK, EventsOK, events
  <2> QED
    BY <2>1, <2>2, <2>3, <2>4, <2>5 DEF TypeOK
<1>11. ASSUME NEW r \in BOOLEAN, NEW c \in Codes, DecodeLibrary(c, r)
       PROVE  TypeOK'
  <2>1. ControlOK'
    BY <1>11 DEF DecodeLibrary, Decode, Received, HandshakeKey, SecureAfter,
       Quiet, TypeOK, ControlOK
  <2>2. SessionOK'
    BY <1>11 DEF DecodeLibrary, Decode, Received, HandshakeKey, SecureAfter,
       Quiet, TypeOK, SessionOK
  <2>3. ExchangeOK'
    BY <1>11 DEF DecodeLibrary, Decode, Received, HandshakeKey, SecureAfter,
       Quiet, TypeOK, ExchangeOK, ParkInv, Replies, Codes
  <2>4. SendingOK'
    BY <1>11, <1>0 DEF DecodeLibrary, Decode, Received, HandshakeKey,
       SecureAfter, Quiet, TypeOK, SendingOK, sending
  <2>5. EventsOK'
    BY <1>11 DEF DecodeLibrary, Decode, Received, HandshakeKey, SecureAfter,
       Quiet, TypeOK, EventsOK, events
  <2> QED
    BY <2>1, <2>2, <2>3, <2>4, <2>5 DEF TypeOK
<1>12. ASSUME NEW r \in BOOLEAN, NEW c \in Codes, DecodeCommand(c, r)
       PROVE  TypeOK'
  <2>1. ControlOK'
    BY <1>12 DEF DecodeCommand, Decode, Received, HandshakeKey, SecureAfter,
       Allowed, Quiet, TypeOK, ControlOK
  <2>2. SessionOK'
    BY <1>12 DEF DecodeCommand, Decode, Received, HandshakeKey, SecureAfter,
       Allowed, Quiet, TypeOK, SessionOK
  <2>3. ExchangeOK'
    BY <1>12 DEF DecodeCommand, Decode, Received, HandshakeKey, SecureAfter,
       Allowed, Quiet, TypeOK, ExchangeOK, ParkInv, Replies, Codes
  <2>4. SendingOK'
    BY <1>12, <1>0 DEF DecodeCommand, Decode, Received, HandshakeKey,
       SecureAfter, Allowed, Quiet, TypeOK, SendingOK, sending
  <2>5. EventsOK'
    BY <1>12 DEF DecodeCommand, Decode, Received, HandshakeKey, SecureAfter,
       Allowed, Quiet, TypeOK, EventsOK, events
  <2> QED
    BY <2>1, <2>2, <2>3, <2>4, <2>5 DEF TypeOK
<1>13. ASSUME NEW r \in BOOLEAN, DecodeChallenge(r) PROVE TypeOK'
  <2>1. ControlOK'
    BY <1>13 DEF DecodeChallenge, Decode, Received, HandshakeKey,
       SecureAfter, Quiet, TypeOK, ControlOK
  <2>2. SessionOK'
    BY <1>13 DEF DecodeChallenge, Decode, Received, HandshakeKey,
       SecureAfter, Quiet, TypeOK, SessionOK
  <2>3. ExchangeOK'
    BY <1>13 DEF DecodeChallenge, Decode, Received, HandshakeKey,
       SecureAfter, Quiet, TypeOK, ExchangeOK, ParkInv, Replies, Codes
  <2>4. SendingOK'
    BY <1>13, <1>0 DEF DecodeChallenge, Decode, Received, HandshakeKey,
       SecureAfter, Quiet, TypeOK, SendingOK, sending
  <2>5. EventsOK'
    BY <1>13 DEF DecodeChallenge, Decode, Received, HandshakeKey,
       SecureAfter, Quiet, TypeOK, EventsOK, events
  <2> QED
    BY <2>1, <2>2, <2>3, <2>4, <2>5 DEF TypeOK
<1>14. ASSUME NEW r \in BOOLEAN, DecodeCryptogram(r) PROVE TypeOK'
  <2>1. ControlOK'
    BY <1>14 DEF DecodeCryptogram, Decode, Received, HandshakeKey,
       SecureAfter, Quiet, TypeOK, ControlOK
  <2>2. SessionOK'
    BY <1>14 DEF DecodeCryptogram, Decode, Received, HandshakeKey,
       SecureAfter, Quiet, TypeOK, SessionOK
  <2>3. ExchangeOK'
    BY <1>14 DEF DecodeCryptogram, Decode, Received, HandshakeKey,
       SecureAfter, Quiet, TypeOK, ExchangeOK, ParkInv, Replies, Codes
  <2>4. SendingOK'
    BY <1>14, <1>0 DEF DecodeCryptogram, Decode, Received, HandshakeKey,
       SecureAfter, Quiet, TypeOK, SendingOK, sending
  <2>5. EventsOK'
    BY <1>14 DEF DecodeCryptogram, Decode, Received, HandshakeKey,
       SecureAfter, Quiet, TypeOK, EventsOK, events
  <2> QED
    BY <2>1, <2>2, <2>3, <2>4, <2>5 DEF TypeOK
<1>15. ASSUME CallbackRefuses PROVE TypeOK'
  BY <1>15, <1>0 DEF CallbackRefuses, Quiet, TypeOK, ControlOK, SessionOK,
     ExchangeOK, SendingOK, EventsOK, Replies, Codes, CallbackCodes,
     session, sending, events
<1>16. ASSUME CallbackAcknowledged PROVE TypeOK'
  BY <1>16, <1>0 DEF CallbackAcknowledged, Quiet, TypeOK, ControlOK,
     SessionOK, ExchangeOK, SendingOK, EventsOK, Replies, Codes,
     CallbackCodes, session, sending, events
<1>17. ASSUME CallbackAnswers PROVE TypeOK'
  BY <1>17, <1>0 DEF CallbackAnswers, InlineReply, TakeEvent, Dequeued,
     Quiet, TypeOK, ControlOK, SessionOK, ExchangeOK, SendingOK, EventsOK,
     Replies, Codes, CallbackCodes, session, sending
<1>18. ASSUME CallbackReports PROVE TypeOK'
  <2>1. ControlOK'
    BY <1>18 DEF CallbackReports, FrameOf, Quiet, TypeOK, ControlOK
  <2>2. SessionOK'
    BY <1>18 DEF CallbackReports, FrameOf, Quiet, TypeOK, SessionOK, session
  <2>3. ExchangeOK'
    BY <1>18 DEF CallbackReports, FrameOf, Quiet, TypeOK, ExchangeOK,
       Replies
  <2>4. SendingOK'
    BY <1>18, <1>0 DEF CallbackReports, FrameOf, Quiet, TypeOK, SendingOK,
       SessionOK, ExchangeOK, EventsOK, Frames, Replies
  <2>5. EventsOK'
    BY <1>18 DEF CallbackReports, FrameOf, Quiet, TypeOK, EventsOK, events
  <2> QED
    BY <2>1, <2>2, <2>3, <2>4, <2>5 DEF TypeOK
<1>19. ASSUME NEW k \in Keys, CallbackTakesKey(k) PROVE TypeOK'
  BY <1>19, <1>0 DEF CallbackTakesKey, KeysetPending, Quiet, TypeOK,
     ControlOK, SessionOK, ExchangeOK, SendingOK, EventsOK, Replies, Codes,
     CallbackCodes, session, sending, events
<1>20. ASSUME CallbackTakesComset PROVE TypeOK'
  BY <1>20, <1>0 DEF CallbackTakesComset, Quiet, TypeOK, ControlOK,
     SessionOK, ExchangeOK, SendingOK, EventsOK, Replies, Codes,
     CallbackCodes, session, sending, events
<1>21. ASSUME BuildReply PROVE TypeOK'
  <2>1. ControlOK'
    BY <1>21 DEF BuildReply, FrameOf, Quiet, TypeOK, ControlOK
  <2>2. SessionOK'
    BY <1>21 DEF BuildReply, FrameOf, Quiet, TypeOK, SessionOK
  <2>3. ExchangeOK'
    BY <1>21 DEF BuildReply, FrameOf, Quiet, TypeOK, ExchangeOK, Replies,
       exchange
  <2>4. SendingOK'
    BY <1>21, <1>0 DEF BuildReply, FrameOf, Quiet, TypeOK, SendingOK,
       SessionOK, ExchangeOK, EventsOK, Frames, Replies
  <2>5. EventsOK'
    BY <1>21 DEF BuildReply, FrameOf, Quiet, TypeOK, EventsOK, events
  <2> QED
    BY <2>1, <2>2, <2>3, <2>4, <2>5 DEF TypeOK
<1>22. ASSUME BuildNak PROVE TypeOK'
  <2>1. ControlOK'
    BY <1>22 DEF BuildNak, Complete, HandBack, FrameOf, TypeOK, ControlOK
  <2>2. SessionOK'
    BY <1>22 DEF BuildNak, Complete, HandBack, FrameOf, TypeOK, SessionOK,
       session
  <2>3. ExchangeOK'
    BY <1>22 DEF BuildNak, Complete, HandBack, FrameOf, TypeOK, ExchangeOK,
       Replies, exchange
  <2>4. SendingOK'
    BY <1>22, <1>0 DEF BuildNak, Complete, HandBack, FrameOf, TypeOK,
       SendingOK, SessionOK, ExchangeOK, EventsOK, Frames, Replies
  <2>5. EventsOK'
    BY <1>22 DEF BuildNak, Complete, HandBack, FrameOf, TypeOK, EventsOK,
       ActiveInv
  <2> QED
    BY <2>1, <2>2, <2>3, <2>4, <2>5 DEF TypeOK
<1>23. ASSUME BuildFails PROVE TypeOK'
  <2>1. ControlOK'
    BY <1>23 DEF BuildFails, Complete, HandBack, TypeOK, ControlOK
  <2>2. SessionOK'
    BY <1>23 DEF BuildFails, Complete, HandBack, TypeOK, SessionOK, session
  <2>3. ExchangeOK'
    BY <1>23 DEF BuildFails, Complete, HandBack, TypeOK, ExchangeOK, Replies
  <2>4. SendingOK'
    BY <1>23, <1>0 DEF BuildFails, Complete, HandBack, TypeOK, SendingOK,
       sending
  <2>5. EventsOK'
    BY <1>23 DEF BuildFails, Complete, HandBack, TypeOK, EventsOK, ActiveInv
  <2> QED
    BY <2>1, <2>2, <2>3, <2>4, <2>5 DEF TypeOK
<1>24. ASSUME SendWaits PROVE TypeOK'
  BY <1>24, <1>0 DEF SendWaits, Quiet, TypeOK, ControlOK, SessionOK,
     ExchangeOK, SendingOK, EventsOK, Replies, Codes, CallbackCodes,
     session, exchange, sending, events
<1>25. ASSUME SendFails PROVE TypeOK'
  <2>1. ControlOK'
    BY <1>25 DEF SendFails, Finish, Complete, HandBack, TypeOK, ControlOK
  <2>2. SessionOK'
    BY <1>25 DEF SendFails, Finish, Complete, HandBack, TypeOK, SessionOK
  <2>3. ExchangeOK'
    BY <1>25 DEF SendFails, Finish, Complete, HandBack, TypeOK, ExchangeOK,
       Replies
  <2>4. SendingOK'
    BY <1>25, <1>0 DEF SendFails, Finish, Complete, HandBack, TypeOK,
       SendingOK
  <2>5. EventsOK'
    BY <1>25 DEF SendFails, Finish, Complete, HandBack, TypeOK, EventsOK,
       events
  <2> QED
    BY <2>1, <2>2, <2>3, <2>4, <2>5 DEF TypeOK
<1>26. ASSUME SendOk PROVE TypeOK'
  <2>1. ControlOK'
    BY <1>26 DEF SendOk, Finish, Complete, HandBack, CommitsKey,
       DefaultKeyAfterCommit, EndSession, TypeOK, ControlOK
  <2>2. SessionOK'
    BY <1>26 DEF SendOk, Finish, Complete, HandBack, CommitsKey,
       DefaultKeyAfterCommit, EndSession, TypeOK, SessionOK, KeyInv,
       CommitsKey, ParkInv
  <2>3. ExchangeOK'
    BY <1>26 DEF SendOk, Finish, Complete, HandBack, CommitsKey,
       DefaultKeyAfterCommit, EndSession, TypeOK, ExchangeOK, Replies
  <2>4. SendingOK'
    BY <1>26, <1>0 DEF SendOk, Finish, TypeOK, SendingOK
  <2>5. EventsOK'
    BY <1>26 DEF SendOk, Finish, Complete, HandBack, CommitsKey,
       DefaultKeyAfterCommit, EndSession, TypeOK, EventsOK, events
  <2> QED
    BY <2>1, <2>2, <2>3, <2>4, <2>5 DEF TypeOK
<1>27. ASSUME Completed PROVE TypeOK'
  <2>1. ControlOK'
    BY <1>27 DEF Completed, EndSession, Quiet, TypeOK, ControlOK
  <2>2. SessionOK'
    BY <1>27 DEF Completed, EndSession, Quiet, TypeOK, SessionOK
  <2>3. ExchangeOK'
    BY <1>27 DEF Completed, EndSession, Quiet, TypeOK, ExchangeOK, Replies,
       exchange
  <2>4. SendingOK'
    BY <1>27, <1>0 DEF Completed, EndSession, Quiet, TypeOK, SendingOK,
       sending
  <2>5. EventsOK'
    BY <1>27 DEF Completed, EndSession, Quiet, TypeOK, EventsOK
  <2> QED
    BY <2>1, <2>2, <2>3, <2>4, <2>5 DEF TypeOK
<1>28. CASE UNCHANGED vars
  BY <1>28 DEF vars, TypeOK, ControlOK, SessionOK, ExchangeOK, SendingOK,
     EventsOK, Replies, Codes, CallbackCodes, session, exchange, sending,
     events, control
<1> QED
  BY <1>1, <1>2, <1>3, <1>4, <1>5, <1>6, <1>7, <1>8, <1>9, <1>10, <1>11,
     <1>12, <1>13, <1>14, <1>15, <1>16, <1>17, <1>18, <1>19, <1>20, <1>21,
     <1>22, <1>23, <1>24, <1>25, <1>26, <1>27, <1>28 DEF Next, Api,
     osdp_pd_refresh, Receive, CallbackReturns, Build, Send

-----------------------------------------------------------------------------
(* The parts of the inductive invariant *)

\* osdp_pd_update() receives a command only after it is done with the reply to
\* the one before.
LEMMA StepParkInv == IInv /\ [Next]_vars => ParkInv'
<1> SUFFICES ASSUME IInv, [Next]_vars PROVE ParkInv'
  OBVIOUS
<1> USE DEF IInv
<1>1. ASSUME NEW e \in Events, osdp_pd_submit_event(e) PROVE ParkInv'
  BY <1>1 DEF osdp_pd_submit_event, AppHasControl, Quiet, ParkInv, session,
     sending, control
<1>2. ASSUME osdp_pd_flush_events PROVE ParkInv'
  BY <1>2 DEF osdp_pd_flush_events, AppHasControl, HandBack, ParkInv,
     session, exchange, sending, control
<1>3. ASSUME osdp_pd_teardown PROVE ParkInv'
  BY <1>3 DEF osdp_pd_teardown, HandBack, ParkInv
<1>4. ASSUME osdp_pd_setup PROVE ParkInv'
  BY <1>4 DEF osdp_pd_setup, Quiet, ParkInv, sending, events
<1>5. ASSUME Begin PROVE ParkInv'
  BY <1>5 DEF Begin, AfterTimers, EndSession, Quiet, ParkInv, exchange,
     sending, events
<1>6. ASSUME ReceiveNothing PROVE ParkInv'
  BY <1>6 DEF ReceiveNothing, Quiet, ParkInv, session, exchange, sending,
     events
<1>7. ASSUME ReceiveError PROVE ParkInv'
  BY <1>7 DEF ReceiveError, Quiet, ParkInv, exchange, sending, events
<1>8. ASSUME Refuse PROVE ParkInv'
  BY <1>8 DEF Refuse, Received, Quiet, ParkInv, sending, events
<1>9. ASSUME NEW r \in BOOLEAN, NEW c \in Codes, DecodeRefused(c, r)
       PROVE  ParkInv'
  BY <1>9 DEF DecodeRefused, Decode, Received, HandshakeKey, SecureAfter,
     Quiet, ParkInv, sending, events
<1>10. ASSUME NEW r \in BOOLEAN, DecodePoll(r) PROVE ParkInv'
  BY <1>10 DEF DecodePoll, Decode, Received, HandshakeKey, SecureAfter,
     Allowed, TakeEvent, Dequeued, Quiet, ParkInv, sending, events
<1>11. ASSUME NEW r \in BOOLEAN, NEW c \in Codes, DecodeLibrary(c, r)
       PROVE  ParkInv'
  BY <1>11 DEF DecodeLibrary, Decode, Received, HandshakeKey, SecureAfter,
     Quiet, ParkInv, sending, events
<1>12. ASSUME NEW r \in BOOLEAN, NEW c \in Codes, DecodeCommand(c, r)
       PROVE  ParkInv'
  BY <1>12 DEF DecodeCommand, Decode, Received, HandshakeKey, SecureAfter,
     Allowed, Quiet, ParkInv, sending, events
<1>13. ASSUME NEW r \in BOOLEAN, DecodeChallenge(r) PROVE ParkInv'
  BY <1>13 DEF DecodeChallenge, Decode, Received, HandshakeKey, SecureAfter,
     Quiet, ParkInv, sending, events
<1>14. ASSUME NEW r \in BOOLEAN, DecodeCryptogram(r) PROVE ParkInv'
  BY <1>14 DEF DecodeCryptogram, Decode, Received, HandshakeKey,
     SecureAfter, Quiet, ParkInv, sending, events
<1>15. ASSUME CallbackRefuses PROVE ParkInv'
  BY <1>15 DEF CallbackRefuses, Quiet, ParkInv, session, sending, events
<1>16. ASSUME CallbackAcknowledged PROVE ParkInv'
  BY <1>16 DEF CallbackAcknowledged, Quiet, ParkInv, session, sending,
     events
<1>17. ASSUME CallbackAnswers PROVE ParkInv'
  BY <1>17 DEF CallbackAnswers, InlineReply, TakeEvent, Dequeued, Quiet,
     ParkInv, session, sending
<1>18. ASSUME CallbackReports PROVE ParkInv'
  BY <1>18 DEF CallbackReports, FrameOf, Quiet, ParkInv, session, events
<1>19. ASSUME NEW k \in Keys, CallbackTakesKey(k) PROVE ParkInv'
  BY <1>19 DEF CallbackTakesKey, KeysetPending, Quiet, ParkInv, session,
     sending, events
<1>20. ASSUME CallbackTakesComset PROVE ParkInv'
  BY <1>20 DEF CallbackTakesComset, Quiet, ParkInv, session, sending, events
<1>21. ASSUME BuildReply PROVE ParkInv'
  BY <1>21 DEF BuildReply, FrameOf, Quiet, ParkInv, exchange, events
<1>22. ASSUME BuildNak PROVE ParkInv'
  BY <1>22 DEF BuildNak, Complete, HandBack, FrameOf, ParkInv, session,
     exchange
<1>23. ASSUME BuildFails PROVE ParkInv'
  BY <1>23 DEF BuildFails, Complete, HandBack, ParkInv, session, sending
<1>24. ASSUME SendWaits PROVE ParkInv'
  BY <1>24 DEF SendWaits, Quiet, ParkInv, session, exchange, sending, events
<1>25. ASSUME SendFails PROVE ParkInv'
  BY <1>25 DEF SendFails, Finish, Complete, HandBack, ParkInv, events
<1>26. ASSUME SendOk PROVE ParkInv'
  BY <1>26 DEF SendOk, Finish, Complete, HandBack, CommitsKey,
     DefaultKeyAfterCommit, EndSession, ParkInv, events
<1>27. ASSUME Completed PROVE ParkInv'
  BY <1>27 DEF Completed, EndSession, Quiet, ParkInv, exchange, sending
<1>28. CASE UNCHANGED vars
  BY <1>28 DEF vars, ParkInv, session, exchange, sending, events, control
<1> QED
  BY <1>1, <1>2, <1>3, <1>4, <1>5, <1>6, <1>7, <1>8, <1>9, <1>10, <1>11,
     <1>12, <1>13, <1>14, <1>15, <1>16, <1>17, <1>18, <1>19, <1>20, <1>21,
     <1>22, <1>23, <1>24, <1>25, <1>26, <1>27, <1>28 DEF Next, Api,
     osdp_pd_refresh, Receive, CallbackReturns, Build, Send

\* An event becomes active with the reply it is, and is cleared with it.
LEMMA StepActiveInv == IInv /\ [Next]_vars => ActiveInv'
<1> SUFFICES ASSUME IInv, [Next]_vars PROVE ActiveInv'
  OBVIOUS
<1> USE DEF IInv
<1>1. ASSUME NEW e \in Events, osdp_pd_submit_event(e) PROVE ActiveInv'
  BY <1>1 DEF osdp_pd_submit_event, AppHasControl, Quiet, ActiveInv,
     session, sending, control
<1>2. ASSUME osdp_pd_flush_events PROVE ActiveInv'
  BY <1>2 DEF osdp_pd_flush_events, AppHasControl, HandBack, ActiveInv,
     session, exchange, sending, control
<1>3. ASSUME osdp_pd_teardown PROVE ActiveInv'
  BY <1>3 DEF osdp_pd_teardown, HandBack, ActiveInv
<1>4. ASSUME osdp_pd_setup PROVE ActiveInv'
  BY <1>4 DEF osdp_pd_setup, Quiet, ActiveInv, sending, events
<1>5. ASSUME Begin PROVE ActiveInv'
  BY <1>5 DEF Begin, AfterTimers, EndSession, Quiet, ActiveInv, exchange,
     sending, events
<1>6. ASSUME ReceiveNothing PROVE ActiveInv'
  BY <1>6 DEF ReceiveNothing, Quiet, ActiveInv, session, exchange, sending,
     events
<1>7. ASSUME ReceiveError PROVE ActiveInv'
  BY <1>7 DEF ReceiveError, Quiet, ActiveInv, exchange, sending, events
<1>8. ASSUME Refuse PROVE ActiveInv'
  BY <1>8 DEF Refuse, Received, Quiet, ActiveInv, sending, events
<1>9. ASSUME NEW r \in BOOLEAN, NEW c \in Codes, DecodeRefused(c, r)
       PROVE  ActiveInv'
  BY <1>9 DEF DecodeRefused, Decode, Received, HandshakeKey, SecureAfter,
     Quiet, ActiveInv, sending, events
<1>10. ASSUME NEW r \in BOOLEAN, DecodePoll(r) PROVE ActiveInv'
  BY <1>10, HeadType, PdAssumption DEF DecodePoll, Decode, Received,
     HandshakeKey, SecureAfter, Allowed, TakeEvent, Dequeued, Quiet,
     ActiveInv, sending, events
<1>11. ASSUME NEW r \in BOOLEAN, NEW c \in Codes, DecodeLibrary(c, r)
       PROVE  ActiveInv'
  BY <1>11 DEF DecodeLibrary, Decode, Received, HandshakeKey, SecureAfter,
     Quiet, ActiveInv, sending, events
<1>12. ASSUME NEW r \in BOOLEAN, NEW c \in Codes, DecodeCommand(c, r)
       PROVE  ActiveInv'
  BY <1>12 DEF DecodeCommand, Decode, Received, HandshakeKey, SecureAfter,
     Allowed, Quiet, ActiveInv, sending, events
<1>13. ASSUME NEW r \in BOOLEAN, DecodeChallenge(r) PROVE ActiveInv'
  BY <1>13 DEF DecodeChallenge, Decode, Received, HandshakeKey, SecureAfter,
     Quiet, ActiveInv, sending, events
<1>14. ASSUME NEW r \in BOOLEAN, DecodeCryptogram(r) PROVE ActiveInv'
  BY <1>14 DEF DecodeCryptogram, Decode, Received, HandshakeKey,
     SecureAfter, Quiet, ActiveInv, sending, events
<1>15. ASSUME CallbackRefuses PROVE ActiveInv'
  BY <1>15 DEF CallbackRefuses, Quiet, ActiveInv, session, sending, events
<1>16. ASSUME CallbackAcknowledged PROVE ActiveInv'
  BY <1>16 DEF CallbackAcknowledged, Quiet, ActiveInv, session, sending,
     events
<1>17. ASSUME CallbackAnswers PROVE ActiveInv'
  BY <1>17, HeadType, PdAssumption DEF CallbackAnswers, InlineReply,
     TakeEvent, Dequeued, Quiet, ActiveInv, session, sending
<1>18. ASSUME CallbackReports PROVE ActiveInv'
  BY <1>18 DEF CallbackReports, FrameOf, Quiet, ActiveInv, session, events
<1>19. ASSUME NEW k \in Keys, CallbackTakesKey(k) PROVE ActiveInv'
  BY <1>19 DEF CallbackTakesKey, KeysetPending, Quiet, ActiveInv, session,
     sending, events
<1>20. ASSUME CallbackTakesComset PROVE ActiveInv'
  BY <1>20 DEF CallbackTakesComset, Quiet, ActiveInv, session, sending,
     events
<1>21. ASSUME BuildReply PROVE ActiveInv'
  BY <1>21 DEF BuildReply, FrameOf, Quiet, ActiveInv, exchange, events
<1>22. ASSUME BuildNak PROVE ActiveInv'
  BY <1>22 DEF BuildNak, Complete, HandBack, FrameOf, ActiveInv, session,
     exchange
<1>23. ASSUME BuildFails PROVE ActiveInv'
  BY <1>23 DEF BuildFails, Complete, HandBack, ActiveInv, session, sending
<1>24. ASSUME SendWaits PROVE ActiveInv'
  BY <1>24 DEF SendWaits, Quiet, ActiveInv, ParkInv, session, exchange,
     sending, events
<1>25. ASSUME SendFails PROVE ActiveInv'
  BY <1>25 DEF SendFails, Finish, Complete, HandBack, ActiveInv, events
<1>26. ASSUME SendOk PROVE ActiveInv'
  BY <1>26 DEF SendOk, Finish, Complete, HandBack, CommitsKey,
     DefaultKeyAfterCommit, EndSession, ActiveInv, events
<1>27. ASSUME Completed PROVE ActiveInv'
  BY <1>27 DEF Completed, EndSession, Quiet, ActiveInv, exchange, sending
<1>28. CASE UNCHANGED vars
  BY <1>28 DEF vars, ActiveInv, session, exchange, sending, events, control
<1> QED
  BY <1>1, <1>2, <1>3, <1>4, <1>5, <1>6, <1>7, <1>8, <1>9, <1>10, <1>11,
     <1>12, <1>13, <1>14, <1>15, <1>16, <1>17, <1>18, <1>19, <1>20, <1>21,
     <1>22, <1>23, <1>24, <1>25, <1>26, <1>27, <1>28 DEF Next, Api,
     osdp_pd_refresh, Receive, CallbackReturns, Build, Send

\* What is staged stays the answer to pd->cmd_id until it is sent.
LEMMA StepStagedInv == IInv /\ [Next]_vars => StagedInv'
<1> SUFFICES ASSUME IInv, [Next]_vars PROVE StagedInv'
  OBVIOUS
<1> USE DEF IInv
<1>1. ASSUME NEW e \in Events, osdp_pd_submit_event(e) PROVE StagedInv'
  BY <1>1 DEF osdp_pd_submit_event, AppHasControl, Quiet, StagedInv,
     ParkInv, session, sending, control
<1>2. ASSUME osdp_pd_flush_events PROVE StagedInv'
  BY <1>2 DEF osdp_pd_flush_events, AppHasControl, HandBack, StagedInv,
     ParkInv, session, exchange, sending, control
<1>3. ASSUME osdp_pd_teardown PROVE StagedInv'
  BY <1>3 DEF osdp_pd_teardown, HandBack, StagedInv, ParkInv
<1>4. ASSUME osdp_pd_setup PROVE StagedInv'
  BY <1>4 DEF osdp_pd_setup, Quiet, StagedInv, ParkInv, sending, events
<1>5. ASSUME Begin PROVE StagedInv'
  BY <1>5 DEF Begin, AfterTimers, EndSession, Quiet, StagedInv, ParkInv,
     exchange, sending, events
<1>6. ASSUME ReceiveNothing PROVE StagedInv'
  BY <1>6 DEF ReceiveNothing, Quiet, StagedInv, ParkInv, session, exchange,
     sending, events
<1>7. ASSUME ReceiveError PROVE StagedInv'
  BY <1>7 DEF ReceiveError, Quiet, StagedInv, ParkInv, exchange, sending,
     events
<1>8. ASSUME Refuse PROVE StagedInv'
  BY <1>8 DEF Refuse, Received, Quiet, StagedInv, ParkInv, sending, events
<1>9. ASSUME NEW r \in BOOLEAN, NEW c \in Codes, DecodeRefused(c, r)
       PROVE  StagedInv'
  BY <1>9 DEF DecodeRefused, Decode, Received, HandshakeKey, SecureAfter,
     Quiet, StagedInv, ParkInv, sending, events
<1>10. ASSUME NEW r \in BOOLEAN, DecodePoll(r) PROVE StagedInv'
  BY <1>10 DEF DecodePoll, Decode, Received, HandshakeKey, SecureAfter,
     Allowed, TakeEvent, Dequeued, Quiet, StagedInv, ParkInv, sending,
     events
<1>11. ASSUME NEW r \in BOOLEAN, NEW c \in Codes, DecodeLibrary(c, r)
       PROVE  StagedInv'
  BY <1>11 DEF DecodeLibrary, Decode, Received, HandshakeKey, SecureAfter,
     Quiet, StagedInv, ParkInv, sending, events
<1>12. ASSUME NEW r \in BOOLEAN, NEW c \in Codes, DecodeCommand(c, r)
       PROVE  StagedInv'
  BY <1>12 DEF DecodeCommand, Decode, Received, HandshakeKey, SecureAfter,
     Allowed, Quiet, StagedInv, ParkInv, sending, events
<1>13. ASSUME NEW r \in BOOLEAN, DecodeChallenge(r) PROVE StagedInv'
  BY <1>13 DEF DecodeChallenge, Decode, Received, HandshakeKey, SecureAfter,
     Quiet, StagedInv, ParkInv, sending, events
<1>14. ASSUME NEW r \in BOOLEAN, DecodeCryptogram(r) PROVE StagedInv'
  BY <1>14 DEF DecodeCryptogram, Decode, Received, HandshakeKey,
     SecureAfter, Quiet, StagedInv, ParkInv, sending, events
<1>15. ASSUME CallbackRefuses PROVE StagedInv'
  BY <1>15 DEF CallbackRefuses, Quiet, StagedInv, ParkInv, session, sending,
     events
<1>16. ASSUME CallbackAcknowledged PROVE StagedInv'
  BY <1>16 DEF CallbackAcknowledged, Quiet, StagedInv, ParkInv, session,
     sending, events
<1>17. ASSUME CallbackAnswers PROVE StagedInv'
  BY <1>17 DEF CallbackAnswers, InlineReply, TakeEvent, Dequeued, Quiet,
     StagedInv, ParkInv, session, sending
<1>18. ASSUME CallbackReports PROVE StagedInv'
  BY <1>18 DEF CallbackReports, FrameOf, Quiet, StagedInv, ParkInv,
     ActiveInv, session, events
<1>19. ASSUME NEW k \in Keys, CallbackTakesKey(k) PROVE StagedInv'
  BY <1>19 DEF CallbackTakesKey, KeysetPending, Quiet, StagedInv, ParkInv,
     session, sending, events
<1>20. ASSUME CallbackTakesComset PROVE StagedInv'
  BY <1>20 DEF CallbackTakesComset, Quiet, StagedInv, ParkInv, session,
     sending, events
<1>21. ASSUME BuildReply PROVE StagedInv'
  BY <1>21 DEF BuildReply, FrameOf, Quiet, StagedInv, ParkInv, ActiveInv,
     exchange, events
<1>22. ASSUME BuildNak PROVE StagedInv'
  BY <1>22 DEF BuildNak, Complete, HandBack, FrameOf, StagedInv, ParkInv,
     session, exchange
<1>23. ASSUME BuildFails PROVE StagedInv'
  BY <1>23 DEF BuildFails, Complete, HandBack, StagedInv, ParkInv, session,
     sending
<1>24. ASSUME SendWaits PROVE StagedInv'
  BY <1>24 DEF SendWaits, Quiet, StagedInv, ParkInv, session, exchange,
     sending, events
<1>25. ASSUME SendFails PROVE StagedInv'
  BY <1>25 DEF SendFails, Finish, Complete, HandBack, StagedInv, ParkInv,
     events
<1>26. ASSUME SendOk PROVE StagedInv'
  BY <1>26 DEF SendOk, Finish, Complete, HandBack, CommitsKey,
     DefaultKeyAfterCommit, EndSession, StagedInv, ParkInv, events
<1>27. ASSUME Completed PROVE StagedInv'
  BY <1>27 DEF Completed, EndSession, Quiet, StagedInv, ParkInv, exchange,
     sending
<1>28. CASE UNCHANGED vars
  BY <1>28 DEF vars, StagedInv, ParkInv, session, exchange, sending, events,
     control
<1> QED
  BY <1>1, <1>2, <1>3, <1>4, <1>5, <1>6, <1>7, <1>8, <1>9, <1>10, <1>11,
     <1>12, <1>13, <1>14, <1>15, <1>16, <1>17, <1>18, <1>19, <1>20, <1>21,
     <1>22, <1>23, <1>24, <1>25, <1>26, <1>27, <1>28 DEF Next, Api,
     osdp_pd_refresh, Receive, CallbackReturns, Build, Send

\* Nothing writes the union between the KEYSET callback and the acknowledgement.
LEMMA StepKeyInv == IInv /\ [Next]_vars => KeyInv'
<1> SUFFICES ASSUME IInv, [Next]_vars PROVE KeyInv'
  OBVIOUS
<1> USE DEF IInv
<1>1. ASSUME NEW e \in Events, osdp_pd_submit_event(e) PROVE KeyInv'
  BY <1>1 DEF osdp_pd_submit_event, AppHasControl, Quiet, KeyInv, ParkInv,
     CommitsKey, session, sending, control
<1>2. ASSUME osdp_pd_flush_events PROVE KeyInv'
  BY <1>2 DEF osdp_pd_flush_events, AppHasControl, HandBack, KeyInv,
     ParkInv, CommitsKey, session, exchange, sending, control
<1>3. ASSUME osdp_pd_teardown PROVE KeyInv'
  BY <1>3 DEF osdp_pd_teardown, HandBack, KeyInv, ParkInv, CommitsKey
<1>4. ASSUME osdp_pd_setup PROVE KeyInv'
  BY <1>4 DEF osdp_pd_setup, Quiet, KeyInv, ParkInv, CommitsKey, sending,
     events
<1>5. ASSUME Begin PROVE KeyInv'
  BY <1>5 DEF Begin, AfterTimers, EndSession, Quiet, KeyInv, ParkInv,
     CommitsKey, exchange, sending, events
<1>6. ASSUME ReceiveNothing PROVE KeyInv'
  BY <1>6 DEF ReceiveNothing, Quiet, KeyInv, ParkInv, CommitsKey, session,
     exchange, sending, events
<1>7. ASSUME ReceiveError PROVE KeyInv'
  BY <1>7 DEF ReceiveError, Quiet, KeyInv, ParkInv, CommitsKey, exchange,
     sending, events
<1>8. ASSUME Refuse PROVE KeyInv'
  BY <1>8 DEF Refuse, Received, Quiet, KeyInv, ParkInv, CommitsKey, sending,
     events
<1>9. ASSUME NEW r \in BOOLEAN, NEW c \in Codes, DecodeRefused(c, r)
       PROVE  KeyInv'
  BY <1>9 DEF DecodeRefused, Decode, Received, HandshakeKey, SecureAfter,
     Quiet, KeyInv, ParkInv, CommitsKey, sending, events
<1>10. ASSUME NEW r \in BOOLEAN, DecodePoll(r) PROVE KeyInv'
  BY <1>10 DEF DecodePoll, Decode, Received, HandshakeKey, SecureAfter,
     Allowed, TakeEvent, Dequeued, Quiet, KeyInv, ParkInv, CommitsKey,
     sending, events
<1>11. ASSUME NEW r \in BOOLEAN, NEW c \in Codes, DecodeLibrary(c, r)
       PROVE  KeyInv'
  BY <1>11 DEF DecodeLibrary, Decode, Received, HandshakeKey, SecureAfter,
     Quiet, KeyInv, ParkInv, CommitsKey, sending, events
<1>12. ASSUME NEW r \in BOOLEAN, NEW c \in Codes, DecodeCommand(c, r)
       PROVE  KeyInv'
  BY <1>12 DEF DecodeCommand, Decode, Received, HandshakeKey, SecureAfter,
     Allowed, Quiet, KeyInv, ParkInv, CommitsKey, sending, events
<1>13. ASSUME NEW r \in BOOLEAN, DecodeChallenge(r) PROVE KeyInv'
  BY <1>13 DEF DecodeChallenge, Decode, Received, HandshakeKey, SecureAfter,
     Quiet, KeyInv, ParkInv, CommitsKey, sending, events
<1>14. ASSUME NEW r \in BOOLEAN, DecodeCryptogram(r) PROVE KeyInv'
  BY <1>14 DEF DecodeCryptogram, Decode, Received, HandshakeKey,
     SecureAfter, Quiet, KeyInv, ParkInv, CommitsKey, sending, events
<1>15. ASSUME CallbackRefuses PROVE KeyInv'
  BY <1>15 DEF CallbackRefuses, Quiet, KeyInv, ParkInv, CommitsKey, session,
     sending, events
<1>16. ASSUME CallbackAcknowledged PROVE KeyInv'
  BY <1>16 DEF CallbackAcknowledged, Quiet, KeyInv, ParkInv, CommitsKey,
     session, sending, events
<1>17. ASSUME CallbackAnswers PROVE KeyInv'
  BY <1>17 DEF CallbackAnswers, InlineReply, TakeEvent, Dequeued, Quiet,
     KeyInv, ParkInv, CommitsKey, session, sending
<1>18. ASSUME CallbackReports PROVE KeyInv'
  BY <1>18 DEF CallbackReports, FrameOf, Quiet, KeyInv, ParkInv, CommitsKey,
     session, events
<1>19. ASSUME NEW k \in Keys, CallbackTakesKey(k) PROVE KeyInv'
  BY <1>19 DEF CallbackTakesKey, KeysetPending, Quiet, KeyInv, ParkInv,
     CommitsKey, session, sending, events
<1>20. ASSUME CallbackTakesComset PROVE KeyInv'
  BY <1>20 DEF CallbackTakesComset, Quiet, KeyInv, ParkInv, CommitsKey,
     session, sending, events
<1>21. ASSUME BuildReply PROVE KeyInv'
  BY <1>21 DEF BuildReply, FrameOf, Quiet, KeyInv, ParkInv, CommitsKey,
     exchange, events
<1>22. ASSUME BuildNak PROVE KeyInv'
  BY <1>22 DEF BuildNak, Complete, HandBack, FrameOf, KeyInv, ParkInv,
     CommitsKey, session, exchange
<1>23. ASSUME BuildFails PROVE KeyInv'
  BY <1>23 DEF BuildFails, Complete, HandBack, KeyInv, ParkInv, CommitsKey,
     session, sending
<1>24. ASSUME SendWaits PROVE KeyInv'
  BY <1>24 DEF SendWaits, Quiet, KeyInv, ParkInv, CommitsKey, session,
     exchange, sending, events
<1>25. ASSUME SendFails PROVE KeyInv'
  BY <1>25 DEF SendFails, Finish, Complete, HandBack, KeyInv, ParkInv,
     CommitsKey, events
<1>26. ASSUME SendOk PROVE KeyInv'
  BY <1>26 DEF SendOk, Finish, Complete, HandBack, CommitsKey,
     DefaultKeyAfterCommit, EndSession, KeyInv, ParkInv, CommitsKey, events
<1>27. ASSUME Completed PROVE KeyInv'
  BY <1>27 DEF Completed, EndSession, Quiet, KeyInv, ParkInv, CommitsKey,
     exchange, sending
<1>28. CASE UNCHANGED vars
  BY <1>28 DEF vars, KeyInv, ParkInv, CommitsKey, session, exchange,
     sending, events, control
<1> QED
  BY <1>1, <1>2, <1>3, <1>4, <1>5, <1>6, <1>7, <1>8, <1>9, <1>10, <1>11,
     <1>12, <1>13, <1>14, <1>15, <1>16, <1>17, <1>18, <1>19, <1>20, <1>21,
     <1>22, <1>23, <1>24, <1>25, <1>26, <1>27, <1>28 DEF Next, Api,
     osdp_pd_refresh, Receive, CallbackReturns, Build, Send

\* ENFORCE_SECURE is decided at the decoder and still holds at the send path.
LEMMA StepEnforceInv == IInv /\ [Next]_vars => EnforceInv'
<1> SUFFICES ASSUME IInv, [Next]_vars PROVE EnforceInv'
  OBVIOUS
<1> USE DEF IInv
<1>1. ASSUME NEW e \in Events, osdp_pd_submit_event(e) PROVE EnforceInv'
  BY <1>1 DEF osdp_pd_submit_event, AppHasControl, Quiet, EnforceInv,
     ParkInv, ActiveInv, Codes, CallbackCodes, ExemptFromEnforce, Handshake,
     session, sending, control
<1>2. ASSUME osdp_pd_flush_events PROVE EnforceInv'
  BY <1>2 DEF osdp_pd_flush_events, AppHasControl, HandBack, EnforceInv,
     ParkInv, ActiveInv, Codes, CallbackCodes, ExemptFromEnforce, Handshake,
     session, exchange, sending, control
<1>3. ASSUME osdp_pd_teardown PROVE EnforceInv'
  BY <1>3 DEF osdp_pd_teardown, HandBack, EnforceInv, ParkInv, ActiveInv,
     Codes, CallbackCodes, ExemptFromEnforce, Handshake
<1>4. ASSUME osdp_pd_setup PROVE EnforceInv'
  BY <1>4 DEF osdp_pd_setup, Quiet, EnforceInv, ParkInv, ActiveInv, Codes,
     CallbackCodes, ExemptFromEnforce, Handshake, sending, events
<1>5. ASSUME Begin PROVE EnforceInv'
  BY <1>5 DEF Begin, AfterTimers, EndSession, Quiet, EnforceInv, ParkInv,
     ActiveInv, Codes, CallbackCodes, ExemptFromEnforce, Handshake,
     exchange, sending, events
<1>6. ASSUME ReceiveNothing PROVE EnforceInv'
  BY <1>6 DEF ReceiveNothing, Quiet, EnforceInv, ParkInv, ActiveInv, Codes,
     CallbackCodes, ExemptFromEnforce, Handshake, session, exchange,
     sending, events
<1>7. ASSUME ReceiveError PROVE EnforceInv'
  BY <1>7 DEF ReceiveError, Quiet, EnforceInv, ParkInv, ActiveInv, Codes,
     CallbackCodes, ExemptFromEnforce, Handshake, exchange, sending, events
<1>8. ASSUME Refuse PROVE EnforceInv'
  BY <1>8 DEF Refuse, Received, Quiet, EnforceInv, ParkInv, ActiveInv,
     Codes, CallbackCodes, ExemptFromEnforce, Handshake, sending, events
<1>9. ASSUME NEW r \in BOOLEAN, NEW c \in Codes, DecodeRefused(c, r)
       PROVE  EnforceInv'
  BY <1>9 DEF DecodeRefused, Decode, Received, HandshakeKey, SecureAfter,
     Quiet, EnforceInv, ParkInv, ActiveInv, Codes, CallbackCodes,
     ExemptFromEnforce, Handshake, sending, events
<1>10. ASSUME NEW r \in BOOLEAN, DecodePoll(r) PROVE EnforceInv'
  BY <1>10 DEF DecodePoll, Decode, Received, HandshakeKey, SecureAfter,
     Allowed, TakeEvent, Dequeued, Quiet, EnforceInv, ParkInv, ActiveInv,
     Codes, CallbackCodes, ExemptFromEnforce, Handshake, sending, events
<1>11. ASSUME NEW r \in BOOLEAN, NEW c \in Codes, DecodeLibrary(c, r)
       PROVE  EnforceInv'
  BY <1>11 DEF DecodeLibrary, Decode, Received, HandshakeKey, SecureAfter,
     Quiet, EnforceInv, ParkInv, ActiveInv, Codes, CallbackCodes,
     ExemptFromEnforce, Handshake, sending, events
<1>12. ASSUME NEW r \in BOOLEAN, NEW c \in Codes, DecodeCommand(c, r)
       PROVE  EnforceInv'
  BY <1>12 DEF DecodeCommand, Decode, Received, HandshakeKey, SecureAfter,
     Allowed, Quiet, EnforceInv, ParkInv, ActiveInv, Codes, CallbackCodes,
     ExemptFromEnforce, Handshake, sending, events
<1>13. ASSUME NEW r \in BOOLEAN, DecodeChallenge(r) PROVE EnforceInv'
  BY <1>13 DEF DecodeChallenge, Decode, Received, HandshakeKey, SecureAfter,
     Quiet, EnforceInv, ParkInv, ActiveInv, Codes, CallbackCodes,
     ExemptFromEnforce, Handshake, sending, events
<1>14. ASSUME NEW r \in BOOLEAN, DecodeCryptogram(r) PROVE EnforceInv'
  BY <1>14 DEF DecodeCryptogram, Decode, Received, HandshakeKey,
     SecureAfter, Quiet, EnforceInv, ParkInv, ActiveInv, Codes,
     CallbackCodes, ExemptFromEnforce, Handshake, sending, events
<1>15. ASSUME CallbackRefuses PROVE EnforceInv'
  BY <1>15 DEF CallbackRefuses, Quiet, EnforceInv, ParkInv, ActiveInv,
     Codes, CallbackCodes, ExemptFromEnforce, Handshake, session, sending,
     events
<1>16. ASSUME CallbackAcknowledged PROVE EnforceInv'
  BY <1>16 DEF CallbackAcknowledged, Quiet, EnforceInv, ParkInv, ActiveInv,
     Codes, CallbackCodes, ExemptFromEnforce, Handshake, session, sending,
     events
<1>17. ASSUME CallbackAnswers PROVE EnforceInv'
  BY <1>17 DEF CallbackAnswers, InlineReply, TakeEvent, Dequeued, Quiet,
     EnforceInv, ParkInv, ActiveInv, Codes, CallbackCodes,
     ExemptFromEnforce, Handshake, session, sending
<1>18. ASSUME CallbackReports PROVE EnforceInv'
  BY <1>18 DEF CallbackReports, FrameOf, Quiet, EnforceInv, ParkInv,
     ActiveInv, Codes, CallbackCodes, ExemptFromEnforce, Handshake, session,
     events
<1>19. ASSUME NEW k \in Keys, CallbackTakesKey(k) PROVE EnforceInv'
  BY <1>19 DEF CallbackTakesKey, KeysetPending, Quiet, EnforceInv, ParkInv,
     ActiveInv, Codes, CallbackCodes, ExemptFromEnforce, Handshake, session,
     sending, events
<1>20. ASSUME CallbackTakesComset PROVE EnforceInv'
  BY <1>20 DEF CallbackTakesComset, Quiet, EnforceInv, ParkInv, ActiveInv,
     Codes, CallbackCodes, ExemptFromEnforce, Handshake, session, sending,
     events
<1>21. ASSUME BuildReply PROVE EnforceInv'
  BY <1>21 DEF BuildReply, FrameOf, Quiet, EnforceInv, ParkInv, ActiveInv,
     Codes, CallbackCodes, ExemptFromEnforce, Handshake, exchange, events
<1>22. ASSUME BuildNak PROVE EnforceInv'
  BY <1>22 DEF BuildNak, Complete, HandBack, FrameOf, EnforceInv, ParkInv,
     ActiveInv, Codes, CallbackCodes, ExemptFromEnforce, Handshake, session,
     exchange
<1>23. ASSUME BuildFails PROVE EnforceInv'
  BY <1>23 DEF BuildFails, Complete, HandBack, EnforceInv, ParkInv,
     ActiveInv, Codes, CallbackCodes, ExemptFromEnforce, Handshake, session,
     sending
<1>24. ASSUME SendWaits PROVE EnforceInv'
  BY <1>24 DEF SendWaits, Quiet, EnforceInv, ParkInv, ActiveInv, Codes,
     CallbackCodes, ExemptFromEnforce, Handshake, session, exchange,
     sending, events
<1>25. ASSUME SendFails PROVE EnforceInv'
  BY <1>25 DEF SendFails, Finish, Complete, HandBack, EnforceInv, ParkInv,
     ActiveInv, Codes, CallbackCodes, ExemptFromEnforce, Handshake, events
<1>26. ASSUME SendOk PROVE EnforceInv'
  BY <1>26 DEF SendOk, Finish, Complete, HandBack, CommitsKey,
     DefaultKeyAfterCommit, EndSession, EnforceInv, ParkInv, ActiveInv,
     Codes, CallbackCodes, ExemptFromEnforce, Handshake, events
<1>27. ASSUME Completed PROVE EnforceInv'
  BY <1>27 DEF Completed, EndSession, Quiet, EnforceInv, ParkInv, ActiveInv,
     Codes, CallbackCodes, ExemptFromEnforce, Handshake, exchange, sending
<1>28. CASE UNCHANGED vars
  BY <1>28 DEF vars, EnforceInv, ParkInv, ActiveInv, Codes, CallbackCodes,
     ExemptFromEnforce, Handshake, session, exchange, sending, events,
     control
<1> QED
  BY <1>1, <1>2, <1>3, <1>4, <1>5, <1>6, <1>7, <1>8, <1>9, <1>10, <1>11,
     <1>12, <1>13, <1>14, <1>15, <1>16, <1>17, <1>18, <1>19, <1>20, <1>21,
     <1>22, <1>23, <1>24, <1>25, <1>26, <1>27, <1>28 DEF Next, Api,
     osdp_pd_refresh, Receive, CallbackReturns, Build, Send

\* Only install mode lets a frame ask for the default key.
LEMMA StepDefaultKey == IInv /\ [Next]_vars => DefaultKeyRetired'
<1> SUFFICES ASSUME IInv, [Next]_vars PROVE DefaultKeyRetired'
  OBVIOUS
<1> USE DEF IInv
<1>1. ASSUME NEW e \in Events, osdp_pd_submit_event(e) PROVE DefaultKeyRetired'
  BY <1>1 DEF osdp_pd_submit_event, AppHasControl, Quiet, DefaultKeyRetired,
     session, sending, control
<1>2. ASSUME osdp_pd_flush_events PROVE DefaultKeyRetired'
  BY <1>2 DEF osdp_pd_flush_events, AppHasControl, HandBack,
     DefaultKeyRetired, session, exchange, sending, control
<1>3. ASSUME osdp_pd_teardown PROVE DefaultKeyRetired'
  BY <1>3 DEF osdp_pd_teardown, HandBack, DefaultKeyRetired
<1>4. ASSUME osdp_pd_setup PROVE DefaultKeyRetired'
  BY <1>4 DEF osdp_pd_setup, Quiet, DefaultKeyRetired, sending, events
<1>5. ASSUME Begin PROVE DefaultKeyRetired'
  BY <1>5 DEF Begin, AfterTimers, EndSession, Quiet, DefaultKeyRetired,
     exchange, sending, events
<1>6. ASSUME ReceiveNothing PROVE DefaultKeyRetired'
  BY <1>6 DEF ReceiveNothing, Quiet, DefaultKeyRetired, session, exchange,
     sending, events
<1>7. ASSUME ReceiveError PROVE DefaultKeyRetired'
  BY <1>7 DEF ReceiveError, Quiet, DefaultKeyRetired, exchange, sending,
     events
<1>8. ASSUME Refuse PROVE DefaultKeyRetired'
  BY <1>8 DEF Refuse, Received, Quiet, DefaultKeyRetired, sending, events
<1>9. ASSUME NEW r \in BOOLEAN, NEW c \in Codes, DecodeRefused(c, r)
       PROVE  DefaultKeyRetired'
  BY <1>9 DEF DecodeRefused, Decode, Received, HandshakeKey, SecureAfter,
     Quiet, DefaultKeyRetired, sending, events
<1>10. ASSUME NEW r \in BOOLEAN, DecodePoll(r) PROVE DefaultKeyRetired'
  BY <1>10 DEF DecodePoll, Decode, Received, HandshakeKey, SecureAfter,
     Allowed, TakeEvent, Dequeued, Quiet, DefaultKeyRetired, sending, events
<1>11. ASSUME NEW r \in BOOLEAN, NEW c \in Codes, DecodeLibrary(c, r)
       PROVE  DefaultKeyRetired'
  BY <1>11 DEF DecodeLibrary, Decode, Received, HandshakeKey, SecureAfter,
     Quiet, DefaultKeyRetired, sending, events
<1>12. ASSUME NEW r \in BOOLEAN, NEW c \in Codes, DecodeCommand(c, r)
       PROVE  DefaultKeyRetired'
  BY <1>12 DEF DecodeCommand, Decode, Received, HandshakeKey, SecureAfter,
     Allowed, Quiet, DefaultKeyRetired, sending, events
<1>13. ASSUME NEW r \in BOOLEAN, DecodeChallenge(r) PROVE DefaultKeyRetired'
  BY <1>13 DEF DecodeChallenge, Decode, Received, HandshakeKey, SecureAfter,
     Quiet, DefaultKeyRetired, sending, events
<1>14. ASSUME NEW r \in BOOLEAN, DecodeCryptogram(r) PROVE DefaultKeyRetired'
  BY <1>14 DEF DecodeCryptogram, Decode, Received, HandshakeKey,
     SecureAfter, Quiet, DefaultKeyRetired, sending, events
<1>15. ASSUME CallbackRefuses PROVE DefaultKeyRetired'
  BY <1>15 DEF CallbackRefuses, Quiet, DefaultKeyRetired, session, sending,
     events
<1>16. ASSUME CallbackAcknowledged PROVE DefaultKeyRetired'
  BY <1>16 DEF CallbackAcknowledged, Quiet, DefaultKeyRetired, session,
     sending, events
<1>17. ASSUME CallbackAnswers PROVE DefaultKeyRetired'
  BY <1>17 DEF CallbackAnswers, InlineReply, TakeEvent, Dequeued, Quiet,
     DefaultKeyRetired, session, sending
<1>18. ASSUME CallbackReports PROVE DefaultKeyRetired'
  BY <1>18 DEF CallbackReports, FrameOf, Quiet, DefaultKeyRetired, session,
     events
<1>19. ASSUME NEW k \in Keys, CallbackTakesKey(k) PROVE DefaultKeyRetired'
  BY <1>19 DEF CallbackTakesKey, KeysetPending, Quiet, DefaultKeyRetired,
     session, sending, events
<1>20. ASSUME CallbackTakesComset PROVE DefaultKeyRetired'
  BY <1>20 DEF CallbackTakesComset, Quiet, DefaultKeyRetired, session,
     sending, events
<1>21. ASSUME BuildReply PROVE DefaultKeyRetired'
  BY <1>21 DEF BuildReply, FrameOf, Quiet, DefaultKeyRetired, exchange,
     events
<1>22. ASSUME BuildNak PROVE DefaultKeyRetired'
  BY <1>22 DEF BuildNak, Complete, HandBack, FrameOf, DefaultKeyRetired,
     session, exchange
<1>23. ASSUME BuildFails PROVE DefaultKeyRetired'
  BY <1>23 DEF BuildFails, Complete, HandBack, DefaultKeyRetired, session,
     sending
<1>24. ASSUME SendWaits PROVE DefaultKeyRetired'
  BY <1>24 DEF SendWaits, Quiet, DefaultKeyRetired, session, exchange,
     sending, events
<1>25. ASSUME SendFails PROVE DefaultKeyRetired'
  BY <1>25 DEF SendFails, Finish, Complete, HandBack, DefaultKeyRetired,
     events
<1>26. ASSUME SendOk PROVE DefaultKeyRetired'
  BY <1>26 DEF SendOk, Finish, Complete, HandBack, CommitsKey,
     DefaultKeyAfterCommit, EndSession, DefaultKeyRetired, events
<1>27. ASSUME Completed PROVE DefaultKeyRetired'
  BY <1>27 DEF Completed, EndSession, Quiet, DefaultKeyRetired, exchange,
     sending
<1>28. CASE UNCHANGED vars
  BY <1>28 DEF vars, DefaultKeyRetired, session, exchange, sending, events,
     control
<1> QED
  BY <1>1, <1>2, <1>3, <1>4, <1>5, <1>6, <1>7, <1>8, <1>9, <1>10, <1>11,
     <1>12, <1>13, <1>14, <1>15, <1>16, <1>17, <1>18, <1>19, <1>20, <1>21,
     <1>22, <1>23, <1>24, <1>25, <1>26, <1>27, <1>28 DEF Next, Api,
     osdp_pd_refresh, Receive, CallbackReturns, Build, Send

-----------------------------------------------------------------------------
(* The inductive invariant *)

\* osdp_pd_setup() establishes the invariant.
LEMMA InitIInv == Init => IInv
<1> SUFFICES ASSUME Init PROVE IInv
  OBVIOUS
<1>1. TypeOK
  BY InitTypeOK
<1>2. ParkInv /\ ActiveInv /\ StagedInv
  BY DEF Init, ParkInv, ActiveInv, StagedInv
<1>3. KeyInv /\ EnforceInv /\ DefaultKeyRetired
  BY DEF Init, KeyInv, EnforceInv, DefaultKeyRetired
<1> QED
  BY <1>1, <1>2, <1>3 DEF IInv

\* The invariant holds in every state a PD can reach.
LEMMA Invariance == Spec => []IInv
<1>1. Init => IInv
  BY InitIInv
<1>2. IInv /\ [Next]_vars => IInv'
  BY StepTypeOK, StepParkInv, StepActiveInv, StepStagedInv, StepKeyInv,
     StepEnforceInv, StepDefaultKey DEF IInv
<1> QED
  BY <1>1, <1>2, PTL DEF Spec

-----------------------------------------------------------------------------
(* The safety properties *)

\* The PD is well typed; in particular it always has a key, although
\* keyset_pending lives in a union with the NAK code.
THEOREM TypeCorrect == Spec => []TypeOK
<1>1. IInv => TypeOK
  BY DEF IInv
<1> QED
  BY <1>1, Invariance, PTL

\* Every decoded command gets one reply, and it is its own, however long the
\* transport makes it wait.
THEOREM RepliesAnswerLast == Spec => []ParkedReplyAnswersLast
<1>1. IInv => ParkedReplyAnswersLast
  BY DEF IInv, ParkInv, ActiveInv, StagedInv, ParkedReplyAnswersLast
<1> QED
  BY <1>1, Invariance, PTL

\* SCBK-D is out of reach once a KEYSET was committed.
THEOREM DefaultKeyIsRetired == Spec => []DefaultKeyRetired
<1>1. IInv => DefaultKeyRetired
  BY DEF IInv
<1> QED
  BY <1>1, Invariance, PTL

\* No event is reported as sent that the transport did not take.
THEOREM OkIsTruthful == Spec => EventOkMeansSent
<1> DEFINE A == \A e \in Events : <<e, "OK">> \in handed' =>
                  wire'.event = e /\ wire'.reply = "EVENT"
<1>1. ASSUME IInv, Next PROVE A
  <2> USE DEF IInv
  <2>1. CASE SendOk
    <3>1. CASE active = NoEvent
      BY <2>1, <3>1 DEF SendOk, Finish
    <3>2. CASE active # NoEvent
      <4>1. wire' = staged /\ handed' = {active} \X {"OK"} /\ parked /\ pc = "built"
        BY <1>1, <2>1, <3>2 DEF SendOk, Finish, Complete, HandBack, ParkInv
      <4>2. staged.event = active /\ staged.reply = "EVENT"
        BY <1>1, <4>1, <3>2 DEF StagedInv
      <4> QED
        BY <4>1, <4>2
    <3> QED
      BY <3>1, <3>2
  <2>2. CASE \E status \in {"FAILED", "FLUSHED", "ABORTED"}, es \in SUBSET Events :
                handed' = es \X {status}
    BY <2>2
  <2>3. CASE handed' = {}
    BY <2>3
  <2>4. SendOk \/ handed' = {}
        \/ \E status \in {"FAILED", "FLUSHED", "ABORTED"}, es \in SUBSET Events :
                handed' = es \X {status}
    <3>1. CASE osdp_pd_flush_events
      <4>1. handed' = Range(queue) \X {"FLUSHED"} /\ Range(queue) \in SUBSET Events
        BY <1>1, <3>1, RangeType DEF osdp_pd_flush_events, HandBack
      <4> QED
        BY <4>1
    <3>2. CASE osdp_pd_teardown
      <4> DEFINE es == Range(queue) \cup ({active} \ {NoEvent})
      <4>1. handed' = es \X {"ABORTED"} /\ es \in SUBSET Events
        BY <1>1, <3>2, RangeType DEF osdp_pd_teardown, HandBack, TypeOK, EventsOK
      <4> QED
        BY <4>1
    <3>3. CASE BuildNak \/ BuildFails \/ SendFails
      <4>1. active \in Events \cup {NoEvent}
        BY <1>1 DEF TypeOK, EventsOK
      <4>2. handed' = {} \/ (active # NoEvent /\ handed' = {active} \X {"FAILED"})
        BY <1>1, <3>3 DEF BuildNak, BuildFails, SendFails, Finish, Complete,
           HandBack, ActiveInv
      <4> QED
        BY <4>1, <4>2
    <3>4. CASE osdp_pd_setup \/ (\E e \in Events : osdp_pd_submit_event(e))
      BY <3>4 DEF osdp_pd_setup, osdp_pd_submit_event, Quiet
    <3>5. CASE Begin \/ Receive \/ CallbackReturns \/ BuildReply \/ SendWaits
               \/ Completed
      BY <3>5 DEF Begin, Receive, ReceiveNothing, ReceiveError, Refuse,
         DecodePoll, DecodeChallenge, DecodeCryptogram, DecodeRefused,
         DecodeLibrary, DecodeCommand, Decode, Received, CallbackReturns,
         CallbackRefuses, CallbackAcknowledged, CallbackAnswers,
         CallbackReports, CallbackTakesComset, CallbackTakesKey, BuildReply,
         SendWaits, Completed, Quiet
    <3> QED
      BY <1>1, <3>1, <3>2, <3>3, <3>4, <3>5 DEF Next, Api, osdp_pd_refresh,
         Build, Send
  <2> QED
    BY <2>1, <2>2, <2>3, <2>4
<1>2. ASSUME IInv, [Next]_vars PROVE [A]_vars
  BY <1>1, <1>2
<1>3. []IInv /\ [][Next]_vars => [][A]_vars
  BY <1>2, PTL
<1> QED
  BY <1>3, Invariance DEF Spec, EventOkMeansSent

\* Only a reply that is sent reaches the transport, and only it, or a new start
\* of the PD, changes the key.
LEMMA OnlySendOkSpeaks ==
  ASSUME Next
  PROVE  SendOk \/ (wire' = NoFrame /\ (scbk' = scbk \/ pc = "gone"))
  BY DEF Next, Api, osdp_pd_submit_event, osdp_pd_flush_events,
     osdp_pd_teardown, osdp_pd_setup, osdp_pd_refresh, Begin, Receive,
     ReceiveNothing, ReceiveError, Refuse, DecodePoll, DecodeChallenge,
     DecodeCryptogram, DecodeRefused, DecodeLibrary, DecodeCommand, Decode,
     Received, CallbackReturns, CallbackRefuses, CallbackAcknowledged,
     CallbackAnswers, CallbackReports, CallbackTakesComset, CallbackTakesKey,
     Build, BuildReply, BuildNak, BuildFails, Send, SendWaits, SendFails,
     Finish, Completed, Quiet, session

\* The PD moves to a new key with the acknowledgement the application agreed
\* to, and with nothing else.
THEOREM KeyCommitsWithAck == Spec => KeyCommitsOnAck
<1> DEFINE A == scbk' # scbk /\ pc # "gone" =>
                  /\ scbk' = accepted
                  /\ wire'.cmd = "KEYSET" /\ wire'.reply = "ACK"
<1>1. ASSUME IInv, SendOk PROVE A
  <2>1. CASE CommitsKey
    <3>1. parked /\ wire' = staged /\ scbk' = scratch
      BY <1>1, <2>1 DEF IInv, ParkInv, SendOk
    <3>2. scratch = accepted
      BY <1>1, <2>1, <3>1 DEF IInv, KeyInv
    <3>3. staged.cmd = "KEYSET" /\ staged.reply = "ACK"
      BY <1>1, <2>1, <3>1 DEF IInv, StagedInv, CommitsKey
    <3> QED
      BY <3>1, <3>2, <3>3
  <2>2. CASE ~CommitsKey
    BY <1>1, <2>2 DEF SendOk
  <2> QED
    BY <2>1, <2>2
<1>2. ASSUME IInv, [Next]_vars PROVE [A]_vars
  BY <1>1, <1>2, OnlySendOkSpeaks
<1>3. []IInv /\ [][Next]_vars => [][A]_vars
  BY <1>2, PTL
<1> QED
  BY <1>3, Invariance DEF Spec, KeyCommitsOnAck

\* What an enforcing PD tells its CP, a session protects, although the check is
\* made when the command is decoded and the reply may leave much later.
THEOREM EnforcedDataIsHidden == Spec => EnforceHidesData
<1> DEFINE A == enforce /\ wire'.reply \in {"EVENT", "REPORT"} => wire'.secure
<1>1. ASSUME IInv, SendOk PROVE A
  BY <1>1 DEF IInv, ParkInv, EnforceInv, SendOk
<1>2. NoFrame.reply = "NONE"
  BY DEF NoFrame
<1>3. ASSUME IInv, [Next]_vars PROVE [A]_vars
  BY <1>1, <1>2, <1>3, OnlySendOkSpeaks
<1>4. []IInv /\ [][Next]_vars => [][A]_vars
  BY <1>3, PTL
<1> QED
  BY <1>4, Invariance DEF Spec, EnforceHidesData

-----------------------------------------------------------------------------
(* Exactly-once completion *)

\* The history variable agrees with the places, whoever is the owner now.
LEMMA SameOwnership ==
  ASSUME Ownership, UNCHANGED <<queue, owner>>, HeldForReply' = HeldForReply
  PROVE  Ownership'
  BY DEF Ownership

\* pd_event_dequeue() moves an event from the queue to pd->active_event.
LEMMA TakeOwnership ==
  ASSUME IInv, Ownership, queue # <<>>, TakeEvent, HeldForReply = NoEvent,
         pc' # "completing"
  PROVE  Ownership'
<1>1. queue \in Seq(Events) /\ IsInjective(queue)
  BY DEF IInv, TypeOK, EventsOK, Ownership
<1>2. /\ queue' = Tail(queue) /\ owner' = owner /\ HeldForReply' = Head(queue)
  BY DEF TakeEvent, Dequeued, HeldForReply
<1>3. /\ Head(queue) \in Events /\ Head(queue) \notin Range(queue')
      /\ Range(queue) = Range(queue') \cup {Head(queue)}
      /\ IsInjective(queue')
  BY <1>1, <1>2, TailLemma
<1> QED
  BY <1>2, <1>3, PdAssumption DEF Ownership

\* pd_complete_event() hands the active event back before it forgets it.
LEMMA CompleteOwnership ==
  ASSUME IInv, Ownership, active # NoEvent, pc # "completing",
         NEW status, NEW then, Complete(status, then)
  PROVE  Ownership'
<1>1. active \in Events /\ owner \in [Events -> {"app", "pd"}]
  BY DEF IInv, TypeOK, EventsOK
<1>2. NoEvent \notin Range(queue)
  BY RangeType, PdAssumption DEF IInv
<1>3. /\ queue' = queue /\ HeldForReply = active /\ HeldForReply' = NoEvent
      /\ owner' = [e \in Events |-> IF e \in {active} THEN "app" ELSE owner[e]]
  BY DEF Complete, HandBack, HeldForReply
<1> QED
  BY <1>1, <1>2, <1>3, PdAssumption DEF Ownership

\* Submission, dequeue, flush, completion and teardown hand an event over, and
\* nothing else touches it.
LEMMA StepOwnership == IInv /\ Ownership /\ [Next]_vars => Ownership'
<1> SUFFICES ASSUME IInv, Ownership, [Next]_vars PROVE Ownership'
  OBVIOUS
<1>0. queue \in Seq(Events) /\ owner \in [Events -> {"app", "pd"}]
      /\ active \in Events \cup {NoEvent}
  BY DEF IInv, TypeOK, EventsOK
<1>1. ASSUME NEW e \in Events, osdp_pd_submit_event(e) PROVE Ownership'
  <2>1. /\ owner[e] = "app" /\ queue' = Append(queue, e)
        /\ owner' = [owner EXCEPT ![e] = "pd"]
        /\ HeldForReply' = HeldForReply
    BY <1>1 DEF osdp_pd_submit_event, HeldForReply, control
  <2>2. e \notin Range(queue) /\ e # HeldForReply
    BY <2>1 DEF Ownership
  <2>3. Range(queue') = Range(queue) \cup {e} /\ IsInjective(queue')
    BY <1>0, <2>1, <2>2, AppendLemma DEF Ownership
  <2> QED
    BY <1>0, <2>1, <2>2, <2>3 DEF Ownership
<1>2. ASSUME osdp_pd_flush_events PROVE Ownership'
  <2>1. /\ queue' = <<>> /\ HeldForReply' = HeldForReply
        /\ owner' = [e \in Events |-> IF e \in Range(queue) THEN "app" ELSE owner[e]]
    BY <1>2 DEF osdp_pd_flush_events, HandBack, HeldForReply, control
  <2> QED
    BY <1>0, <2>1, EmptyLemma DEF Ownership
<1>3. ASSUME osdp_pd_teardown PROVE Ownership'
  <2> DEFINE es == Range(queue) \cup ({active} \ {NoEvent})
  <2>1. /\ queue' = <<>> /\ HeldForReply = active /\ HeldForReply' = NoEvent
        /\ owner' = [e \in Events |-> IF e \in es THEN "app" ELSE owner[e]]
    BY <1>3 DEF osdp_pd_teardown, HandBack, HeldForReply
  <2> QED
    BY <1>0, <2>1, EmptyLemma, PdAssumption DEF Ownership
<1>4. ASSUME NEW r \in BOOLEAN, DecodePoll(r) PROVE Ownership'
  <2>1. CASE queue # <<>>
    <3>1. TakeEvent /\ HeldForReply = NoEvent /\ pc' # "completing"
      BY <1>4, <2>1 DEF DecodePoll, Decode, Received, HeldForReply, IInv,
         ActiveInv
    <3> QED
      BY <2>1, <3>1, TakeOwnership
  <2>2. CASE queue = <<>>
    BY <1>4, <2>2, SameOwnership DEF DecodePoll, Decode, Received,
       HeldForReply, events
  <2> QED
    BY <2>1, <2>2
<1>5. ASSUME CallbackAnswers PROVE Ownership'
  <2>1. queue # <<>> /\ TakeEvent /\ HeldForReply = NoEvent /\ pc' # "completing"
    BY <1>5 DEF CallbackAnswers, InlineReply, HeldForReply, IInv, ActiveInv
  <2> QED
    BY <2>1, TakeOwnership
<1>6. ASSUME BuildNak \/ BuildFails PROVE Ownership'
  <2>1. active # NoEvent /\ pc # "completing"
    BY <1>6 DEF BuildNak, BuildFails, IInv, ActiveInv
  <2>2. Complete("FAILED", "built") \/ Complete("FAILED", "reset")
    BY <1>6 DEF BuildNak, BuildFails
  <2> QED
    BY <2>1, <2>2, CompleteOwnership
<1>7. ASSUME NEW status, Finish(status), pc = "built" PROVE Ownership'
  <2>1. CASE active # NoEvent
    <3>1. Complete(status, "idle")
      BY <1>7, <2>1 DEF Finish
    <3> QED
      BY <1>7, <2>1, <3>1, CompleteOwnership
  <2>2. CASE active = NoEvent
    BY <1>7, <2>2, SameOwnership DEF Finish, HeldForReply, events
  <2> QED
    BY <2>1, <2>2
<1>8. ASSUME SendFails \/ SendOk PROVE Ownership'
  BY <1>7, <1>8 DEF SendFails, SendOk
<1>9. ASSUME Completed PROVE Ownership'
  BY <1>9, SameOwnership DEF Completed, HeldForReply
<1>10. ASSUME osdp_pd_setup PROVE Ownership'
  BY <1>10, SameOwnership DEF osdp_pd_setup, HeldForReply, events
<1>11. ASSUME Begin PROVE Ownership'
  BY <1>11, SameOwnership DEF Begin, AfterTimers, HeldForReply, events
<1>12. ASSUME ReceiveNothing \/ ReceiveError \/ Refuse PROVE Ownership'
  BY <1>12, SameOwnership DEF ReceiveNothing, ReceiveError, Refuse, Received,
     HeldForReply, events
<1>13. ASSUME NEW r \in BOOLEAN, NEW c \in Codes,
              \/ DecodeRefused(c, r) \/ DecodeLibrary(c, r)
              \/ DecodeCommand(c, r) \/ DecodeChallenge(r)
              \/ DecodeCryptogram(r)
       PROVE  Ownership'
  BY <1>13, SameOwnership DEF DecodeRefused, DecodeLibrary, DecodeCommand,
     DecodeChallenge, DecodeCryptogram, Decode, Received, HeldForReply, events
<1>14. ASSUME CallbackRefuses \/ CallbackAcknowledged \/ CallbackReports
              \/ CallbackTakesComset \/ \E k \in Keys : CallbackTakesKey(k)
       PROVE  Ownership'
  BY <1>14, SameOwnership DEF CallbackRefuses, CallbackAcknowledged,
     CallbackReports, CallbackTakesComset, CallbackTakesKey, HeldForReply,
     events
<1>15. ASSUME BuildReply \/ SendWaits PROVE Ownership'
  BY <1>15, SameOwnership DEF BuildReply, SendWaits, HeldForReply, events
<1>16. CASE UNCHANGED vars
  BY <1>16, SameOwnership DEF vars, events, control, HeldForReply
<1>17. \E c \in Codes : TRUE
  BY DEF Codes
<1> QED
  BY <1>1, <1>2, <1>3, <1>4, <1>5, <1>6, <1>8, <1>9, <1>10, <1>11, <1>12,
     <1>13, <1>14, <1>15, <1>16, <1>17 DEF Next, Api, osdp_pd_refresh, Receive,
     CallbackReturns, Build, Send

\* Every event accepted by osdp_pd_submit_event() is handed back exactly once,
\* whatever callbacks submit and flush.
THEOREM ExactlyOnce == Spec => []Ownership
<1>1. Init => Ownership
  BY PdAssumption, EmptyLemma DEF Init, Ownership, HeldForReply
<1>2. IInv /\ Ownership /\ [Next]_vars => Ownership'
  BY StepOwnership
<1> QED
  BY <1>1, <1>2, Invariance, PTL DEF Spec
=============================================================================
