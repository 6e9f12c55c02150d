---------------------------- MODULE EnginesProofs ----------------------------
(***************************************************************************)
(* The completion slot that the engines of a PD share, for any set of      *)
(* operations, any lengths of commands and answers and any faults: the     *)
(* command in it is that of an operation that runs, and no card operation  *)
(* or transfer runs without its command in it.  What makes this inductive  *)
(* is where the commands are that are not in the slot: Elsewhere.          *)
(*                                                                         *)
(* And the answers to card operations: each operation gets its own, whole, *)
(* or fails.  This takes what the ends know of each other: which operation *)
(* the PD has open, and how far it is, while the CP sends its command and  *)
(* while it polls for the answer (AnswerInv).                              *)
(***************************************************************************)
EXTENDS Engines, SequenceTheorems, TLAPS

Where == {"app", "queued", "active", "slot"} \cup Settled

Types ==
    /\ status \in [Ops -> Where]
    /\ {active, slot, file} \subseteq Ops \cup {NoOp}
    /\ piv = [phase |-> piv.phase, op |-> piv.op, sent |-> piv.sent,
              rx |-> piv.rx, cancel |-> piv.cancel]
    /\ bio = [phase |-> bio.phase, rx |-> bio.rx, cancel |-> bio.cancel]

\* What runs is of the kind its engine is for.
OfItsKind ==
    /\ piv.phase # "IDLE" => piv.op \in Ops /\ Kind[piv.op] \in PivKinds
    /\ file # NoOp => Kind[file] = "FILE"

\* A BIOREAD waits in the queue, once, and then is the command in flight.
Elsewhere ==
    /\ queue \in Seq(Ops) /\ IsInjective(queue)
    /\ \A o \in Range(queue) : status[o] = "queued" /\ Kind[o] = "BIOREAD"
    /\ active # NoOp => status[active] = "active" /\ Kind[active] = "BIOREAD"

IInv == Types /\ OfItsKind /\ Elsewhere /\ SlotIsLive

-----------------------------------------------------------------------------
(* The queue, a sequence without duplicates: enqueue appends, dequeue takes
   the head.                                                               *)

\* What is in a queue has the queue's type.
LEMMA RangeLemma ==
  ASSUME NEW S, NEW q \in Seq(S)
  PROVE  Range(q) \subseteq S
  BY RangeOfSeq

\* enqueue adds one object at the end of the queue.
LEMMA AppendLemma ==
  ASSUME NEW S, NEW q \in Seq(S), NEW x \in S
  PROVE  /\ Range(Append(q, x)) = Range(q) \cup {x}
         /\ IsInjective(q) /\ x \notin Range(q) => IsInjective(Append(q, x))
<1>1. /\ DOMAIN q = 1..Len(q) /\ DOMAIN Append(q, x) = 1..(Len(q) + 1)
      /\ Len(q) \in Nat /\ Append(q, x)[Len(q) + 1] = x
      /\ \A i \in 1..Len(q) : Append(q, x)[i] = q[i]
  OBVIOUS
<1> QED
  BY <1>1 DEF Range, IsInjective

\* dequeue takes the first object out of the queue.
LEMMA TailLemma ==
  ASSUME NEW S, NEW q \in Seq(S), q # <<>>, IsInjective(q)
  PROVE  /\ Head(q) \in S
         /\ Head(q) \notin Range(Tail(q))
         /\ Range(q) = Range(Tail(q)) \cup {Head(q)}
         /\ IsInjective(Tail(q))
<1>1. /\ DOMAIN q = 1..Len(q) /\ DOMAIN Tail(q) = 1..(Len(q) - 1)
      /\ Len(q) \in Nat /\ Len(q) > 0 /\ Head(q) = q[1] /\ Head(q) \in S
      /\ \A i \in 1..(Len(q) - 1) : Tail(q)[i] = q[i + 1]
  OBVIOUS
<1>2. Range(q) = Range(<<Head(q)>>) \cup Range(Tail(q))
  <2>1. q = <<Head(q)>> \o Tail(q) /\ <<Head(q)>> \in Seq(S) /\ Tail(q) \in Seq(S)
    BY <1>1
  <2> QED
    BY <2>1, RangeConcatenation
<1>3. Head(q) \notin Range(Tail(q)) /\ IsInjective(Tail(q))
  BY <1>1 DEF Range, IsInjective
<1>4. Range(<<Head(q)>>) = {Head(q)}
  BY DEF Range
<1> QED
  BY <1>1, <1>2, <1>3, <1>4

\* A queue that was detached is empty.
LEMMA EmptyLemma == Range(<<>>) = {} /\ IsInjective(<<>>)
  BY DEF Range, IsInjective

-----------------------------------------------------------------------------
(* Completions *)

\* What is completed is the command in the slot, or none.
LEMMA SettlesFacts ==
    ASSUME IInv, NEW kinds
    PROVE  \/ Settles(kinds) = slot /\ slot \in Ops /\ Kind[slot] \in kinds
           \/ Settles(kinds) = NoOp /\ (slot # NoOp => Kind[slot] \notin kinds)
  BY DEF Settles, IInv, Types

\* Whatever is in the slot belongs to an operation that runs.
LEMMA RunningFacts ==
    ASSUME IInv
    PROVE  /\ slot # NoOp => Kind[slot] \in Running
           /\ Settles(Running) = slot
<1>1. slot # NoOp => Kind[slot] \in Running
  BY DEF IInv, SlotIsLive, Running, OfItsKind
<1> QED
  BY <1>1 DEF Settles, IInv, Types

LEMMA NotBusy ==
    ASSUME IInv, ~Busy
    PROVE  slot = NoOp /\ file = NoOp /\ piv.phase = "IDLE" /\ bio.phase = "IDLE"
  BY RunningFacts DEF Busy, Running

\* No command is in two places.
LEMMA Apart ==
    ASSUME IInv
    PROVE  /\ slot # NoOp => slot \in Ops /\ status[slot] = "slot"
           /\ active # NoOp => active \in Ops /\ status[active] = "active"
           /\ \A o \in Ops : status[o] = "queued" => o \notin {slot, active}
<1>1. slot # NoOp => slot \in Ops /\ status[slot] = "slot"
  BY DEF IInv, Types, SlotIsLive
<1>2. active # NoOp => active \in Ops /\ status[active] = "active"
  BY DEF IInv, Types, Elsewhere
<1> QED
  BY <1>1, <1>2, EnginesAssumption

\* The queue is as good after a step that only completes other commands.
LEMMA QueueKept ==
    ASSUME IInv, queue' = queue,
           \A o \in Ops : status[o] = "queued" => status'[o] = "queued"
    PROVE  /\ queue' \in Seq(Ops) /\ IsInjective(queue')
           /\ \A o \in Range(queue') : status'[o] = "queued" /\ Kind[o] = "BIOREAD"
  BY RangeLemma DEF IInv, Elsewhere

LEMMA OfflineKeeps ==
    ASSUME IInv, NEW outcome \in Settled, GoOffline(outcome)
    PROVE  IInv'
<1> USE DEF IInv
<1>1. /\ slot' = NoOp /\ active' = NoOp /\ file' = NoOp
      /\ piv' = IdlePiv /\ bio' = IdleBio /\ queue' = queue
      /\ status' = Complete(Complete(status, slot, "FAILED"), active, outcome)
  BY RunningFacts, EnginesAssumption DEF GoOffline, Types
<1>2. /\ status' \in [Ops -> Where]
      /\ \A o \in Ops : /\ o = slot => status'[o] \in Settled
                        /\ o = active => status'[o] \in Settled
                        /\ o \notin {slot, active} => status'[o] = status[o]
  <2> DEFINE s1 == Complete(status, slot, "FAILED")
  <2>1. /\ outcome \in Where /\ "FAILED" \in Where /\ "FAILED" \in Settled
        /\ active \in Ops \cup {NoOp} /\ slot \in Ops \cup {NoOp}
    BY DEF Where, Settled, Types
  <2>2. /\ s1 \in [Ops -> Where]
        /\ \A o \in Ops : s1[o] = IF o = slot THEN "FAILED" ELSE status[o]
    <3>1. status \in [Ops -> Where]
      BY DEF Types
    <3> QED
      BY <2>1, <3>1, EnginesAssumption DEF Complete
  <2>3. status' = Complete(s1, active, outcome)
    BY <1>1
  <2> HIDE DEF s1
  <2>4. /\ status' \in [Ops -> Where]
        /\ \A o \in Ops : status'[o] = IF o = active THEN outcome ELSE s1[o]
    BY <2>1, <2>2, <2>3, EnginesAssumption DEF Complete
  <2> QED
    BY <2>1, <2>2, <2>4
<1>3. Types' /\ OfItsKind'
  BY <1>1, <1>2 DEF Types, OfItsKind, IdlePiv, IdleBio
<1>4. Elsewhere'
  <2>1. \A o \in Ops : status[o] = "queued" => status'[o] = "queued"
    BY <1>2, Apart
  <2> QED
    BY <1>1, <2>1, QueueKept DEF Elsewhere
<1>5. SlotIsLive'
  BY <1>1, <1>2, EnginesAssumption DEF SlotIsLive, IdlePiv, Settled
<1> QED
  BY <1>3, <1>4, <1>5

\* A valid reply during which operations of `kinds` ended.
LEMMA ExchangeKeeps ==
    ASSUME IInv, NEW kinds, NEW outcome \in Settled, NEW b,
           ExchangeDone(kinds, outcome, b),
           b = [phase |-> b.phase, rx |-> b.rx, cancel |-> b.cancel],
           bio.phase # "IDLE" => b.phase # "IDLE" \/ "BIOREAD" \in kinds,
           b.phase # "IDLE" => "BIOREAD" \notin kinds,
           piv' = [phase |-> piv'.phase, op |-> piv'.op, sent |-> piv'.sent,
                   rx |-> piv'.rx, cancel |-> piv'.cancel],
           piv'.phase # "IDLE" => piv.phase # "IDLE" /\ piv'.op = piv.op
                                  /\ Kind[piv.op] \notin kinds,
           piv.phase # "IDLE" /\ Kind[piv.op] \notin kinds => piv'.phase # "IDLE",
           "FILE" \notin kinds
    PROVE  IInv'
<1> USE DEF IInv
<1> DEFINE ended == Settles(kinds)
           handOver == active # NoOp /\ b.phase # "IDLE" /\ slot \in {NoOp, ended}
<1>1. /\ bio' = b /\ active' = NoOp /\ queue' = queue /\ file' = file
      /\ slot' = IF handOver THEN active ELSE IF ended = NoOp THEN slot ELSE NoOp
      /\ status' = Complete(Complete(status, ended, outcome), active,
                            IF handOver THEN "slot" ELSE "OK")
  BY DEF ExchangeDone
<1>2. \/ ended = slot /\ slot \in Ops /\ Kind[slot] \in kinds
      \/ ended = NoOp /\ (slot # NoOp => Kind[slot] \notin kinds)
  BY SettlesFacts
<1>3. /\ active # NoOp => active \in Ops /\ active # slot /\ active # ended
      /\ NoOp \notin Ops /\ ended \in Ops \cup {NoOp}
  BY <1>2, Apart, EnginesAssumption
<1>4. /\ status' \in [Ops -> Where]
      /\ \A o \in Ops :
            /\ o = ended => status'[o] \in Settled
            /\ o = active => status'[o] = IF handOver THEN "slot" ELSE "OK"
            /\ o \notin {ended, active} => status'[o] = status[o]
  <2> DEFINE s1 == Complete(status, ended, outcome)
             to == IF handOver THEN "slot" ELSE "OK"
  <2>1. outcome \in Where /\ to \in Where /\ active \in Ops \cup {NoOp}
    BY DEF Where, Settled, Types
  <2>2. /\ s1 \in [Ops -> Where]
        /\ \A o \in Ops : s1[o] = IF o = ended THEN outcome ELSE status[o]
    <3>1. status \in [Ops -> Where]
      BY DEF Types
    <3> HIDE DEF ended, handOver, to
    <3> QED
      BY <1>3, <2>1, <3>1 DEF Complete
  <2>3. status' = Complete(s1, active, to)
    BY <1>1
  <2> HIDE DEF s1
  <2>4. /\ status' \in [Ops -> Where]
        /\ \A o \in Ops : status'[o] = IF o = active THEN to ELSE s1[o]
    BY <2>1, <2>2, <2>3, EnginesAssumption DEF Complete
  <2> QED
    BY <1>3, <2>2, <2>4
<1>5. Types'
  BY <1>1, <1>2, <1>3, <1>4 DEF Types
<1>6. OfItsKind'
  BY <1>1 DEF OfItsKind
<1>7. Elsewhere'
  <2>1. \A o \in Ops : status[o] = "queued" => status'[o] = "queued"
    <3>1. ended \in {slot, NoOp}
      BY <1>2
    <3> HIDE DEF ended
    <3>2. \A o \in Ops : status[o] = "queued" => o \notin {ended, active}
      BY <1>3, <3>1, Apart
    <3> QED
      BY <1>4, <3>2
  <2> QED
    BY <1>1, <2>1, QueueKept DEF Elsewhere
<1>8. SlotIsLive'
  <2>1. CASE handOver
    <3>1. slot' = active /\ active \in Ops /\ Kind[active] = "BIOREAD"
          /\ bio'.phase # "IDLE"
      BY <1>1, <1>3, <2>1 DEF Elsewhere
    <3>2. piv'.phase = "IDLE" /\ file' = NoOp
      <4>1. CASE slot = NoOp
        BY <1>1, <4>1, EnginesAssumption DEF SlotIsLive, OfItsKind, Types
      <4>2. CASE slot # NoOp
        <5>1. slot \in Ops /\ Kind[slot] \in kinds
          BY <1>2, <2>1, <4>2
        <5> QED
          BY <1>1, <5>1 DEF SlotIsLive, OfItsKind
      <4> QED
        BY <4>1, <4>2
    <3>3. \A o \in Ops : status'[o] = "slot" <=> slot' = o
      BY <1>2, <1>3, <1>4, <2>1, <3>1 DEF SlotIsLive, Settled
    <3> QED
      BY <3>1, <3>2, <3>3 DEF SlotIsLive
  <2>2. CASE ~handOver
    <3>1. \A o \in Ops : status'[o] = "slot" <=> slot' = o
      BY <1>1, <1>2, <1>3, <1>4, <2>2, EnginesAssumption DEF SlotIsLive, Settled
    <3>2. CASE ended = NoOp
      BY <1>1, <1>2, <2>2, <3>1, <3>2 DEF SlotIsLive
    <3>3. CASE ended # NoOp
      <4>1. slot' = NoOp /\ Kind[slot] \in kinds /\ slot \in Ops
        BY <1>1, <1>2, <2>2, <3>3
      <4>2. piv'.phase = "IDLE" /\ file' = NoOp
        BY <1>1, <4>1 DEF SlotIsLive, OfItsKind, Types
      <4> QED
        BY <3>1, <4>1, <4>2 DEF SlotIsLive
    <3> QED
      BY <3>2, <3>3
  <2> QED
    BY <2>1, <2>2
<1> QED
  BY <1>5, <1>6, <1>7, <1>8
-----------------------------------------------------------------------------
(* One lemma per step *)

\* Done() of the family that the slot's command is of.
LEMMA DoneFacts ==
    ASSUME IInv, slot \in Ops, NEW outcome \in Settled,
           Done({Kind[slot]}, outcome)
    PROVE  /\ slot' = NoOp
           /\ status' \in [Ops -> Where]
           /\ \A o \in Ops : status'[o] = IF o = slot THEN outcome ELSE status[o]
<1>1. Settles({Kind[slot]}) = slot /\ slot # NoOp
  BY EnginesAssumption DEF Settles
<1>2. slot' = NoOp /\ status' = [status EXCEPT ![slot] = outcome]
  BY <1>1 DEF Done, Complete
<1>3. outcome \in Where /\ status \in [Ops -> Where]
  BY DEF Where, IInv, Types
<1> QED
  BY <1>2, <1>3

\* The operation in the slot ends and nothing else does.
LEMMA EndKeeps ==
    ASSUME IInv, slot \in Ops, NEW outcome \in Settled,
           Done({Kind[slot]}, outcome), UNCHANGED <<queue, active>>,
           file' = NoOp,
           piv'.phase = "IDLE",
           piv' = [phase |-> piv'.phase, op |-> piv'.op, sent |-> piv'.sent,
                   rx |-> piv'.rx, cancel |-> piv'.cancel],
           bio' = [phase |-> bio'.phase, rx |-> bio'.rx, cancel |-> bio'.cancel]
    PROVE  IInv'
<1>1. /\ slot' = NoOp /\ status' \in [Ops -> Where]
      /\ \A o \in Ops : status'[o] = IF o = slot THEN outcome ELSE status[o]
  BY DoneFacts
<1>2. Types' /\ OfItsKind'
  BY <1>1 DEF IInv, Types, OfItsKind, IdlePiv
<1>3. Elsewhere'
  <2>1. \A o \in Ops : status[o] = "queued" => status'[o] = "queued"
    BY <1>1, Apart
  <2>2. active # NoOp => active \in Ops /\ active # slot
    BY Apart
  <2> QED
    BY <1>1, <2>1, <2>2, QueueKept DEF IInv, Elsewhere
<1>4. SlotIsLive'
  BY <1>1, EnginesAssumption DEF IInv, SlotIsLive, IdlePiv, Settled
<1> QED
  BY <1>2, <1>3, <1>4 DEF IInv

\* A card operation or a transfer starts in an empty slot.
LEMMA StartKeeps ==
    ASSUME IInv, ~Busy, NEW o \in Ops, status[o] = "app",
           slot' = o, status' = [status EXCEPT ![o] = "slot"],
           UNCHANGED <<queue, active, bio>>,
           \/ /\ Kind[o] \in PivKinds
              /\ piv' = [IdlePiv EXCEPT !.phase = "CMD", !.op = o]
              /\ file' = file
           \/ /\ Kind[o] = "FILE"
              /\ file' = o
              /\ piv' = piv
    PROVE  IInv'
<1>1. slot = NoOp /\ file = NoOp /\ piv.phase = "IDLE" /\ bio.phase = "IDLE"
  BY NotBusy
<1>2. /\ status' \in [Ops -> Where]
      /\ \A x \in Ops : status'[x] = IF x = o THEN "slot" ELSE status[x]
  BY DEF IInv, Types, Where
<1>3. Types' /\ OfItsKind'
  BY <1>1, <1>2 DEF IInv, Types, OfItsKind, IdlePiv
<1>4. Elsewhere'
  <2>1. \A x \in Ops : status[x] = "queued" => status'[x] = "queued"
    BY <1>2
  <2>2. active # NoOp => active \in Ops /\ active # o
    BY Apart
  <2> QED
    BY <1>2, <2>1, <2>2, QueueKept DEF IInv, Elsewhere
<1>5. SlotIsLive'
  <2>1. \A x \in Ops : status'[x] = "slot" <=> slot' = x
    BY <1>1, <1>2, EnginesAssumption DEF IInv, SlotIsLive
  <2>2. o # NoOp
    BY EnginesAssumption
  <2> QED
    BY <1>1, <2>1, <2>2 DEF SlotIsLive, IdlePiv, PivKinds
<1> QED
  BY <1>3, <1>4, <1>5 DEF IInv

LEMMA SubmitKeeps ==
    ASSUME IInv, NEW o \in Ops, osdp_cp_submit_command(o)
    PROVE  IInv'
<1>1. CASE SubmitCardOp(o)
  BY <1>1, StartKeeps DEF osdp_cp_submit_command, SubmitCardOp
<1>2. CASE SubmitFile(o)
  BY <1>2, StartKeeps DEF osdp_cp_submit_command, SubmitFile
<1>3. CASE SubmitRead(o)
  <2>1. /\ Kind[o] = "BIOREAD" /\ status[o] = "app" /\ queue' = Append(queue, o)
        /\ UNCHANGED <<slot, file, piv, active, bio>>
    BY <1>3 DEF osdp_cp_submit_command, SubmitRead
  <2>2. /\ status' \in [Ops -> Where]
        /\ \A x \in Ops : status'[x] = IF x = o THEN "queued" ELSE status[x]
    BY <1>3 DEF IInv, Types, Where, SubmitRead
  <2>3. Types' /\ OfItsKind'
    BY <2>1, <2>2 DEF IInv, Types, OfItsKind
  <2>4. Elsewhere'
    <3>1. queue \in Seq(Ops) /\ IsInjective(queue) /\ o \notin Range(queue)
      BY <2>1 DEF IInv, Elsewhere
    <3>2. /\ queue' \in Seq(Ops) /\ IsInjective(queue')
          /\ Range(queue') = Range(queue) \cup {o}
      BY <2>1, <3>1, AppendLemma
    <3>3. \A x \in Range(queue') : x \in Ops
      BY <3>2, RangeLemma
    <3>4. \A x \in Range(queue') : status'[x] = "queued" /\ Kind[x] = "BIOREAD"
      BY <2>1, <2>2, <3>2, <3>3 DEF IInv, Elsewhere
    <3>5. active # NoOp => active \in Ops /\ active # o
      BY <2>1, Apart
    <3> QED
      BY <2>1, <2>2, <3>2, <3>4, <3>5 DEF IInv, Elsewhere
  <2>5. SlotIsLive'
    BY <2>1, <2>2 DEF IInv, SlotIsLive
  <2> QED
    BY <2>3, <2>4, <2>5 DEF IInv
<1> QED
  BY <1>1, <1>2, <1>3 DEF osdp_cp_submit_command

\* What an idle step does not touch, IInv does not change with.
LEMMA CpUntouched ==
    ASSUME IInv, UNCHANGED <<status, queue, active, slot, file, piv, bio>>
    PROVE  IInv'
  BY DEF IInv, Types, OfItsKind, Elsewhere, SlotIsLive

LEMMA CancelKeeps ==
    ASSUME IInv, NEW kind, osdp_cp_cancel(kind)
    PROVE  IInv'
<1>1. /\ UNCHANGED <<status, queue, active, slot, file>>
      /\ \/ piv' = [piv EXCEPT !.cancel = TRUE] /\ bio' = bio
         \/ bio' = [bio EXCEPT !.cancel = TRUE] /\ piv' = piv
  BY DEF osdp_cp_cancel
<1>2. /\ piv'.phase = piv.phase /\ piv'.op = piv.op /\ bio'.phase = bio.phase
      /\ Types'
  BY <1>1 DEF IInv, Types
<1> QED
  BY <1>1, <1>2 DEF IInv, OfItsKind, Elsewhere, SlotIsLive

LEMMA SendReadKeeps ==
    ASSUME IInv, CpSendRead
    PROVE  IInv'
<1>1. /\ queue # <<>> /\ active' = Head(queue) /\ queue' = Tail(queue)
      /\ status' = [status EXCEPT ![active'] = "active"]
      /\ UNCHANGED <<slot, file, piv, bio>>
  BY DEF CpSendRead
<1>2. queue \in Seq(Ops) /\ IsInjective(queue)
  BY DEF IInv, Elsewhere
<1>3. /\ active' \in Ops /\ active' \notin Range(queue')
      /\ Range(queue) = Range(queue') \cup {active'}
      /\ queue' \in Seq(Ops) /\ IsInjective(queue')
  BY <1>1, <1>2, TailLemma
<1>4. status[active'] = "queued" /\ Kind[active'] = "BIOREAD"
  BY <1>3 DEF IInv, Elsewhere
<1>5. /\ status' \in [Ops -> Where]
      /\ \A o \in Ops : status'[o] = IF o = active' THEN "active" ELSE status[o]
  BY <1>1, <1>3 DEF IInv, Types, Where
<1>6. Types' /\ OfItsKind'
  BY <1>1, <1>3, <1>5 DEF IInv, Types, OfItsKind
<1>7. Elsewhere'
  <2>1. \A o \in Range(queue') : o \in Ops /\ o # active'
    BY <1>3, RangeLemma
  <2> QED
    BY <1>3, <1>4, <1>5, <2>1 DEF IInv, Elsewhere
<1>8. SlotIsLive'
  BY <1>1, <1>4, <1>5 DEF IInv, SlotIsLive
<1> QED
  BY <1>6, <1>7, <1>8 DEF IInv

LEMMA EndCardOpKeeps ==
    ASSUME IInv, CpEndCardOp
    PROVE  IInv'
<1>1. /\ piv.op \in Ops /\ Kind[piv.op] \in PivKinds /\ slot = piv.op
      /\ file = NoOp
  <2>1. piv.op \in Ops /\ Kind[piv.op] \in PivKinds /\ slot = piv.op
    BY DEF CpEndCardOp, IInv, OfItsKind, SlotIsLive
  <2>2. Kind[piv.op] # "FILE"
    BY <2>1 DEF PivKinds
  <2> QED
    BY <2>1, <2>2 DEF IInv, OfItsKind, SlotIsLive
<1>2. /\ Done({Kind[slot]}, "FAILED") /\ UNCHANGED <<queue, active, file, bio>>
      /\ piv' = IdlePiv
  BY <1>1 DEF CpEndCardOp
<1>3. "FAILED" \in Settled /\ slot \in Ops
  BY <1>1 DEF Settled
<1> QED
  BY <1>1, <1>2, <1>3, EndKeeps DEF IInv, Types, IdlePiv

LEMMA EndFileKeeps ==
    ASSUME IInv, CpEndFile
    PROVE  IInv'
<1>1. file \in Ops /\ Kind[file] = "FILE" /\ slot = file
  BY DEF CpEndFile, IInv, Types, OfItsKind, SlotIsLive
<1>2. piv.phase = "IDLE"
  BY <1>1 DEF IInv, OfItsKind, SlotIsLive, PivKinds
<1>3. PICK outcome \in Settled : Done({Kind[slot]}, outcome)
  BY <1>1 DEF CpEndFile, Settled
<1>4. file' = NoOp /\ UNCHANGED <<queue, active, piv, bio>>
  BY DEF CpEndFile
<1> QED
  BY <1>1, <1>2, <1>3, <1>4, EndKeeps DEF IInv, Types

LEMMA EndReadKeeps ==
    ASSUME IInv, CpEndRead
    PROVE  IInv'
<1>1. /\ piv.phase = "IDLE" /\ bio' = IdleBio /\ UNCHANGED <<queue, active, file, piv>>
      /\ Done({"BIOREAD"}, "FAILED")
  BY DEF CpEndRead
<1>2. CASE slot # NoOp /\ Kind[slot] = "BIOREAD"
  <2>1. slot \in Ops /\ "FAILED" \in Settled /\ Done({Kind[slot]}, "FAILED")
    BY <1>1, <1>2, Apart DEF Settled
  <2>2. file = NoOp
    BY <1>2 DEF IInv, OfItsKind, SlotIsLive
  <2> QED
    BY <1>1, <2>1, <2>2, EndKeeps DEF IInv, Types, IdleBio
<1>3. CASE ~(slot # NoOp /\ Kind[slot] = "BIOREAD")
  <2>1. slot' = slot /\ status' = status
    BY <1>1, <1>3 DEF Done, Settles, Complete
  <2> QED
    BY <1>1, <1>3, <2>1 DEF IInv, Types, OfItsKind, Elsewhere, SlotIsLive, IdleBio
<1> QED
  BY <1>2, <1>3

LEMMA AckKeeps ==
    ASSUME IInv, CpAck
    PROVE  IInv'
<1>1. /\ ExchangeDone({}, "OK", bio)
      /\ piv' = IF ~OwnCommand THEN piv
                ELSE [piv EXCEPT !.sent = @ + 1,
                                 !.phase = IF piv.sent + 1 = CmdFrags[piv.op]
                                           THEN "REPLY" ELSE "CMD"]
  BY DEF CpAck
<1>2. /\ piv' = [phase |-> piv'.phase, op |-> piv'.op, sent |-> piv'.sent,
                 rx |-> piv'.rx, cancel |-> piv'.cancel]
      /\ piv'.op = piv.op
      /\ piv'.phase = "IDLE" <=> piv.phase = "IDLE"
  BY <1>1 DEF IInv, Types, OwnCommand
<1>3. "OK" \in Settled /\ bio = [phase |-> bio.phase, rx |-> bio.rx, cancel |-> bio.cancel]
  BY DEF Settled, IInv, Types
<1> QED
  BY <1>1, <1>2, <1>3, ExchangeKeeps

LEMMA CardFragmentKeeps ==
    ASSUME IInv, CpCardFragment
    PROVE  IInv'
<1>1. /\ piv.phase # "IDLE" /\ wire.reply = Kind[piv.op]
      /\ wire.reply \in PivKinds /\ "BIOREAD" # wire.reply /\ "FILE" # wire.reply
  BY DEF CpCardFragment, Expected, OwnCommand, PivKinds
<1>2. /\ "OK" \in Settled /\ \A fits : Verdict(fits) \in Settled
      /\ bio = [phase |-> bio.phase, rx |-> bio.rx, cancel |-> bio.cancel]
  BY DEF Settled, Verdict, IInv, Types
<1>3. \/ \E rx : /\ piv' = [piv EXCEPT !.phase = "REPLY", !.rx = rx]
                 /\ ExchangeDone({}, "OK", bio)
      \/ \E fits : /\ piv' = IdlePiv
                   /\ ExchangeDone({wire.reply}, Verdict(fits), bio)
  BY DEF CpCardFragment
<1>4. ASSUME NEW rx, piv' = [piv EXCEPT !.phase = "REPLY", !.rx = rx],
             ExchangeDone({}, "OK", bio)
      PROVE  IInv'
  <2>1. /\ piv' = [phase |-> piv'.phase, op |-> piv'.op, sent |-> piv'.sent,
                   rx |-> piv'.rx, cancel |-> piv'.cancel]
        /\ piv'.phase # "IDLE" /\ piv'.op = piv.op
    BY <1>4 DEF IInv, Types
  <2> QED
    BY <1>1, <1>2, <1>4, <2>1, ExchangeKeeps
<1>5. ASSUME NEW fits, piv' = IdlePiv, ExchangeDone({wire.reply}, Verdict(fits), bio)
      PROVE  IInv'
  <2>1. /\ piv' = [phase |-> piv'.phase, op |-> piv'.op, sent |-> piv'.sent,
                   rx |-> piv'.rx, cancel |-> piv'.cancel]
        /\ piv'.phase = "IDLE"
    BY <1>5 DEF IdlePiv
  <2> QED
    BY <1>1, <1>2, <1>5, <2>1, ExchangeKeeps
<1> QED
  BY <1>3, <1>4, <1>5

\* The templates leave the card operation alone.
LEMMA TemplateKeeps ==
    ASSUME IInv, NEW kinds \in SUBSET {"BIOREAD"}, NEW outcome \in Settled, NEW b,
           ExchangeDone(kinds, outcome, b), piv' = piv,
           b = [phase |-> b.phase, rx |-> b.rx, cancel |-> b.cancel],
           bio.phase # "IDLE" => b.phase # "IDLE" \/ "BIOREAD" \in kinds,
           b.phase # "IDLE" => "BIOREAD" \notin kinds
    PROVE  IInv'
<1>1. /\ piv' = [phase |-> piv'.phase, op |-> piv'.op, sent |-> piv'.sent,
                 rx |-> piv'.rx, cancel |-> piv'.cancel]
      /\ piv'.phase = piv.phase /\ piv'.op = piv.op
      /\ piv.phase # "IDLE" => Kind[piv.op] \notin kinds
      /\ "FILE" \notin kinds
  BY DEF IInv, Types, OfItsKind, PivKinds
<1> QED
  BY <1>1, ExchangeKeeps

LEMMA FirstTemplateKeeps ==
    ASSUME IInv, CpFirstTemplate
    PROVE  IInv'
<1>1. /\ piv' = piv /\ bio.phase = "IDLE"
      /\ \/ \E rx : ExchangeDone({}, "OK", [IdleBio EXCEPT !.phase = "REPLY",
                                                        !.rx = rx])
         \/ ExchangeDone({}, "OK", bio)
  BY DEF CpFirstTemplate
<1>2. ASSUME NEW b, ExchangeDone({}, "OK", b),
             b = [phase |-> b.phase, rx |-> b.rx, cancel |-> b.cancel]
      PROVE  IInv'
  BY <1>1, <1>2, TemplateKeeps DEF Settled
<1>3. ASSUME NEW rx,
             ExchangeDone({}, "OK", [IdleBio EXCEPT !.phase = "REPLY", !.rx = rx])
      PROVE  IInv'
  <2>1. PICK b : b = [IdleBio EXCEPT !.phase = "REPLY", !.rx = rx]
    OBVIOUS
  <2>2. b = [phase |-> b.phase, rx |-> b.rx, cancel |-> b.cancel]
    BY <2>1 DEF IdleBio
  <2> QED
    BY <1>2, <1>3, <2>1, <2>2
<1>4. bio = [phase |-> bio.phase, rx |-> bio.rx, cancel |-> bio.cancel]
  BY DEF IInv, Types
<1> QED
  BY <1>1, <1>2, <1>3, <1>4

LEMMA MoreTemplateKeeps ==
    ASSUME IInv, CpMoreTemplate
    PROVE  IInv'
<1>1. /\ bio.phase # "IDLE" /\ piv' = piv
      /\ \/ \E rx : ExchangeDone({}, "OK", [bio EXCEPT !.rx = rx])
         \/ \E fits : ExchangeDone({"BIOREAD"}, Verdict(fits), IdleBio)
  BY DEF CpMoreTemplate
<1>2. ASSUME NEW rx, ExchangeDone({}, "OK", [bio EXCEPT !.rx = rx])
      PROVE  IInv'
  <2>1. PICK b : b = [bio EXCEPT !.rx = rx]
    OBVIOUS
  <2>2. /\ b = [phase |-> b.phase, rx |-> b.rx, cancel |-> b.cancel]
        /\ b.phase = bio.phase /\ ExchangeDone({}, "OK", b)
    BY <1>2, <2>1 DEF IInv, Types
  <2> QED
    BY <1>1, <2>2, TemplateKeeps DEF Settled
<1>3. ASSUME NEW fits, ExchangeDone({"BIOREAD"}, Verdict(fits), IdleBio)
      PROVE  IInv'
  BY <1>1, <1>3, TemplateKeeps DEF Settled, Verdict, IdleBio
<1> QED
  BY <1>1, <1>2, <1>3

\* A refusal settles the card operation that was asked for and the command in
\* flight.
LEMMA NakKeeps ==
    ASSUME IInv, CpNak
    PROVE  IInv'
<1> DEFINE refused == IF OwnCommand THEN {wire.cmd} ELSE {}
           ended == Settles(refused)
<1>1. "FAILED" \in Settled /\ "FAILED" \in Where
  BY DEF Settled, Where
<1>2. CASE GoOffline("FAILED")
  BY <1>1, <1>2, OfflineKeeps
<1>3. CASE ~GoOffline("FAILED")
  <2>1. /\ piv' = IF OwnCommand THEN IdlePiv ELSE piv
        /\ slot' = IF ended = NoOp THEN slot ELSE NoOp
        /\ status' = Complete(Complete(status, ended, "FAILED"), active, "FAILED")
        /\ active' = NoOp
        /\ UNCHANGED <<queue, file, bio>>
    BY <1>3 DEF CpNak
  <2>2. /\ OwnCommand => ended = slot /\ slot = piv.op /\ slot \in Ops
        /\ ~OwnCommand => ended = NoOp
        /\ ended \in Ops \cup {NoOp} /\ active \in Ops \cup {NoOp}
        /\ NoOp \notin Ops /\ status \in [Ops -> Where]
    <3>1. OwnCommand => piv.op \in Ops /\ slot = piv.op /\ wire.cmd = Kind[slot]
      BY DEF OwnCommand, IInv, OfItsKind, SlotIsLive
    <3>2. OwnCommand => ended = slot /\ slot \in Ops
      BY <3>1, EnginesAssumption DEF Settles
    <3>3. ~OwnCommand => ended = NoOp
      BY DEF Settles
    <3>4. ended \in Ops \cup {NoOp}
      BY <3>2, <3>3
    <3> QED
      BY <3>1, <3>2, <3>3, <3>4, EnginesAssumption DEF IInv, Types
  <2> HIDE DEF ended
  <2> DEFINE s1 == Complete(status, ended, "FAILED")
  <2>3. /\ s1 \in [Ops -> Where]
        /\ \A o \in Ops : s1[o] = IF o = ended THEN "FAILED" ELSE status[o]
    BY <1>1, <2>2 DEF Complete
  <2>4. status' = Complete(s1, active, "FAILED")
    BY <2>1
  <2> HIDE DEF s1
  <2>5. /\ status' \in [Ops -> Where]
        /\ \A o \in Ops : status'[o] = IF o = active THEN "FAILED" ELSE s1[o]
    BY <1>1, <2>2, <2>3, <2>4 DEF Complete
  <2>6. \A o \in Ops : status'[o] = IF o \in {active, ended} THEN "FAILED"
                                   ELSE status[o]
    BY <2>3, <2>5
  <2>7. Types' /\ OfItsKind'
    BY <2>1, <2>2, <2>5 DEF IInv, Types, OfItsKind, IdlePiv
  <2>8. Elsewhere'
    <3>1. \A o \in Ops : status[o] = "queued" => o \notin {active, ended}
      BY <2>2, Apart
    <3>2. \A o \in Ops : status[o] = "queued" => status'[o] = "queued"
      BY <2>6, <3>1
    <3> QED
      BY <2>1, <3>2, QueueKept DEF IInv, Elsewhere
  <2>9. SlotIsLive'
    <3>1. active # NoOp => active \in Ops /\ active # slot
      BY <2>2, Apart
    <3>2. CASE OwnCommand
      <4>1. slot' = NoOp /\ piv'.phase = "IDLE" /\ file' = file /\ file = NoOp
        <5>1. Kind[slot] \in PivKinds /\ Kind[slot] # "FILE"
          BY <2>2, <3>2 DEF OwnCommand, IInv, OfItsKind, PivKinds
        <5> QED
          BY <2>1, <2>2, <3>2, <5>1 DEF IInv, OfItsKind, SlotIsLive, IdlePiv
      <4>2. \A o \in Ops : status'[o] # "slot"
        BY <2>2, <2>6, <3>2 DEF IInv, SlotIsLive
      <4> QED
        BY <2>2, <4>1, <4>2 DEF SlotIsLive
    <3>3. CASE ~OwnCommand
      <4>1. slot' = slot /\ piv' = piv
        BY <2>1, <2>2, <3>3
      <4>2. \A o \in Ops : status'[o] = "slot" <=> slot' = o
        BY <2>2, <2>6, <3>1, <3>3, <4>1 DEF IInv, SlotIsLive
      <4> QED
        BY <2>1, <4>1, <4>2 DEF IInv, SlotIsLive
    <3> QED
      BY <3>2, <3>3
  <2> QED
    BY <2>7, <2>8, <2>9 DEF IInv
<1> QED
  BY <1>2, <1>3

-----------------------------------------------------------------------------
(* The slot *)

LEMMA Initially == Init => IInv
<1> SUFFICES ASSUME Init PROVE IInv
  OBVIOUS
<1>1. Types /\ OfItsKind
  BY DEF Init, Types, OfItsKind, Where, IdlePiv, IdleBio
<1>2. Elsewhere
  BY EmptyLemma DEF Init, Elsewhere
<1>3. SlotIsLive
  BY EnginesAssumption DEF Init, SlotIsLive, IdlePiv
<1> QED
  BY <1>1, <1>2, <1>3 DEF IInv

LEMMA EveryStepKeeps == IInv /\ [Next]_vars => IInv'
<1> SUFFICES ASSUME IInv, [Next]_vars PROVE IInv'
  OBVIOUS
<1>1. CASE \E o \in Ops : osdp_cp_submit_command(o)
  BY <1>1, SubmitKeeps
<1>2. CASE \E o \in Ops : osdp_pd_submit_event(o)
  BY <1>2, CpUntouched DEF osdp_pd_submit_event, cpVars
<1>3. CASE \E k \in PivKinds \cup {"BIOREAD"} : osdp_cp_cancel(k)
  BY <1>3, CancelKeeps
<1>4. CASE CpSends
  BY <1>4, SendReadKeeps, CpUntouched DEF CpSends, CpSendCardOp, CpPoll, cpVars
<1>5. CASE PdActs
  BY <1>5, CpUntouched DEF PdActs, PdCardCommand, PdReadCommand, PdContinueCardReply,
     PdContinueTemplate, PdPolled, PdAborts, cpVars
<1>6. CASE CpReceives
  <2>1. CASE CpStrayCardFragment
    BY <2>1, OfflineKeeps DEF CpStrayCardFragment, Settled
  <2> QED
    BY <1>6, <2>1, AckKeeps, CardFragmentKeeps, FirstTemplateKeeps,
       MoreTemplateKeeps, NakKeeps DEF CpReceives
<1>7. CASE CpEndCardOp \/ CpEndRead \/ CpEndFile
  BY <1>7, EndCardOpKeeps, EndReadKeeps, EndFileKeeps
<1>8. CASE CpReconnects \/ PdGivesCpUp
  BY <1>8, CpUntouched DEF CpReconnects, PdGivesCpUp, cpVars
<1>9. CASE Lose \/ PdRestarts
  BY <1>9, OfflineKeeps DEF Lose, PdRestarts, Settled
<1>10. CASE UNCHANGED vars
  BY <1>10, CpUntouched DEF vars, cpVars
<1> QED
  BY <1>1, <1>2, <1>3, <1>4, <1>5, <1>6, <1>7, <1>8, <1>9, <1>10 DEF Next

\* Whatever operations are submitted, cancelled, refused, cut off or time out,
\* and in whatever order: the completion slot holds the command of an operation
\* that runs, and an operation of the PIV engine or a transfer that runs finds
\* its own command there when it ends.
THEOREM SlotNeverStolen == Spec => []SlotIsLive
<1>1. IInv => SlotIsLive
  BY DEF IInv
<1> QED
  BY Initially, EveryStepKeeps, <1>1, PTL DEF Spec
-----------------------------------------------------------------------------
(* Types.  Beyond what the slot needs: the PD's engines, what its application
   has queued and works on, and the exchange.                                *)

Phases == {"IDLE", "CMD", "REPLY"}

PdPivShape(p) ==
    /\ p = [phase |-> p.phase, op |-> p.op, got |-> p.got, of |-> p.of, sent |-> p.sent]
    /\ p.phase \in Phases

PdBioShape(b) ==
    /\ b = [phase |-> b.phase, of |-> b.of, sent |-> b.sent]
    /\ b.phase \in {"IDLE", "REPLY"}

\* A command that has an operation names it.
WireShape(w) ==
    /\ w = [at |-> w.at, cmd |-> w.cmd, op |-> w.op, i |-> w.i,
            reply |-> w.reply, frag |-> w.frag]
    /\ w.at \in {"idle", "pd", "cp"}
    /\ w.cmd \in PivKinds \cup {"BIOREAD"} => w.op \in Ops

PdTypes ==
    /\ PdPivShape(ppiv) /\ PdBioShape(pbio)
    /\ events \in Seq(Ops) /\ working \subseteq Ops

CpTypes ==
    /\ online \in BOOLEAN
    /\ piv.phase \in Phases /\ bio.phase \in {"IDLE", "REPLY"}

OtherTypes == CpTypes /\ PdTypes /\ WireShape(wire) /\ trouble \in 0..MaxTrouble

LEMMA IdleShapes == /\ PdPivShape(IdlePdPiv) /\ PdBioShape(IdlePdBio) /\ WireShape(Quiet)
                    /\ IdlePiv.phase = "IDLE" /\ IdleBio.phase = "IDLE"
BY DEF PdPivShape, PdBioShape, WireShape, IdlePdPiv, IdlePdBio, Quiet, Phases,
       IdlePiv, IdleBio, PivKinds

LEMMA KeepTypes ==
    ASSUME PdTypes, NEW aborted \in BOOLEAN
    PROVE  EventsAfter(aborted) \in Seq(Ops) /\ WorkAfter(aborted) \subseteq Ops
BY DEF PdTypes, EventsAfter, WorkAfter

LEMMA SendTypes ==
    ASSUME NEW c, NEW o, NEW n, Send(c, o, n),
           c \in PivKinds \cup {"BIOREAD"} => o \in Ops
    PROVE  WireShape(wire')
BY DEF Send, Quiet, WireShape

LEMMA ReplyTypes ==
    ASSUME WireShape(wire), NEW id, NEW f, Answer(id, f)
    PROVE  WireShape(wire')
BY DEF WireShape, Answer

LEMMA AnswerWithTypes ==
    ASSUME WireShape(wire), PdBioShape(pbio), NEW a \in Ops, NEW p, PdPivShape(p),
           AnswerWith(a, p)
    PROVE  WireShape(wire') /\ PdPivShape(ppiv') /\ PdBioShape(pbio')
<1>1. WireShape(wire')
  BY ReplyTypes DEF AnswerWith
<1>2. PdPivShape(ppiv')
  BY IdleShapes DEF AnswerWith, PdPivShape, Phases
<1>3. PdBioShape(pbio')
  BY DEF AnswerWith, PdBioShape, Phases
<1> QED BY <1>1, <1>2, <1>3

LEMMA AppTakesTypes ==
    ASSUME WireShape(wire), PdBioShape(pbio), NEW o \in Ops, NEW p, PdPivShape(p),
           NEW evs \in Seq(Ops), NEW work \in SUBSET Ops, AppTakes(o, p, evs, work)
    PROVE  WireShape(wire') /\ PdTypes'
<1>1. PICK now \in BOOLEAN :
        LET queued == IF now THEN Append(evs, o) ELSE evs
        IN  /\ working' = IF now THEN work ELSE work \cup {o}
            /\ IF queued # <<>> /\ Kind[queued[1]] = Kind[o]
               THEN events' = Tail(queued) /\ AnswerWith(queued[1], p)
               ELSE /\ events' = queued
                    /\ ppiv' = p
                    /\ Answer("ACK", NoFrag)
                    /\ UNCHANGED pbio
  BY DEF AppTakes
<1> DEFINE queued == IF now THEN Append(evs, o) ELSE evs
<1>2. queued \in Seq(Ops)
  OBVIOUS
<1>3. working' \subseteq Ops
  BY <1>1
<1> HIDE DEF queued
<1>4. CASE queued # <<>> /\ events' = Tail(queued) /\ AnswerWith(queued[1], p)
  <2>1. queued[1] \in Ops /\ Tail(queued) \in Seq(Ops)
    BY <1>2, <1>4
  <2> QED BY <1>3, <1>4, <2>1, AnswerWithTypes DEF PdTypes
<1>5. CASE events' = queued /\ ppiv' = p /\ Answer("ACK", NoFrag) /\ UNCHANGED pbio
  BY <1>2, <1>3, <1>5, ReplyTypes DEF PdTypes
<1> QED BY <1>1, <1>4, <1>5 DEF queued

LEMMA PdCardCommandTypes ==
    ASSUME OtherTypes, PdCardCommand
    PROVE  WireShape(wire') /\ PdTypes' /\ trouble' \in 0..MaxTrouble
<1> USE DEF OtherTypes
<1>1. wire.op \in Ops /\ WireShape(wire)
  BY DEF PdCardCommand, WireShape
<1>2. PdPivShape(Fed)
  BY IdleShapes DEF Fed, PdTypes, PdPivShape, Phases
<1>3. /\ EventsAfter(Supersedes) \in Seq(Ops) /\ WorkAfter(Supersedes) \subseteq Ops
      /\ PdBioShape(pbio)
  BY KeepTypes DEF Supersedes, PdTypes
<1>4. CASE /\ ppiv' = Fed
           /\ events' = EventsAfter(Supersedes)
           /\ working' = WorkAfter(Supersedes)
           /\ Answer("ACK", NoFrag)
           /\ UNCHANGED <<pbio, trouble>>
  BY <1>1, <1>2, <1>3, <1>4, ReplyTypes DEF PdTypes
<1>5. CASE /\ AppTakes(wire.op, Fed, EventsAfter(Supersedes), WorkAfter(Supersedes))
           /\ UNCHANGED trouble
  BY <1>1, <1>2, <1>3, <1>5, AppTakesTypes
<1>6. CASE AppRefuses(wire.op, Fed, Supersedes)
  <2> DEFINE ends == Kind[wire.op] # "PIVDATA"
  <2>1. /\ trouble < MaxTrouble /\ trouble' = trouble + 1
        /\ ppiv' = IF ends THEN IdlePdPiv ELSE Fed
        /\ events' = EventsAfter(Supersedes \/ ends)
        /\ working' = WorkAfter(Supersedes \/ ends)
        /\ Answer("NAK", NoFrag) /\ UNCHANGED pbio
    BY <1>6 DEF AppRefuses
  <2>2. /\ EventsAfter(Supersedes \/ ends) \in Seq(Ops)
        /\ WorkAfter(Supersedes \/ ends) \subseteq Ops
    BY KeepTypes
  <2>3. trouble' \in 0..MaxTrouble
    BY <2>1, EnginesAssumption
  <2> QED
    BY <1>1, <1>2, <1>3, <2>1, <2>2, <2>3, IdleShapes, ReplyTypes DEF PdTypes
<1> QED BY <1>4, <1>5, <1>6 DEF PdCardCommand

LEMMA PdActsTypes ==
    ASSUME OtherTypes, PdActs
    PROVE  WireShape(wire') /\ PdTypes' /\ trouble' \in 0..MaxTrouble
<1> USE DEF OtherTypes
<1>1. CASE PdCardCommand
  BY <1>1, PdCardCommandTypes
<1>2. CASE PdReadCommand
  <2>1. wire.op \in Ops
    BY <1>2 DEF PdReadCommand, WireShape
  <2>2. CASE AppTakes(wire.op, ppiv, events, working) /\ UNCHANGED trouble
    BY <2>1, <2>2, AppTakesTypes DEF PdTypes
  <2>3. CASE /\ trouble < MaxTrouble /\ trouble' = trouble + 1
             /\ Answer("NAK", NoFrag) /\ UNCHANGED pdVars
    <3>1. trouble' \in 0..MaxTrouble
      BY <2>3, EnginesAssumption
    <3> QED BY <2>3, <3>1, ReplyTypes DEF pdVars, PdTypes
  <2> QED BY <1>2, <2>2, <2>3 DEF PdReadCommand
<1>3. CASE PdContinueCardReply
  <2>1. /\ ppiv' \in {IdlePdPiv, [ppiv EXCEPT !.sent = ppiv.sent + 1]}
        /\ UNCHANGED <<pbio, events, working, trouble>>
    BY <1>3 DEF PdContinueCardReply
  <2>2. PdPivShape(ppiv')
    BY <2>1, IdleShapes DEF PdTypes, PdPivShape
  <2>3. WireShape(wire')
    BY <1>3, ReplyTypes DEF PdContinueCardReply
  <2> QED BY <2>1, <2>2, <2>3 DEF PdTypes
<1>4. CASE PdContinueTemplate
  <2>1. /\ pbio' \in {IdlePdBio, [pbio EXCEPT !.sent = pbio.sent + 1]}
        /\ UNCHANGED <<ppiv, events, working, trouble>>
    BY <1>4 DEF PdContinueTemplate
  <2>2. PdBioShape(pbio')
    BY <2>1, IdleShapes DEF PdTypes, PdBioShape
  <2>3. WireShape(wire')
    BY <1>4, ReplyTypes DEF PdContinueTemplate
  <2> QED BY <2>1, <2>2, <2>3 DEF PdTypes
<1>5. CASE PdPolled
  <2>1. CASE Answer("ACK", NoFrag) /\ UNCHANGED <<ppiv, pbio, events>>
    BY <1>5, <2>1, ReplyTypes DEF PdPolled, PdTypes
  <2>2. CASE events # <<>> /\ events' = Tail(events) /\ AnswerWith(events[1], ppiv)
    <3>1. events[1] \in Ops /\ Tail(events) \in Seq(Ops)
      BY <2>2 DEF PdTypes
    <3> QED BY <1>5, <2>2, <3>1, AnswerWithTypes DEF PdPolled, PdTypes
  <2> QED BY <1>5, <2>1, <2>2 DEF PdPolled
<1>6. CASE PdAborts
  BY <1>6, IdleShapes, KeepTypes, ReplyTypes DEF PdAborts, PdEnginesAbort, PdTypes
<1> QED BY <1>1, <1>2, <1>3, <1>4, <1>5, <1>6 DEF PdActs

\* An exchange that ends leaves the line quiet, and an engine idle or at work.
LEMMA CpReceivesTypes ==
    ASSUME IInv, OtherTypes, CpReceives
    PROVE  /\ CpTypes' /\ wire' = Quiet
           /\ UNCHANGED <<pdVars, trouble>>
<1> USE DEF OtherTypes
<1>1. UNCHANGED <<pdVars, trouble>>
  BY DEF CpReceives, CpAck, CpCardFragment, CpStrayCardFragment, CpFirstTemplate,
         CpMoreTemplate, CpNak
<1>2. wire' = Quiet /\ online' \in BOOLEAN
  BY DEF CpReceives, CpAck, CpCardFragment, CpStrayCardFragment, CpFirstTemplate,
         CpMoreTemplate, CpNak, ExchangeDone, GoOffline, CpTypes
<1>3. piv'.phase \in Phases
  <2>1. piv = [phase |-> piv.phase, op |-> piv.op, sent |-> piv.sent,
               rx |-> piv.rx, cancel |-> piv.cancel]
    BY DEF IInv, Types
  <2>2. CASE CpAck
    BY <2>1, <2>2 DEF CpAck, CpTypes, Phases
  <2>3. CASE CpCardFragment
    BY <2>1, <2>3, IdleShapes DEF CpCardFragment, Phases
  <2>4. CASE CpStrayCardFragment
    BY <2>4, IdleShapes DEF CpStrayCardFragment, GoOffline, Phases
  <2>5. CASE CpFirstTemplate \/ CpMoreTemplate
    BY <2>5 DEF CpFirstTemplate, CpMoreTemplate, CpTypes
  <2>6. CASE CpNak
    BY <2>6, IdleShapes DEF CpNak, GoOffline, CpTypes, Phases
  <2> QED BY <2>2, <2>3, <2>4, <2>5, <2>6 DEF CpReceives
<1>4. bio'.phase \in {"IDLE", "REPLY"}
  <2>1. bio = [phase |-> bio.phase, rx |-> bio.rx, cancel |-> bio.cancel]
    BY DEF IInv, Types
  <2>2. CASE CpAck \/ CpCardFragment
    BY <2>2 DEF CpAck, CpCardFragment, ExchangeDone, CpTypes
  <2>3. CASE CpStrayCardFragment \/ CpNak
    BY <2>3, IdleShapes DEF CpStrayCardFragment, CpNak, GoOffline, CpTypes
  <2>4. CASE CpFirstTemplate
    BY <2>4 DEF CpFirstTemplate, ExchangeDone, IdleBio, CpTypes
  <2>5. CASE CpMoreTemplate
    BY <2>1, <2>5, IdleShapes DEF CpMoreTemplate, ExchangeDone, CpTypes
  <2> QED BY <2>2, <2>3, <2>4, <2>5 DEF CpReceives
<1> QED BY <1>1, <1>2, <1>3, <1>4 DEF CpTypes

LEMMA StepOtherTypes == IInv /\ OtherTypes /\ [Next]_vars => OtherTypes'
<1> SUFFICES ASSUME IInv, OtherTypes, [Next]_vars PROVE OtherTypes'
  OBVIOUS
<1> USE DEF OtherTypes
<1>1. /\ piv = [phase |-> piv.phase, op |-> piv.op, sent |-> piv.sent,
                rx |-> piv.rx, cancel |-> piv.cancel]
      /\ bio = [phase |-> bio.phase, rx |-> bio.rx, cancel |-> bio.cancel]
  BY DEF IInv, Types
<1>2. ASSUME NEW o \in Ops, osdp_cp_submit_command(o) PROVE OtherTypes'
  <2>1. UNCHANGED <<online, bio, wire, pdVars, trouble>>
    BY <1>2 DEF osdp_cp_submit_command
  <2>2. piv'.phase \in Phases
    BY <1>2 DEF osdp_cp_submit_command, SubmitCardOp, SubmitFile, SubmitRead,
                IdlePiv, CpTypes, Phases
  <2> QED BY <2>1, <2>2 DEF pdVars, CpTypes, PdTypes
<1>3. ASSUME NEW o \in Ops, osdp_pd_submit_event(o) PROVE OtherTypes'
  BY <1>3 DEF osdp_pd_submit_event, cpVars, CpTypes, PdTypes
<1>4. ASSUME NEW k, osdp_cp_cancel(k) PROVE OtherTypes'
  <2>1. UNCHANGED <<online, wire, pdVars, trouble>>
    BY <1>4 DEF osdp_cp_cancel
  <2>2. piv'.phase = piv.phase /\ bio'.phase = bio.phase
    BY <1>1, <1>4 DEF osdp_cp_cancel
  <2> QED BY <2>1, <2>2 DEF pdVars, CpTypes, PdTypes
<1>5. CASE CpSends
  <2>1. UNCHANGED <<online, piv, bio, pdVars, trouble>>
    BY <1>5 DEF CpSends, CpSendRead, CpSendCardOp, CpPoll, cpVars
  <2>2. CASE CpSendRead
    <3>1. Head(queue) \in Ops /\ Send("BIOREAD", Head(queue), 1)
      BY <2>2 DEF CpSendRead, IInv, Elsewhere
    <3>2. WireShape(wire')
      BY <3>1, SendTypes
    <3> QED BY <2>1, <3>2 DEF pdVars, CpTypes, PdTypes
  <2>3. CASE CpSendCardOp
    <3>1. piv.op \in Ops /\ Send(Kind[piv.op], piv.op, piv.sent + 1)
      BY <2>3 DEF CpSendCardOp, IInv, OfItsKind
    <3>2. WireShape(wire')
      BY <3>1, SendTypes
    <3> QED BY <2>1, <3>2 DEF pdVars, CpTypes, PdTypes
  <2>4. CASE CpPoll
    <3>1. WireShape(wire')
      BY <2>4, SendTypes DEF CpPoll, PivKinds
    <3> QED BY <2>1, <3>1 DEF pdVars, CpTypes, PdTypes
  <2> QED BY <1>5, <2>2, <2>3, <2>4 DEF CpSends
<1>6. CASE PdActs
  <2>1. UNCHANGED cpVars
    BY <1>6 DEF PdActs, PdCardCommand, PdReadCommand, PdContinueCardReply,
                PdContinueTemplate, PdPolled, PdAborts
  <2> QED BY <1>6, <2>1, PdActsTypes DEF cpVars, CpTypes
<1>7. CASE CpReceives
  BY <1>7, CpReceivesTypes, IdleShapes DEF pdVars, PdTypes
<1>8. CASE CpEndCardOp \/ CpEndRead \/ CpEndFile
  <2>1. UNCHANGED <<online, pdVars, trouble>> /\ piv' \in {piv, IdlePiv}
        /\ bio' \in {bio, IdleBio}
    BY <1>8 DEF CpEndCardOp, CpEndRead, CpEndFile
  <2>2. wire' = wire \/ Send("ABORT", NoOp, 0)
    BY <1>8 DEF CpEndCardOp, CpEndRead, CpEndFile
  <2>3. WireShape(wire')
    BY <2>2, SendTypes DEF PivKinds
  <2> QED BY <2>1, <2>3, IdleShapes DEF pdVars, CpTypes, PdTypes, Phases
<1>9. CASE CpReconnects
  BY <1>9 DEF CpReconnects, pdVars, CpTypes, PdTypes
<1>10. CASE PdGivesCpUp
  <2>1. PdTypes'
    BY <1>10, IdleShapes, KeepTypes DEF PdGivesCpUp, PdEnginesAbort, PdTypes
  <2> QED BY <1>10, <2>1 DEF PdGivesCpUp, cpVars, CpTypes
<1>11. CASE Lose \/ PdRestarts
  <2>1. /\ online' = FALSE /\ piv' = IdlePiv /\ bio' = IdleBio /\ wire' = Quiet
        /\ trouble < MaxTrouble /\ trouble' = trouble + 1
    BY <1>11 DEF Lose, PdRestarts, GoOffline, Strike
  <2>2. trouble' \in 0..MaxTrouble
    BY <2>1, EnginesAssumption
  <2>3. PdTypes'
    <3>1. CASE Lose
      BY <3>1 DEF Lose, pdVars, PdTypes
    <3>2. CASE PdRestarts
      <4>1. /\ ppiv' = IdlePdPiv /\ pbio' = IdlePdBio
            /\ events' = <<>> /\ working' = {}
        BY <3>2 DEF PdRestarts
      <4>2. <<>> \in Seq(Ops)
        OBVIOUS
      <4> QED BY <4>1, <4>2, IdleShapes DEF PdTypes
    <3> QED BY <1>11, <3>1, <3>2
  <2> QED BY <2>1, <2>2, <2>3, IdleShapes DEF CpTypes, Phases
<1>12. CASE UNCHANGED vars
  BY <1>12 DEF vars, cpVars, pdVars, CpTypes, PdTypes
<1> QED
  BY <1>2, <1>3, <1>4, <1>5, <1>6, <1>7, <1>8, <1>9, <1>10, <1>11, <1>12 DEF Next

\* The engines of both ends, the slot, the queues and the exchange keep their
\* types whatever the applications and the line do.
THEOREM TypeCorrect == Spec => []TypeOK
<1>1. Init => OtherTypes
  BY IdleShapes, EnginesAssumption DEF Init, OtherTypes, CpTypes, PdTypes, Phases
<1>2. IInv /\ OtherTypes => TypeOK
  <2> SUFFICES ASSUME IInv, OtherTypes PROVE TypeOK
    OBVIOUS
  <2>1. /\ status \in [Ops -> {"app", "queued", "active", "slot"} \cup Settled]
        /\ queue \in Seq(Ops) /\ {active, slot, file} \subseteq Ops \cup {NoOp}
    BY DEF IInv, Types, Where, Elsewhere
  <2>2. /\ online \in BOOLEAN
        /\ piv.phase \in {"IDLE", "CMD", "REPLY"} /\ bio.phase \in {"IDLE", "REPLY"}
        /\ trouble \in 0..MaxTrouble
    BY DEF OtherTypes, CpTypes, Phases
  <2>3. /\ ppiv.phase \in {"IDLE", "CMD", "REPLY"}
        /\ pbio.phase \in {"IDLE", "REPLY"}
        /\ wire.at \in {"idle", "pd", "cp"}
        /\ events \in Seq(Ops) /\ working \subseteq Ops
    BY DEF OtherTypes, PdTypes, PdPivShape, PdBioShape, WireShape, Phases
  <2> QED BY <2>1, <2>2, <2>3 DEF TypeOK
<1> QED
  BY <1>1, <1>2, Initially, EveryStepKeeps, StepOtherTypes, PTL DEF Spec

-----------------------------------------------------------------------------
(* Answers.  With an application that withdraws what it is told was aborted,
   what is queued at the PD answers the operation that is open there, and the
   operation that runs at the CP is that one as soon as its first fragment was
   acknowledged.                                                             *)

IsCard(o) == Kind[o] \in PivKinds
NoCard(evs, work) ==
    /\ \A n \in 1..Len(evs) : ~IsCard(evs[n])
    /\ \A o \in work : ~IsCard(o)

\* The first k fragments of the answer to o.
Part(o, k) == [n \in 1..k |-> Frag(o, n)]

Shapes ==
    /\ events \in Seq(Ops) /\ working \subseteq Ops
    /\ ppiv = [phase |-> ppiv.phase, op |-> ppiv.op, got |-> ppiv.got,
               of |-> ppiv.of, sent |-> ppiv.sent]
    /\ wire = [at |-> wire.at, cmd |-> wire.cmd, op |-> wire.op, i |-> wire.i,
               reply |-> wire.reply, frag |-> wire.frag]
    /\ answer = [o \in Ops |-> answer[o]]

\* The PD has one answer to a card command, and only while it awaits it.
PdOwn ==
    /\ \A n \in 1..Len(events) : IsCard(events[n]) =>
          ppiv.phase = "CMD" /\ events[n] = ppiv.op
    /\ \A m, n \in 1..Len(events) : IsCard(events[m]) /\ IsCard(events[n]) => m = n
    /\ \A o \in working : IsCard(o) =>
          /\ ppiv.phase = "CMD" /\ o = ppiv.op
          /\ \A n \in 1..Len(events) : events[n] # o
    /\ ppiv.phase = "CMD" /\ ppiv.got # CmdFrags[ppiv.op] =>
          /\ ppiv.op \notin working
          /\ \A n \in 1..Len(events) : events[n] # ppiv.op
    /\ ppiv.phase \in {"IDLE", "CMD", "REPLY"}
    /\ ppiv.phase # "IDLE" => ppiv.op \in Ops /\ IsCard(ppiv.op)
    /\ ppiv.phase = "REPLY" => ppiv.of = ppiv.op

\* A card command on the wire is the next fragment of the operation that runs,
\* and no ABORT overtakes one.
WireInv ==
    /\ wire.at \in {"idle", "pd", "cp"} /\ (wire.at = "idle" => wire = Quiet)
    /\ wire.cmd = "BIOREAD" => wire.op \in Ops /\ Kind[wire.op] = "BIOREAD"
    /\ wire.cmd \in PivKinds =>
          /\ piv.phase = "CMD" /\ wire.op = piv.op /\ wire.cmd = Kind[piv.op]
          /\ wire.i = piv.sent + 1
          /\ wire.at = "cp" => wire.reply \in {"ACK", "NAK"} \cup PivKinds
    /\ wire.cmd = "ABORT" => piv.phase # "REPLY" /\ (piv.phase = "CMD" => piv.sent = 0)
    /\ piv.phase \in {"IDLE", "CMD", "REPLY"} /\ (piv.phase # "IDLE" => online)

\* The PD holds n fragments of the command o, or has sent n of its answer.
PdHolds(o, n) == ppiv.phase = "CMD" /\ ppiv.op = o /\ ppiv.got = n
PdSends(o, n) == ppiv.phase = "REPLY" /\ ppiv.op = o /\ ppiv.sent = n
PdAt(o, n) == IF n = 0 THEN PdHolds(o, CmdFrags[o]) ELSE PdSends(o, n)

CardReplied == wire.at = "cp" /\ wire.reply \in PivKinds
CmdReplied == wire.at = "cp" /\ wire.cmd \in PivKinds

\* Where the PD is while the CP sends a card command ...
CmdInv ==
    piv.phase = "CMD" =>
        /\ piv.sent \in Nat /\ piv.sent < CmdFrags[piv.op] /\ piv.rx = <<>>
        /\ ~CmdReplied /\ piv.sent > 0 => PdHolds(piv.op, piv.sent)
        /\ CmdReplied /\ wire.reply = "ACK" => PdHolds(piv.op, piv.sent + 1)
        /\ CmdReplied /\ wire.reply \in PivKinds =>
              /\ wire.reply = Kind[piv.op] /\ wire.frag = Frag(piv.op, 1)
              /\ RepFrags[piv.op] > 1 => PdSends(piv.op, 1)

\* ... and while it polls for the answer.
ReplyInv ==
    piv.phase = "REPLY" =>
        \E k \in Nat :
            /\ k < RepFrags[piv.op] /\ piv.rx = Part(piv.op, k)
            /\ ~CardReplied => PdAt(piv.op, k)
            /\ CardReplied =>
                  /\ wire.reply = Kind[piv.op] /\ wire.frag = Frag(piv.op, k + 1)
                  /\ k + 1 < RepFrags[piv.op] => PdSends(piv.op, k + 1)

EndsInv == WireInv /\ CmdInv /\ ReplyInv
AnswerInv == IInv /\ Shapes /\ PdOwn /\ EndsInv /\ AnswersOwn

-----------------------------------------------------------------------------
(* Fragments *)

\* The receive engine puts the fragments of an answer together in order.
LEMMA PartFacts ==
  ASSUME NEW o \in Ops
  PROVE  /\ Part(o, 0) = <<>>
         /\ Part(o, RepFrags[o]) = WholeAnswer(o) /\ WholeAnswer(o) # <<>>
         /\ \A k \in Nat : /\ Fits(Part(o, k), Frag(o, k + 1))
                           /\ Store(Part(o, k), Frag(o, k + 1)) = Part(o, k + 1)
<1>1. \A k \in Nat : Part(o, k) \in Seq({Frag(o, n) : n \in Nat}) /\ Len(Part(o, k)) = k
  <2> TAKE k \in Nat
  <2>1. Part(o, k) \in [1..k -> {Frag(o, n) : n \in Nat}]
    BY DEF Part
  <2> QED
    BY <2>1, SeqDef, LenProperties
<1>2. Part(o, 0) = <<>>
  BY <1>1, EmptySeq
<1>3. RepFrags[o] \in Nat /\ RepFrags[o] # 0
  BY EnginesAssumption
<1>4. Part(o, RepFrags[o]) = WholeAnswer(o) /\ WholeAnswer(o) # <<>>
  <2>1. Part(o, RepFrags[o]) = WholeAnswer(o)
    BY DEF Part, WholeAnswer
  <2>2. Len(WholeAnswer(o)) # Len(<<>>)
    BY <1>1, <1>3, <2>1
  <2> QED
    BY <2>1, <2>2
<1>5. ASSUME NEW k \in Nat
      PROVE  /\ Fits(Part(o, k), Frag(o, k + 1))
             /\ Store(Part(o, k), Frag(o, k + 1)) = Part(o, k + 1)
  <2>1. Part(o, k) # <<>> => k # 0 /\ Part(o, k)[1] = Frag(o, 1)
    BY <1>2 DEF Part
  <2>0. /\ Len(Part(o, k)) = k /\ k + 1 \in Nat
        /\ Frag(o, k + 1).i = k + 1 /\ Frag(o, k + 1).total = Frag(o, 1).total
    <3>1. Len(Part(o, k)) = k
      BY <1>1, Zenon
    <3>3. k + 1 \in Nat
      OBVIOUS
    <3>2. Frag(o, k + 1).i = k + 1 /\ Frag(o, k + 1).total = Frag(o, 1).total
      BY DEF Frag
    <3> QED
      BY <3>1, <3>2, <3>3
  <2>2. Fits(Part(o, k), Frag(o, k + 1))
    BY <2>0, <2>1 DEF Fits
  <2>3. Store(Part(o, k), Frag(o, k + 1)) = Append(Part(o, k), Frag(o, k + 1))
    BY <2>0 DEF Store
  <2>4. Append(Part(o, k), Frag(o, k + 1)) = Part(o, k + 1)
    <3> DEFINE T == {Frag(o, n) : n \in Nat}
               a == Append(Part(o, k), Frag(o, k + 1))
    <3>1. Frag(o, k + 1) \in T /\ Part(o, k) \in Seq(T) /\ Part(o, k + 1) \in Seq(T)
          /\ Len(Part(o, k)) = k /\ Len(Part(o, k + 1)) = k + 1
      BY <1>1, <2>0
    <3>2. a \in Seq(T) /\ Len(a) = k + 1 /\ a[k + 1] = Frag(o, k + 1)
          /\ \A n \in 1..k : a[n] = Part(o, k)[n]
      BY <3>1, AppendProperties
    <3>3. \A n \in 1..(k + 1) : a[n] = Part(o, k + 1)[n]
      BY <3>2 DEF Part
    <3> QED
      BY <3>1, <3>2, <3>3, SeqEqual
  <2> QED
    BY <2>2, <2>3, <2>4
<1> QED
  BY <1>2, <1>4, <1>5

-----------------------------------------------------------------------------
(* What the CP's steps do to the card operations' completions *)

\* A completion changes the status of its command alone.
LEMMA CompleteFacts ==
  ASSUME NEW s \in [Ops -> Where], NEW o \in Ops \cup {NoOp}, NEW outcome \in Where
  PROVE  /\ Complete(s, o, outcome) \in [Ops -> Where]
         /\ \A x \in Ops : Complete(s, o, outcome)[x] = IF x = o THEN outcome ELSE s[x]
<1>1. CASE o = NoOp
  BY <1>1, EnginesAssumption DEF Complete
<1>2. CASE o # NoOp
  BY <1>2 DEF Complete
<1> QED
  BY <1>1, <1>2

LEMMA TwoCompletions ==
  ASSUME IInv, NEW o \in Ops \cup {NoOp}, NEW first \in Where,
         NEW second \in Where,
         status' = Complete(Complete(status, o, first), active, second)
  PROVE  \A x \in Ops : IsCard(x) => status'[x] = IF x = o THEN first ELSE status[x]
<1> DEFINE s1 == Complete(status, o, first)
<1>1. status \in [Ops -> Where] /\ active \in Ops \cup {NoOp}
  BY DEF IInv, Types
<1>2. /\ s1 \in [Ops -> Where]
      /\ \A x \in Ops : s1[x] = IF x = o THEN first ELSE status[x]
  BY <1>1, CompleteFacts
<1> HIDE DEF s1
<1>3. \A x \in Ops : Complete(s1, active, second)[x] = IF x = active THEN second ELSE s1[x]
  BY <1>1, <1>2, CompleteFacts
<1>4. status' = Complete(s1, active, second)
  BY DEF s1
<1>5. \A x \in Ops : IsCard(x) => x # active
  BY EnginesAssumption DEF IInv, Elsewhere, IsCard, PivKinds
<1> QED
  BY <1>2, <1>3, <1>4, <1>5

\* A card operation that is cut off fails.
LEMMA OfflineStatus ==
  ASSUME IInv, NEW outcome \in Settled, GoOffline(outcome)
  PROVE  \A x \in Ops : IsCard(x) => status'[x] = IF x = slot THEN "FAILED" ELSE status[x]
<1>1. Settles(Running) = slot /\ slot \in Ops \cup {NoOp}
  BY RunningFacts DEF IInv, Types
<1> QED
  BY <1>1, TwoCompletions DEF GoOffline, Settled, Where

\* A valid reply completes the command in flight, which is no card operation,
\* and the operation of `kinds` that ended.
LEMMA ExchangeStatus ==
  ASSUME IInv, NEW kinds, NEW outcome \in Settled, NEW b, ExchangeDone(kinds, outcome, b)
  PROVE  \A x \in Ops : IsCard(x) =>
            status'[x] = IF x = slot /\ Kind[slot] \in kinds THEN outcome ELSE status[x]
<1>1. Settles(kinds) \in Ops \cup {NoOp}
  BY SettlesFacts DEF IInv, Types
<1>2. \A x \in Ops : IsCard(x) =>
         status'[x] = IF x = Settles(kinds) THEN outcome ELSE status[x]
  BY <1>1, TwoCompletions DEF ExchangeDone, Settled, Where
<1> QED
  BY <1>2, SettlesFacts, EnginesAssumption

\* What was not answered stays unanswered when it fails.
LEMMA AnswersKept ==
  ASSUME AnswersOwn, IInv, answer' = answer,
         \A x \in Ops : IsCard(x) =>
            \/ status'[x] = status[x]
            \/ status[x] # "OK" /\ status'[x] # "OK"
  PROVE  AnswersOwn'
  BY DEF AnswersOwn, IsCard, WholeAnswer, Frag

\* The same where only the operation in the slot may have ended.
LEMMA SlotFails ==
  ASSUME AnswersOwn, IInv, answer' = answer,
         \A x \in Ops : IsCard(x) => \/ status'[x] = status[x]
                                     \/ x = slot /\ status'[x] = "FAILED"
  PROVE  AnswersOwn'
<1>1. \A x \in Ops : x = slot => status[x] = "slot"
  BY DEF IInv, SlotIsLive
<1> QED
  BY <1>1, AnswersKept

-----------------------------------------------------------------------------
(* What the PD queues *)

\* An operation that is aborted takes its answers along.
LEMMA Cleared ==
  ASSUME Withdraws, Shapes, PdOwn, NEW aborted \in BOOLEAN,
         aborted \/ ppiv.phase # "CMD"
  PROVE  /\ NoCard(EventsAfter(aborted), WorkAfter(aborted))
         /\ EventsAfter(aborted) \in Seq(Ops) /\ WorkAfter(aborted) \subseteq Ops
<1>1. CASE aborted
  BY <1>1 DEF EventsAfter, WorkAfter, NoCard, IsCard, PivKinds, Shapes
<1>2. CASE ~aborted
  BY <1>2 DEF EventsAfter, WorkAfter, NoCard, PdOwn, Shapes
<1> QED
  BY <1>1, <1>2

\* Without card answers around, the PD owes no more than it holds.
LEMMA NothingOwed ==
  ASSUME NoCard(events', working'), events' \in Seq(Ops),
         ppiv'.phase \in {"IDLE", "CMD", "REPLY"},
         ppiv'.phase # "IDLE" => ppiv'.op \in Ops /\ IsCard(ppiv'.op),
         ppiv'.phase = "REPLY" => ppiv'.of = ppiv'.op
  PROVE  PdOwn'
  BY DEF NoCard, PdOwn, IsCard

\* A queue and its tail.
LEMMA TailIndex ==
  ASSUME NEW s \in Seq(Ops), s # <<>>
  PROVE  /\ Tail(s) \in Seq(Ops) /\ Len(s) \in Nat /\ Len(s) > 0
         /\ s[1] \in Ops /\ 1 \in 1..Len(s)
         /\ \A n \in 1..Len(Tail(s)) : Tail(s)[n] = s[n + 1] /\ n + 1 \in 1..Len(s)
  BY HeadTailProperties

LEMMA AppendIndex ==
  ASSUME NEW s \in Seq(Ops), NEW o \in Ops
  PROVE  /\ Append(s, o) \in Seq(Ops) /\ Append(s, o) # <<>>
         /\ \A n \in 1..Len(Append(s, o)) : \/ Append(s, o)[n] = o /\ n = Len(s) + 1
                                            \/ n \in 1..Len(s) /\ Append(s, o)[n] = s[n]
         /\ \A n \in 1..Len(s) : n \in 1..Len(Append(s, o)) /\ Append(s, o)[n] = s[n]
         /\ Append(s, o)[Len(s) + 1] = o /\ Len(s) + 1 \in 1..Len(Append(s, o))
  BY AppendProperties

\* The application takes a card command that nothing is queued for: the answer
\* goes out at once, is queued, or is still to come.
LEMMA TakesCard ==
  ASSUME NEW o \in Ops, IsCard(o), NEW p, NEW evs \in Seq(Ops), NEW work \in SUBSET Ops,
         NEW of, NEW sent,
         p = [phase |-> "CMD", op |-> o, got |-> CmdFrags[o], of |-> of,
              sent |-> sent],
         NoCard(evs, work), AppTakes(o, p, evs, work)
  PROVE  /\ PdOwn' /\ events' \in Seq(Ops) /\ working' \subseteq Ops
         /\ ppiv' = [phase |-> ppiv'.phase, op |-> ppiv'.op, got |-> ppiv'.got,
                     of |-> ppiv'.of, sent |-> ppiv'.sent]
         /\ \/ Answer("ACK", NoFrag) /\ ppiv' = p
            \/ /\ Answer(Kind[o], Frag(o, 1))
               /\ RepFrags[o] # 1 => PdSends(o, 1)'
<1>1. PICK now \in BOOLEAN :
        LET queued == IF now THEN Append(evs, o) ELSE evs
        IN  /\ working' = IF now THEN work ELSE work \cup {o}
            /\ IF queued # <<>> /\ Kind[queued[1]] = Kind[o]
               THEN events' = Tail(queued) /\ AnswerWith(queued[1], p)
               ELSE /\ events' = queued
                    /\ ppiv' = p
                    /\ Answer("ACK", NoFrag)
                    /\ UNCHANGED pbio
  BY DEF AppTakes
<1> DEFINE queued == IF now THEN Append(evs, o) ELSE evs
<1>2. /\ queued \in Seq(Ops)
      /\ \A n \in 1..Len(queued) : IsCard(queued[n]) =>
            now /\ queued[n] = o /\ n = Len(evs) + 1
  BY AppendIndex DEF NoCard
<1>3. working' \subseteq Ops /\ \A x \in working' : IsCard(x) => ~now /\ x = o
  BY <1>1 DEF NoCard
<1>4. CASE queued # <<>> /\ Kind[queued[1]] = Kind[o]
  <2>1. events' = Tail(queued) /\ AnswerWith(queued[1], p)
    BY <1>1, <1>4
  <2>2. now /\ queued[1] = o /\ 1 = Len(evs) + 1
    <3>1. 1 \in 1..Len(queued)
      BY <1>2, <1>4, TailIndex
    <3> QED
      BY <1>2, <1>4, <3>1 DEF IsCard
  <2>3. NoCard(events', working') /\ events' \in Seq(Ops)
    <3>1. /\ Tail(queued) \in Seq(Ops)
          /\ \A n \in 1..Len(Tail(queued)) :
                Tail(queued)[n] = queued[n + 1] /\ n + 1 \in 1..Len(queued)
      BY <1>2, <1>4, TailIndex
    <3> HIDE DEF queued
    <3>2. \A n \in 1..Len(Tail(queued)) : n + 1 # 1
      OBVIOUS
    <3> QED
      BY <1>2, <1>3, <2>1, <2>2, <3>1, <3>2 DEF NoCard
  <2>4. /\ ppiv' = IF RepFrags[o] = 1 THEN IdlePdPiv
                   ELSE [p EXCEPT !.phase = "REPLY", !.of = o, !.sent = 1]
        /\ Answer(Kind[o], Frag(o, 1))
    <3>1. AnswerWith(o, p)
      BY <2>1, <2>2
    <3>2. p.phase = "CMD" /\ p.op = o /\ Kind[o] \in PivKinds
      BY DEF IsCard
    <3> QED
      BY <3>1, <3>2 DEF AnswerWith
  <2>5. /\ ppiv'.phase \in {"IDLE", "CMD", "REPLY"}
        /\ ppiv'.phase # "IDLE" => ppiv'.op \in Ops /\ IsCard(ppiv'.op)
        /\ ppiv'.phase = "REPLY" => ppiv'.of = ppiv'.op
        /\ ppiv' = [phase |-> ppiv'.phase, op |-> ppiv'.op, got |-> ppiv'.got,
                    of |-> ppiv'.of, sent |-> ppiv'.sent]
        /\ RepFrags[o] # 1 => PdSends(o, 1)'
    <3>1. CASE RepFrags[o] = 1
      BY <2>4, <3>1 DEF IdlePdPiv
    <3>2. CASE RepFrags[o] # 1
      <4>1. ppiv' = [p EXCEPT !.phase = "REPLY", !.of = o, !.sent = 1]
        BY <2>4, <3>2
      <4>2. /\ ppiv' = [phase |-> ppiv'.phase, op |-> ppiv'.op, got |-> ppiv'.got,
                        of |-> ppiv'.of, sent |-> ppiv'.sent]
            /\ ppiv'.phase = "REPLY" /\ ppiv'.op = o /\ ppiv'.of = o
            /\ ppiv'.sent = 1
        BY <4>1
      <4> QED
        BY <4>2 DEF PdSends
    <3> QED
      BY <3>1, <3>2
  <2>6. PdOwn'
    BY <2>3, <2>5, NothingOwed
  <2> QED
    BY <1>3, <2>3, <2>4, <2>5, <2>6
<1>5. CASE ~(queued # <<>> /\ Kind[queued[1]] = Kind[o])
  <2>1. events' = queued /\ ppiv' = p /\ Answer("ACK", NoFrag)
    BY <1>1, <1>5
  <2>2. /\ ppiv'.phase = "CMD" /\ ppiv'.op = o /\ ppiv'.got = CmdFrags[o]
        /\ ppiv' = [phase |-> ppiv'.phase, op |-> ppiv'.op, got |-> ppiv'.got,
                    of |-> ppiv'.of, sent |-> ppiv'.sent]
    BY <2>1
  <2>3. \A x \in working' : IsCard(x) => \A n \in 1..Len(events') : events'[n] # x
    BY <1>2, <1>3, <2>1
  <2>4. PdOwn'
    BY <1>2, <1>3, <2>1, <2>2, <2>3 DEF PdOwn, IsCard
  <2> QED
    BY <1>2, <1>3, <2>1, <2>2, <2>4
<1> QED
  BY <1>4, <1>5

\* What happens to a template's answers leaves the card operations' alone.
LEMMA PdOwnKept ==
  ASSUME PdOwn, Shapes, ppiv' = ppiv, events' \in Seq(Ops),
         NEW d \in {0, 1},
         \A n \in 1..Len(events') : IsCard(events'[n]) =>
            n + d \in 1..Len(events) /\ events[n + d] = events'[n],
         \A o \in working' : IsCard(o) => o \in working
  PROVE  PdOwn'
  BY DEF PdOwn, IsCard

-----------------------------------------------------------------------------
(* The PD's steps *)

\* A reply leaves the command on the wire as it was sent.
LEMMA AnswerShape ==
  ASSUME Shapes, NEW id, NEW f, Answer(id, f)
  PROVE  /\ wire' = [at |-> wire'.at, cmd |-> wire'.cmd, op |-> wire'.op,
                     i |-> wire'.i, reply |-> wire'.reply, frag |-> wire'.frag]
         /\ wire'.at = "cp" /\ wire'.reply = id /\ wire'.frag = f
         /\ wire'.cmd = wire.cmd /\ wire'.op = wire.op /\ wire'.i = wire.i
  BY DEF Answer, Shapes

\* A reply that does not concern the card operation.
LEMMA RepliedAside ==
  ASSUME EndsInv, Shapes, wire.at = "pd", wire.cmd \notin PivKinds,
         NEW id, id \notin PivKinds, NEW f, Answer(id, f),
         UNCHANGED <<online, piv>>,
         ppiv' = ppiv \/ wire.cmd = "ABORT"
  PROVE  EndsInv'
<1>1. WireInv'
  BY AnswerShape DEF EndsInv, WireInv
<1>2. CmdInv'
  BY AnswerShape DEF EndsInv, CmdInv, WireInv, PdHolds, PdSends, CmdReplied
<1>3. ReplyInv'
  <2>1. ~CardReplied /\ ~CardReplied'
    BY AnswerShape DEF CardReplied
  <2>2. piv.phase = "REPLY" => ppiv' = ppiv
    BY DEF EndsInv, WireInv
  <2> QED
    BY <2>1, <2>2 DEF EndsInv, ReplyInv, PdAt, PdHolds, PdSends
<1> QED
  BY <1>1, <1>2, <1>3 DEF EndsInv

\* A fragment of the answer the CP polls for.
LEMMA RepliedPoll ==
  ASSUME EndsInv, Shapes, wire.at = "pd", wire.cmd = "POLL", NEW o \in Ops, IsCard(o),
         NEW k \in Nat, PdAt(o, k), Answer(Kind[o], Frag(o, k + 1)),
         UNCHANGED <<online, piv>>,
         k + 1 < RepFrags[o] => PdSends(o, k + 1)',
         piv.phase # "CMD" \/ piv.sent = 0
  PROVE  EndsInv'
<1>1. "POLL" \notin PivKinds /\ "POLL" \notin {"BIOREAD", "ABORT"}
  BY DEF PivKinds
<1>2. WireInv'
  BY <1>1, AnswerShape DEF EndsInv, WireInv
<1>3. CmdInv'
  BY <1>1, AnswerShape DEF EndsInv, CmdInv, CmdReplied
<1>4. ReplyInv'
  <2> SUFFICES ASSUME piv.phase = "REPLY" PROVE ReplyInv'
    BY DEF ReplyInv
  <2>1. PICK n \in Nat : n < RepFrags[piv.op] /\ piv.rx = Part(piv.op, n) /\ PdAt(piv.op, n)
    BY DEF EndsInv, ReplyInv, CardReplied
  <2>2. piv.op = o /\ n = k
    BY <2>1 DEF PdAt, PdHolds, PdSends
  <2>3. CardReplied' /\ wire'.reply = Kind[o] /\ wire'.frag = Frag(o, k + 1)
    BY AnswerShape DEF CardReplied, IsCard
  <2> QED
    BY <2>1, <2>2, <2>3 DEF ReplyInv, Part, Frag
<1> QED
  BY <1>2, <1>3, <1>4 DEF EndsInv

\* The PD after a fragment of the operation's command.
LEMMA FedFacts ==
  ASSUME Withdraws, AnswerInv, PdCardCommand
  PROVE  /\ wire.at = "pd" /\ wire.op = piv.op /\ piv.op \in Ops /\ IsCard(piv.op)
         /\ piv.phase = "CMD" /\ wire.cmd = Kind[piv.op]
         /\ wire.i = piv.sent + 1 /\ piv.sent \in Nat /\ wire.i <= CmdFrags[piv.op]
         /\ \E of, sent : Fed = [phase |-> "CMD", op |-> piv.op, got |-> wire.i,
                                 of |-> of, sent |-> sent]
         /\ NoCard(EventsAfter(Supersedes), WorkAfter(Supersedes))
         /\ EventsAfter(Supersedes) \in Seq(Ops) /\ WorkAfter(Supersedes) \subseteq Ops
<1>1. /\ wire.at = "pd" /\ wire.op = piv.op /\ piv.op \in Ops /\ IsCard(piv.op)
      /\ piv.phase = "CMD" /\ wire.cmd = Kind[piv.op] /\ wire.i = piv.sent + 1
    BY DEF PdCardCommand, AnswerInv, EndsInv, WireInv, IInv, OfItsKind, IsCard
<1>2. /\ piv.sent \in Nat /\ wire.i <= CmdFrags[piv.op]
      /\ wire.i # 1 => PdHolds(piv.op, piv.sent) /\ piv.sent # CmdFrags[piv.op]
  <2>1. CmdFrags[piv.op] \in Nat
    BY <1>1, EnginesAssumption
  <2>2. ~CmdReplied
    BY <1>1 DEF CmdReplied
  <2> QED
    BY <1>1, <2>1, <2>2 DEF AnswerInv, EndsInv, CmdInv
<1>3. CASE wire.i = 1
  <2>1. Fed = [phase |-> "CMD", op |-> piv.op, got |-> wire.i, of |-> NoOp, sent |-> 0]
    BY <1>1, <1>3 DEF Fed, IdlePdPiv
  <2>2. Supersedes \in BOOLEAN /\ (Supersedes \/ ppiv.phase # "CMD")
    BY <1>3 DEF Supersedes
  <2> QED
    BY <1>1, <1>2, <2>1, <2>2, Cleared DEF AnswerInv
<1>4. CASE wire.i # 1
  <2>1. /\ ppiv.phase = "CMD" /\ ppiv.op = piv.op /\ ppiv.got = piv.sent
        /\ ppiv.got # CmdFrags[ppiv.op]
    BY <1>2, <1>4 DEF PdHolds
  <2>2. Fed = [phase |-> "CMD", op |-> piv.op, got |-> wire.i, of |-> ppiv.of,
               sent |-> ppiv.sent]
    <3>1. Fed = [ppiv EXCEPT !.got = wire.i]
      BY <1>4 DEF Fed
    <3>2. ppiv = [phase |-> "CMD", op |-> piv.op, got |-> ppiv.got, of |-> ppiv.of,
                  sent |-> ppiv.sent]
      BY <2>1 DEF AnswerInv, Shapes
    <3> QED
      BY <3>1, <3>2
  <2>3. Supersedes = FALSE
    BY <1>4 DEF Supersedes
  <2>4. EventsAfter(Supersedes) = events /\ WorkAfter(Supersedes) = working
    BY <2>3 DEF EventsAfter, WorkAfter
  <2>5. NoCard(events, working)
    BY <2>1 DEF NoCard, AnswerInv, PdOwn
  <2> QED
    BY <1>1, <1>2, <2>2, <2>4, <2>5 DEF AnswerInv, Shapes
<1> QED
  BY <1>3, <1>4

\* The CP's operation goes on with the reply to its fragment.
LEMMA RepliedCommand ==
  ASSUME AnswerInv, wire.at = "pd", piv.phase = "CMD", wire.cmd = Kind[piv.op],
         IsCard(piv.op), UNCHANGED <<online, piv>>, NEW id, NEW f, Answer(id, f),
         \/ id = "NAK"
         \/ id = "ACK" /\ PdHolds(piv.op, piv.sent + 1)'
         \/ /\ id = Kind[piv.op] /\ f = Frag(piv.op, 1)
            /\ RepFrags[piv.op] # 1 => PdSends(piv.op, 1)'
  PROVE  EndsInv'
<1>1. /\ wire'.cmd \in PivKinds /\ wire'.reply = id /\ wire'.frag = f /\ wire'.at = "cp"
      /\ wire'.cmd = wire.cmd /\ wire'.op = wire.op /\ wire'.i = wire.i
  BY AnswerShape DEF AnswerInv, IsCard
<1>2. WireInv'
  BY <1>1 DEF AnswerInv, EndsInv, WireInv, IsCard, PivKinds
<1>3. CmdInv'
  <2>1. "NAK" \notin PivKinds /\ "ACK" \notin PivKinds
    BY DEF PivKinds
  <2>2. CmdReplied' /\ wire'.reply = id /\ wire'.frag = f
    BY <1>1 DEF CmdReplied
  <2>3. piv.sent \in Nat /\ piv.sent < CmdFrags[piv.op] /\ piv.rx = <<>>
    BY DEF AnswerInv, EndsInv, CmdInv
  <2> QED
    BY <2>1, <2>2, <2>3 DEF CmdInv, IsCard, Frag
<1>4. ReplyInv'
  BY DEF ReplyInv
<1> QED
  BY <1>2, <1>3, <1>4 DEF EndsInv

\* What a step of the PD has to keep; the CP's side is not touched.
PdSide == Shapes /\ PdOwn /\ EndsInv

LEMMA CardCommandKeepsAnswers ==
  ASSUME Withdraws, AnswerInv, PdCardCommand
  PROVE  PdSide'
<1>1. /\ wire.at = "pd" /\ wire.op = piv.op /\ piv.op \in Ops /\ IsCard(piv.op)
      /\ piv.phase = "CMD" /\ wire.cmd = Kind[piv.op]
      /\ wire.i = piv.sent + 1 /\ piv.sent \in Nat /\ wire.i <= CmdFrags[piv.op]
      /\ NoCard(EventsAfter(Supersedes), WorkAfter(Supersedes))
      /\ EventsAfter(Supersedes) \in Seq(Ops) /\ WorkAfter(Supersedes) \subseteq Ops
  BY FedFacts
<1>2. PICK of, sent : Fed = [phase |-> "CMD", op |-> piv.op, got |-> wire.i,
                             of |-> of, sent |-> sent]
  BY FedFacts
<1>3. UNCHANGED <<online, piv, answer>>
  BY DEF PdCardCommand, cpVars
<1>4. CmdFrags[piv.op] \in Nat /\ answer' = [o \in Ops |-> answer'[o]]
  BY <1>1, <1>3, EnginesAssumption DEF AnswerInv, Shapes
<1>5. Shapes
  BY DEF AnswerInv
<1>6. CASE wire.i < CmdFrags[wire.op]
  <2>1. /\ ppiv' = Fed /\ Answer("ACK", NoFrag)
        /\ events' = EventsAfter(Supersedes) /\ working' = WorkAfter(Supersedes)
    BY <1>6 DEF PdCardCommand
  <2>2. /\ ppiv'.phase = "CMD" /\ ppiv'.op = piv.op /\ ppiv'.got = wire.i
        /\ ppiv' = [phase |-> ppiv'.phase, op |-> ppiv'.op, got |-> ppiv'.got,
                    of |-> ppiv'.of, sent |-> ppiv'.sent]
    BY <1>2, <2>1
  <2>3. PdOwn'
    BY <1>1, <2>1, <2>2, NothingOwed
  <2>4. EndsInv'
    BY <1>1, <1>3, <2>1, <2>2, RepliedCommand DEF PdHolds
  <2>5. Shapes'
    BY <1>1, <1>4, <1>5, <2>1, <2>2, AnswerShape DEF Shapes
  <2> QED
    BY <2>3, <2>4, <2>5 DEF PdSide
<1>7. CASE ~(wire.i < CmdFrags[wire.op])
  <2>1. wire.i = CmdFrags[piv.op]
    BY <1>1, <1>4, <1>7
  <2>2. CASE AppTakes(wire.op, Fed, EventsAfter(Supersedes), WorkAfter(Supersedes))
    <3>1. /\ PdOwn' /\ events' \in Seq(Ops) /\ working' \subseteq Ops
          /\ ppiv' = [phase |-> ppiv'.phase, op |-> ppiv'.op, got |-> ppiv'.got,
                      of |-> ppiv'.of, sent |-> ppiv'.sent]
          /\ \/ Answer("ACK", NoFrag) /\ ppiv' = Fed
             \/ /\ Answer(Kind[piv.op], Frag(piv.op, 1))
                /\ RepFrags[piv.op] # 1 => PdSends(piv.op, 1)'
      <4>1. PICK o, p, evs, work :
              /\ o = piv.op /\ p = Fed
              /\ evs = EventsAfter(Supersedes) /\ work = WorkAfter(Supersedes)
        OBVIOUS
      <4>2. AppTakes(o, p, evs, work)
        BY <1>1, <2>2, <4>1
      <4>3. p = [phase |-> "CMD", op |-> o, got |-> CmdFrags[o], of |-> of,
                 sent |-> sent]
        BY <1>2, <2>1, <4>1
      <4>4. /\ o \in Ops /\ IsCard(o) /\ evs \in Seq(Ops) /\ work \in SUBSET Ops
            /\ NoCard(evs, work)
        BY <1>1, <4>1
      <4>5. piv'.op = o
        BY <1>3, <4>1
      <4> QED
        BY <4>1, <4>2, <4>3, <4>4, <4>5, TakesCard
    <3>2. ppiv' = Fed => PdHolds(piv.op, piv.sent + 1)'
      BY <1>1, <1>2, <1>3 DEF PdHolds
    <3>3. EndsInv'
      <4>1. CASE Answer("ACK", NoFrag) /\ ppiv' = Fed
        BY <1>1, <1>3, <3>2, <4>1, RepliedCommand
      <4>2. CASE /\ Answer(Kind[piv.op], Frag(piv.op, 1))
                 /\ RepFrags[piv.op] # 1 => PdSends(piv.op, 1)'
        BY <1>1, <1>3, <4>2, RepliedCommand
      <4> QED
        BY <3>1, <4>1, <4>2
    <3>4. Shapes'
      BY <1>4, <1>5, <3>1, AnswerShape DEF Shapes
    <3> QED
      BY <3>1, <3>3, <3>4 DEF PdSide
  <2>3. CASE AppRefuses(wire.op, Fed, Supersedes)
    <3> DEFINE ends == Kind[wire.op] # "PIVDATA"
    <3>1. /\ ppiv' = IF ends THEN IdlePdPiv ELSE Fed
          /\ events' = EventsAfter(Supersedes \/ ends)
          /\ working' = WorkAfter(Supersedes \/ ends) /\ Answer("NAK", NoFrag)
      BY <2>3 DEF AppRefuses
    <3>2. /\ NoCard(events', working') /\ events' \in Seq(Ops) /\ working' \subseteq Ops
      <4>1. CASE ends
        <5>1. (Supersedes \/ ends) = TRUE
          BY <4>1 DEF Supersedes
        <5> QED
          BY <3>1, <5>1, Cleared DEF AnswerInv
      <4>2. CASE ~ends
        <5>1. (Supersedes \/ ends) = Supersedes
          BY <4>2 DEF Supersedes
        <5> QED
          BY <1>1, <3>1, <5>1
      <4> QED
        BY <4>1, <4>2
    <3>3. /\ ppiv' = [phase |-> ppiv'.phase, op |-> ppiv'.op, got |-> ppiv'.got,
                      of |-> ppiv'.of, sent |-> ppiv'.sent]
          /\ ppiv'.phase \in {"IDLE", "CMD"}
          /\ ppiv'.phase = "CMD" => ppiv'.op = piv.op
      BY <1>2, <3>1 DEF IdlePdPiv
    <3>4. PdOwn'
      BY <1>1, <3>2, <3>3, NothingOwed
    <3>5. EndsInv'
      BY <1>1, <1>3, <3>1, RepliedCommand
    <3>6. Shapes'
      BY <1>4, <1>5, <3>1, <3>2, <3>3, AnswerShape DEF Shapes
    <3> QED
      BY <3>4, <3>5, <3>6 DEF PdSide
  <2> QED
    BY <1>7, <2>2, <2>3 DEF PdCardCommand
<1> QED
  BY <1>6, <1>7

\* A template's events are queued behind and taken without touching a card
\* operation's.
LEMMA ReadCommandKeepsAnswers ==
  ASSUME AnswerInv, PdReadCommand
  PROVE  PdSide'
<1>1. /\ wire.at = "pd" /\ wire.op \in Ops /\ Kind[wire.op] = "BIOREAD"
      /\ wire.cmd \notin PivKinds /\ "BIOREAD" \notin PivKinds
      /\ UNCHANGED <<online, piv, answer>>
      /\ "ACK" \notin PivKinds /\ "NAK" \notin PivKinds
  BY DEF PdReadCommand, cpVars, AnswerInv, EndsInv, WireInv, PivKinds
<1>2. Shapes /\ PdOwn /\ EndsInv
  BY DEF AnswerInv
<1>3. ASSUME NEW id, id \notin PivKinds, NEW f, Answer(id, f), ppiv' = ppiv,
             events' \in Seq(Ops), working' \subseteq Ops, PdOwn'
      PROVE  PdSide'
  <2>1. EndsInv'
    BY <1>1, <1>2, <1>3, RepliedAside
  <2>2. Shapes'
    BY <1>1, <1>2, <1>3, AnswerShape DEF Shapes
  <2> QED
    BY <1>3, <2>1, <2>2 DEF PdSide
<1>4. CASE AppTakes(wire.op, ppiv, events, working)
  <2>1. PICK now \in BOOLEAN :
          LET queued == IF now THEN Append(events, wire.op) ELSE events
          IN  /\ working' = IF now THEN working ELSE working \cup {wire.op}
              /\ IF queued # <<>> /\ Kind[queued[1]] = Kind[wire.op]
                 THEN events' = Tail(queued) /\ AnswerWith(queued[1], ppiv)
                 ELSE /\ events' = queued
                      /\ ppiv' = ppiv
                      /\ Answer("ACK", NoFrag)
                      /\ UNCHANGED pbio
    BY <1>4 DEF AppTakes
  <2> DEFINE queued == IF now THEN Append(events, wire.op) ELSE events
  <2>2. /\ queued \in Seq(Ops)
        /\ \A n \in 1..Len(queued) : IsCard(queued[n]) =>
              n \in 1..Len(events) /\ events[n] = queued[n]
    BY <1>1, <1>2, AppendIndex DEF Shapes, IsCard
  <2>3. working' \subseteq Ops /\ \A o \in working' : IsCard(o) => o \in working
    BY <1>1, <1>2, <2>1 DEF Shapes, IsCard
  <2>4. CASE queued # <<>> /\ Kind[queued[1]] = Kind[wire.op]
    <3>1. /\ events' = Tail(queued) /\ ppiv' = ppiv
          /\ Answer("BIOREAD", Frag(queued[1], 1))
      BY <1>1, <2>1, <2>4 DEF AnswerWith
    <3>2. /\ Tail(queued) \in Seq(Ops)
          /\ \A n \in 1..Len(Tail(queued)) :
                Tail(queued)[n] = queued[n + 1] /\ n + 1 \in 1..Len(queued)
      BY <2>2, <2>4, TailIndex
    <3> HIDE DEF queued
    <3>3. \A n \in 1..Len(events') : IsCard(events'[n]) =>
             n + 1 \in 1..Len(events) /\ events[n + 1] = events'[n]
      BY <2>2, <3>1, <3>2
    <3>4. PdOwn'
      BY <1>2, <2>3, <3>1, <3>2, <3>3, PdOwnKept
    <3> QED
      BY <1>1, <1>3, <2>3, <3>1, <3>2, <3>4
  <2>5. CASE ~(queued # <<>> /\ Kind[queued[1]] = Kind[wire.op])
    <3>1. events' = queued /\ ppiv' = ppiv /\ Answer("ACK", NoFrag)
      BY <2>1, <2>5
    <3> HIDE DEF queued
    <3>2. \A n \in 1..Len(events') : IsCard(events'[n]) =>
             n + 0 \in 1..Len(events) /\ events[n + 0] = events'[n]
      BY <2>2, <3>1
    <3>3. PdOwn'
      BY <1>2, <2>2, <2>3, <3>1, <3>2, PdOwnKept
    <3> QED
      BY <1>1, <1>3, <2>2, <2>3, <3>1, <3>3
  <2> QED
    BY <2>4, <2>5
<1>5. CASE Answer("NAK", NoFrag) /\ UNCHANGED pdVars
  BY <1>1, <1>2, <1>3, <1>5 DEF pdVars, PdOwn, Shapes
<1> QED
  BY <1>4, <1>5 DEF PdReadCommand

\* Polls: the answer goes out fragment by fragment, and what is queued for it.
LEMMA PollKeepsAnswers ==
  ASSUME Withdraws, AnswerInv, PdContinueCardReply \/ PdContinueTemplate \/ PdPolled
  PROVE  PdSide'
<1>1. /\ wire.at = "pd" /\ wire.cmd = "POLL" /\ "POLL" \notin PivKinds
      /\ UNCHANGED <<online, piv, answer, working>>
      /\ "ACK" \notin PivKinds /\ "BIOREAD" \notin PivKinds
  BY DEF PdContinueCardReply, PdContinueTemplate, PdPolled, cpVars, PivKinds
<1>2. Shapes /\ PdOwn /\ EndsInv
  BY DEF AnswerInv
<1>3. ASSUME NEW id, id \notin PivKinds, NEW f, Answer(id, f), ppiv' = ppiv,
             events' \in Seq(Ops), PdOwn'
      PROVE  PdSide'
  <2>1. EndsInv'
    BY <1>1, <1>2, <1>3, RepliedAside
  <2>2. Shapes'
    BY <1>1, <1>2, <1>3, AnswerShape DEF Shapes
  <2> QED
    BY <1>3, <2>1, <2>2 DEF PdSide
<1>4. CASE PdContinueCardReply
  <2> PICK o, n : o = ppiv.op /\ n = ppiv.sent + 1
    OBVIOUS
  <2>1. /\ ppiv.phase = "REPLY" /\ ppiv.of = o /\ o \in Ops
        /\ IsCard(o) /\ Answer(Kind[o], Frag(o, n))
        /\ ppiv' = IF n = RepFrags[o] THEN IdlePdPiv
                   ELSE [ppiv EXCEPT !.sent = n]
        /\ events' = events
    BY <1>2, <1>4 DEF PdContinueCardReply, PdOwn
  <2>2. /\ ppiv'.phase \in {"IDLE", "CMD", "REPLY"}
        /\ ppiv'.phase # "IDLE" => ppiv'.op \in Ops /\ IsCard(ppiv'.op)
        /\ ppiv'.phase = "REPLY" => ppiv'.of = ppiv'.op
        /\ ppiv' = [phase |-> ppiv'.phase, op |-> ppiv'.op, got |-> ppiv'.got,
                    of |-> ppiv'.of, sent |-> ppiv'.sent]
        /\ n # RepFrags[o] => PdSends(o, n)'
    <3>1. CASE n = RepFrags[o]
      BY <2>1, <3>1 DEF IdlePdPiv
    <3>2. CASE n # RepFrags[o]
      <4>1. ppiv' = [ppiv EXCEPT !.sent = n]
        BY <2>1, <3>2
      <4> QED
        BY <1>2, <2>1, <4>1 DEF Shapes, PdSends
    <3> QED
      BY <3>1, <3>2
  <2>3. PdOwn'
    <3>1. NoCard(events', working') /\ events' \in Seq(Ops)
      BY <1>1, <1>2, <2>1 DEF NoCard, PdOwn, Shapes
    <3> QED
      BY <2>2, <3>1, NothingOwed
  <2>4. EndsInv'
    <3>1. CASE piv.phase = "REPLY"
      <4>1. PICK k \in Nat : k < RepFrags[piv.op] /\ PdAt(piv.op, k)
        BY <1>1, <1>2, <3>1 DEF EndsInv, ReplyInv, CardReplied
      <4>2. o = piv.op /\ n = k + 1
        BY <2>1, <4>1 DEF PdAt, PdHolds, PdSends
      <4>3. k + 1 < RepFrags[o] => PdSends(o, k + 1)'
        BY <2>2, <4>2
      <4> QED
        BY <1>1, <1>2, <2>1, <3>1, <4>1, <4>2, <4>3, RepliedPoll
    <3>2. CASE piv.phase # "REPLY"
      <4>1. piv.phase = "CMD" => piv.sent = 0
        BY <1>1, <1>2, <2>1 DEF EndsInv, CmdInv, CmdReplied, PdHolds
      <4>2. WireInv'
        BY <1>1, <1>2, <2>1, AnswerShape DEF EndsInv, WireInv, PivKinds
      <4>3. CmdInv'
        BY <1>1, <1>2, <2>1, <4>1, AnswerShape DEF EndsInv, CmdInv, CmdReplied
      <4> QED
        BY <1>1, <3>2, <4>2, <4>3 DEF EndsInv, ReplyInv
    <3> QED
      BY <3>1, <3>2
  <2>5. Shapes'
    BY <1>1, <1>2, <2>1, <2>2, AnswerShape DEF Shapes
  <2> QED
    BY <2>3, <2>4, <2>5 DEF PdSide
<1>5. CASE PdContinueTemplate
  <2>1. \E f : Answer("BIOREAD", f)
    BY <1>5 DEF PdContinueTemplate
  <2>2. ppiv' = ppiv /\ events' = events
    BY <1>5 DEF PdContinueTemplate
  <2>3. PdOwn' /\ events' \in Seq(Ops)
    BY <1>1, <1>2, <2>2 DEF PdOwn, Shapes
  <2> QED
    BY <1>1, <1>3, <2>1, <2>2, <2>3
<1>6. CASE PdPolled /\ events = <<>>
  <2>1. Answer("ACK", NoFrag) /\ ppiv' = ppiv /\ events' = events
    BY <1>6 DEF PdPolled
  <2>2. PdOwn' /\ events' \in Seq(Ops)
    BY <1>1, <1>2, <2>1 DEF PdOwn, Shapes
  <2> QED
    BY <1>1, <1>3, <2>1, <2>2
<1>7. CASE PdPolled /\ events # <<>>
  <2> PICK a : a = events[1]
    OBVIOUS
  <2>1. events' = Tail(events) /\ AnswerWith(a, ppiv)
    BY <1>7 DEF PdPolled
  <2>2. /\ Tail(events) \in Seq(Ops) /\ a \in Ops /\ 1 \in 1..Len(events)
        /\ \A n \in 1..Len(Tail(events)) :
              Tail(events)[n] = events[n + 1] /\ n + 1 \in 1..Len(events)
    BY <1>2, <1>7, TailIndex DEF Shapes
  <2>3. CASE ~IsCard(a)
    <3>1. ppiv' = ppiv /\ Answer("BIOREAD", Frag(a, 1))
      BY <2>1, <2>3 DEF AnswerWith, IsCard
    <3>2. PdOwn'
      BY <1>1, <1>2, <2>1, <2>2, <3>1, PdOwnKept
    <3> QED
      BY <1>1, <1>3, <2>1, <2>2, <3>1, <3>2
  <2>4. CASE IsCard(a)
    <3>1. ppiv.phase = "CMD" /\ a = ppiv.op /\ ppiv.got = CmdFrags[ppiv.op]
      BY <1>2, <2>2, <2>4 DEF PdOwn
    <3>2. /\ ppiv' = IF RepFrags[a] = 1 THEN IdlePdPiv
                     ELSE [ppiv EXCEPT !.phase = "REPLY", !.of = a, !.sent = 1]
          /\ Answer(Kind[a], Frag(a, 1))
      BY <2>1, <2>4, <3>1 DEF AnswerWith, IsCard
    <3>3. /\ ppiv'.phase \in {"IDLE", "CMD", "REPLY"}
          /\ ppiv'.phase # "IDLE" => ppiv'.op \in Ops /\ IsCard(ppiv'.op)
          /\ ppiv'.phase = "REPLY" => ppiv'.of = ppiv'.op
          /\ ppiv' = [phase |-> ppiv'.phase, op |-> ppiv'.op, got |-> ppiv'.got,
                      of |-> ppiv'.of, sent |-> ppiv'.sent]
          /\ RepFrags[a] # 1 => PdSends(a, 1)'
      <4>1. CASE RepFrags[a] = 1
        BY <3>2, <4>1 DEF IdlePdPiv
      <4>2. CASE RepFrags[a] # 1
        <5>1. ppiv' = [ppiv EXCEPT !.phase = "REPLY", !.of = a, !.sent = 1]
          BY <3>2, <4>2
        <5> QED
          BY <1>2, <2>2, <2>4, <3>1, <5>1 DEF Shapes, PdSends
      <4> QED
        BY <4>1, <4>2
    <3>4. NoCard(events', working')
      <4>1. \A n \in 1..Len(Tail(events)) : ~IsCard(Tail(events)[n])
        BY <1>2, <2>2, <2>4 DEF PdOwn
      <4>2. \A o \in working : ~IsCard(o)
        BY <1>2, <2>2, <3>1 DEF PdOwn
      <4> QED
        BY <1>1, <2>1, <4>1, <4>2 DEF NoCard
    <3>5. PdOwn'
      BY <2>1, <2>2, <3>3, <3>4, NothingOwed
    <3>6. EndsInv'
      <4>1. CASE piv.phase = "REPLY"
        <5>1. PICK k \in Nat : k < RepFrags[piv.op] /\ PdAt(piv.op, k)
          BY <1>1, <1>2, <4>1 DEF EndsInv, ReplyInv, CardReplied
        <5>2. a = piv.op /\ k = 0 /\ 0 + 1 = 1
          BY <3>1, <5>1 DEF PdAt, PdHolds, PdSends
        <5>3. 0 + 1 < RepFrags[a] => PdSends(a, 0 + 1)'
          BY <3>3, <5>2
        <5> QED
          BY <1>1, <1>2, <2>2, <2>4, <3>2, <4>1, <5>1, <5>2, <5>3, RepliedPoll
      <4>2. CASE piv.phase # "REPLY"
        <5>1. piv.phase = "CMD" => piv.sent = 0
          <6>1. SUFFICES ASSUME piv.phase = "CMD", piv.sent # 0 PROVE FALSE
            OBVIOUS
          <6>2. /\ PdHolds(piv.op, piv.sent) /\ piv.sent < CmdFrags[piv.op]
                /\ piv.sent \in Nat
            BY <1>1, <1>2, <6>1 DEF EndsInv, CmdInv, CmdReplied
          <6>3. piv.op \in Ops /\ CmdFrags[piv.op] \in Nat
            BY <6>1, EnginesAssumption DEF AnswerInv, IInv, OfItsKind
          <6> QED
            BY <3>1, <6>2, <6>3 DEF PdHolds
        <5>2. WireInv'
          BY <1>1, <1>2, <3>2, AnswerShape DEF EndsInv, WireInv, PivKinds
        <5>3. CmdInv'
          BY <1>1, <1>2, <3>2, <5>1, AnswerShape DEF EndsInv, CmdInv, CmdReplied
        <5> QED
          BY <1>1, <4>2, <5>2, <5>3 DEF EndsInv, ReplyInv
      <4> QED
        BY <4>1, <4>2
    <3>7. Shapes'
      BY <1>1, <1>2, <2>1, <2>2, <3>2, <3>3, AnswerShape DEF Shapes
    <3> QED
      BY <3>5, <3>6, <3>7 DEF PdSide
  <2> QED
    BY <2>3, <2>4
<1> QED
  BY <1>4, <1>5, <1>6, <1>7

\* Aborts, and answers that were still to come.
LEMMA AbortKeepsAnswers ==
  ASSUME Withdraws, AnswerInv, PdAborts \/ PdGivesCpUp
  PROVE  PdSide'
<1>1. /\ ppiv' = IdlePdPiv /\ UNCHANGED <<online, piv, answer>>
      /\ events' = EventsAfter(ppiv.phase # "IDLE")
      /\ working' = WorkAfter(ppiv.phase # "IDLE")
  BY DEF PdAborts, PdGivesCpUp, PdEnginesAbort, cpVars
<1>2. Shapes /\ PdOwn /\ EndsInv
  BY DEF AnswerInv
<1>3. /\ NoCard(events', working') /\ events' \in Seq(Ops) /\ working' \subseteq Ops
  BY <1>1, <1>2, Cleared
<1>4. PdOwn'
  BY <1>1, <1>3, NothingOwed DEF IdlePdPiv
<1>5. CASE PdAborts
  <2>1. wire.at = "pd" /\ wire.cmd = "ABORT" /\ Answer("ACK", NoFrag)
    BY <1>5 DEF PdAborts
  <2>2. EndsInv'
    BY <1>1, <1>2, <2>1, RepliedAside DEF PivKinds
  <2>3. Shapes'
    BY <1>1, <1>2, <1>3, <2>1, AnswerShape DEF Shapes, IdlePdPiv
  <2> QED
    BY <1>4, <2>2, <2>3 DEF PdSide
<1>6. CASE PdGivesCpUp
  <2>1. ~online /\ wire' = wire
    BY <1>6 DEF PdGivesCpUp
  <2>2. EndsInv' /\ Shapes'
    BY <1>1, <1>2, <1>3, <2>1 DEF EndsInv, WireInv, CmdInv, ReplyInv, Shapes, IdlePdPiv
  <2> QED
    BY <1>4, <2>2 DEF PdSide
<1> QED
  BY <1>5, <1>6

LEMMA EventKeepsAnswers ==
  ASSUME AnswerInv, NEW o \in Ops, osdp_pd_submit_event(o)
  PROVE  PdSide'
<1>1. /\ o \in working /\ working' = working \ {o} /\ events' = Append(events, o)
      /\ UNCHANGED <<online, piv, answer, wire, ppiv>>
  BY DEF osdp_pd_submit_event, cpVars
<1>2. Shapes /\ PdOwn /\ EndsInv
  BY DEF AnswerInv
<1>3. /\ events' \in Seq(Ops)
      /\ \A n \in 1..Len(events') : \/ events'[n] = o /\ n = Len(events) + 1
                                    \/ n \in 1..Len(events) /\ events'[n] = events[n]
  BY <1>1, <1>2, AppendIndex DEF Shapes
<1>4. CASE ~IsCard(o)
  <2>1. PdOwn'
    <3>1. \A n \in 1..Len(events') : IsCard(events'[n]) =>
             n + 0 \in 1..Len(events) /\ events[n + 0] = events'[n]
      BY <1>3, <1>4
    <3> QED
      BY <1>1, <1>2, <1>3, <3>1, PdOwnKept
  <2> QED
    BY <1>1, <1>2, <1>3, <2>1 DEF PdSide, Shapes, EndsInv, WireInv, CmdInv, ReplyInv,
       PdAt, PdHolds, PdSends, CmdReplied, CardReplied
<1>5. CASE IsCard(o)
  <2>1. /\ ppiv.phase = "CMD" /\ o = ppiv.op /\ ppiv.got = CmdFrags[ppiv.op]
        /\ \A n \in 1..Len(events) : ~IsCard(events[n])
        /\ \A x \in working' : ~IsCard(x)
    BY <1>1, <1>2, <1>5 DEF PdOwn
  <2>2. PdOwn'
    BY <1>1, <1>2, <1>3, <2>1 DEF PdOwn, IsCard
  <2> QED
    BY <1>1, <1>2, <1>3, <2>2 DEF PdSide, Shapes, EndsInv, WireInv, CmdInv, ReplyInv,
       PdAt, PdHolds, PdSends, CmdReplied, CardReplied
<1> QED
  BY <1>4, <1>5

-----------------------------------------------------------------------------
(* The CP's steps *)

AnswerSide == PdSide /\ AnswersOwn

\* The PD is as it was.
LEMMA PdUntouched ==
  ASSUME AnswerInv, UNCHANGED pdVars
  PROVE  PdOwn' /\ events' \in Seq(Ops) /\ working' \subseteq Ops
         /\ ppiv' = ppiv
         /\ ppiv' = [phase |-> ppiv'.phase, op |-> ppiv'.op, got |-> ppiv'.got,
                     of |-> ppiv'.of, sent |-> ppiv'.sent]
  BY DEF pdVars, AnswerInv, Shapes, PdOwn

\* A session that is cut off leaves the CP nothing to match the PD's state with.
LEMMA OfflineKeepsAnswers ==
  ASSUME AnswerInv, NEW outcome \in Settled, GoOffline(outcome)
  PROVE  /\ EndsInv' /\ AnswersOwn'
         /\ wire' = [at |-> wire'.at, cmd |-> wire'.cmd, op |-> wire'.op,
                     i |-> wire'.i, reply |-> wire'.reply, frag |-> wire'.frag]
         /\ answer' = [o \in Ops |-> answer'[o]]
<1>1. /\ piv' = IdlePiv /\ wire' = Quiet /\ answer' = answer
  BY DEF GoOffline
<1>2. EndsInv'
  BY <1>1 DEF EndsInv, WireInv, CmdInv, ReplyInv, IdlePiv, Quiet, PivKinds
<1>3. AnswersOwn'
  BY <1>1, OfflineStatus, SlotFails DEF AnswerInv
<1> QED
  BY <1>1, <1>2, <1>3 DEF Quiet, AnswerInv, Shapes

LEMMA CutOffKeepsAnswers ==
  ASSUME AnswerInv, Lose \/ PdRestarts \/ CpStrayCardFragment
  PROVE  AnswerSide'
<1>1. GoOffline("FAILED") /\ "FAILED" \in Settled
  BY DEF Lose, PdRestarts, CpStrayCardFragment, Settled
<1>2. CASE UNCHANGED pdVars
  BY <1>1, <1>2, OfflineKeepsAnswers, PdUntouched DEF AnswerSide, PdSide, Shapes
<1>3. CASE PdRestarts
  <2>1. ppiv' = IdlePdPiv /\ events' = <<>> /\ working' = {}
    BY <1>3 DEF PdRestarts
  <2>2. PdOwn' /\ events' \in Seq(Ops)
    BY <2>1 DEF PdOwn, IdlePdPiv
  <2> QED
    BY <1>1, <2>1, <2>2, OfflineKeepsAnswers DEF AnswerSide, PdSide, Shapes, IdlePdPiv
<1> QED
  BY <1>2, <1>3 DEF Lose, CpStrayCardFragment

\* The card operation goes on as before, with nothing of it on the wire.
LEMMA EndsAside ==
  ASSUME AnswerInv, UNCHANGED pdVars, online' = online,
         piv' = [phase |-> piv.phase, op |-> piv.op, sent |-> piv.sent,
                 rx |-> piv.rx, cancel |-> piv'.cancel],
         answer' = answer, ~CmdReplied, ~CardReplied \/ piv.phase # "REPLY",
         wire' = [at |-> wire'.at, cmd |-> wire'.cmd, op |-> wire'.op,
                  i |-> wire'.i, reply |-> wire'.reply, frag |-> wire'.frag],
         ~CmdReplied', ~CardReplied', WireInv'
  PROVE  PdSide'
<1>1. /\ piv'.phase = piv.phase /\ piv'.op = piv.op /\ piv'.sent = piv.sent
      /\ piv'.rx = piv.rx
  OBVIOUS
<1>2. CmdInv'
  BY <1>1, PdUntouched DEF AnswerInv, EndsInv, CmdInv, PdHolds
<1>3. ReplyInv'
  BY <1>1, PdUntouched DEF AnswerInv, EndsInv, ReplyInv, PdAt, PdHolds, PdSends
<1> QED
  BY <1>2, <1>3, PdUntouched DEF PdSide, EndsInv, AnswerInv, Shapes

\* The CP has nothing of a card operation left to match.
LEMMA EndsIdle ==
  ASSUME AnswerInv, UNCHANGED pdVars, piv'.phase = "IDLE",
         answer' = [o \in Ops |-> answer'[o]],
         wire' = [at |-> wire'.at, cmd |-> wire'.cmd, op |-> wire'.op,
                  i |-> wire'.i, reply |-> wire'.reply, frag |-> wire'.frag],
         wire'.at \in {"idle", "pd"}, wire'.at = "idle" => wire' = Quiet,
         wire'.cmd \notin PivKinds \cup {"BIOREAD"}
  PROVE  PdSide'
<1>1. EndsInv'
  BY DEF EndsInv, WireInv, CmdInv, ReplyInv
<1> QED
  BY <1>1, PdUntouched DEF PdSide, AnswerInv, Shapes

LEMMA SubmitKeepsAnswers ==
  ASSUME AnswerInv, NEW o \in Ops, osdp_cp_submit_command(o)
  PROVE  AnswerSide'
<1>1. /\ UNCHANGED <<online, wire, pdVars, answer>> /\ status[o] = "app" /\ online
      /\ status' \in {[status EXCEPT ![o] = "slot"], [status EXCEPT ![o] = "queued"]}
  BY DEF osdp_cp_submit_command, SubmitCardOp, SubmitFile, SubmitRead
<1>2. AnswersOwn'
  <2>1. \A x \in Ops : \/ status'[x] = status[x]
                       \/ status[x] # "OK" /\ status'[x] # "OK"
    BY <1>1 DEF AnswerInv, IInv, Types
  <2> QED
    BY <1>1, <2>1, AnswersKept DEF AnswerInv
<1>3. CASE piv' = piv
  <2>1. EndsInv'
    BY <1>1, <1>3 DEF pdVars, AnswerInv, EndsInv, WireInv, CmdInv, ReplyInv, PdAt,
       PdHolds, PdSends, CmdReplied, CardReplied
  <2> QED
    BY <1>1, <1>2, <2>1, PdUntouched DEF AnswerSide, PdSide, AnswerInv, Shapes
<1>4. CASE SubmitCardOp(o)
  <2>1. /\ piv' = [IdlePiv EXCEPT !.phase = "CMD", !.op = o]
        /\ IsCard(o) /\ piv.phase = "IDLE"
    BY <1>4, NotBusy DEF SubmitCardOp, AnswerInv, IsCard
  <2>2. /\ piv'.phase = "CMD" /\ piv'.op = o /\ piv'.sent = 0 /\ piv'.rx = <<>>
        /\ CmdFrags[o] \in Nat \ {0}
    BY <2>1, EnginesAssumption DEF IdlePiv
  <2>3. wire.cmd \notin PivKinds
    BY <2>1 DEF AnswerInv, EndsInv, WireInv
  <2>4. EndsInv'
    BY <1>1, <2>2, <2>3 DEF AnswerInv, EndsInv, WireInv, CmdInv, ReplyInv, CmdReplied
  <2> QED
    BY <1>1, <1>2, <2>4, PdUntouched DEF AnswerSide, PdSide, AnswerInv, Shapes
<1> QED
  BY <1>3, <1>4 DEF osdp_cp_submit_command, SubmitFile, SubmitRead

LEMMA CancelKeepsAnswers ==
  ASSUME AnswerInv, NEW kind, osdp_cp_cancel(kind)
  PROVE  AnswerSide'
<1>1. /\ UNCHANGED <<online, status, wire, pdVars, answer>>
      /\ piv' = piv \/ piv' = [piv EXCEPT !.cancel = TRUE]
  BY DEF osdp_cp_cancel
<1>2. /\ piv'.phase = piv.phase /\ piv'.op = piv.op /\ piv'.sent = piv.sent
      /\ piv'.rx = piv.rx
  BY <1>1 DEF AnswerInv, IInv, Types
<1>3. EndsInv'
  BY <1>1, <1>2 DEF pdVars, AnswerInv, EndsInv, WireInv, CmdInv, ReplyInv, PdAt,
     PdHolds, PdSends, CmdReplied, CardReplied
<1>4. AnswersOwn'
  BY <1>1, AnswersKept DEF AnswerInv
<1> QED
  BY <1>1, <1>3, <1>4, PdUntouched DEF AnswerSide, PdSide, AnswerInv, Shapes

LEMMA SendKeepsAnswers ==
  ASSUME AnswerInv, CpSends
  PROVE  AnswerSide'
<1>1. /\ UNCHANGED <<online, pdVars, answer, piv>> /\ online /\ wire = Quiet
  BY DEF CpSends, CpSendRead, CpSendCardOp, CpPoll, MaySend, EnginesTurn, cpVars
<1>2. AnswersOwn'
  <2>1. CASE CpSendRead
    <3>1. /\ active' \in Ops /\ status[active'] = "queued"
          /\ status' = [status EXCEPT ![active'] = "active"]
      <4>1. queue # <<>> /\ active' = Head(queue) /\ queue \in Seq(Ops) /\ IsInjective(queue)
        BY <2>1 DEF CpSendRead, AnswerInv, IInv, Elsewhere
      <4>2. active' \in Ops /\ active' \in Range(queue)
        BY <4>1, TailLemma
      <4> QED
        BY <2>1, <4>2 DEF CpSendRead, AnswerInv, IInv, Elsewhere
    <3>2. \A x \in Ops : \/ status'[x] = status[x]
                         \/ status[x] # "OK" /\ status'[x] # "OK"
      BY <3>1 DEF AnswerInv, IInv, Types
    <3> QED
      BY <1>1, <3>2, AnswersKept DEF AnswerInv
  <2>2. CASE status' = status
    BY <1>1, <2>2, AnswersKept DEF AnswerInv
  <2> QED
    BY <2>1, <2>2 DEF CpSends, CpSendCardOp, CpPoll, cpVars
<1>3. PICK c, o, n : /\ Send(c, o, n)
                     /\ \/ c = "BIOREAD" /\ o \in Ops /\ Kind[o] = "BIOREAD"
                        \/ /\ c = Kind[piv.op] /\ o = piv.op /\ n = piv.sent + 1
                           /\ piv.phase = "CMD"
                        \/ c = "POLL"
  <2>1. CASE CpSendRead
    <3>1. queue # <<>> /\ active' = Head(queue) /\ queue \in Seq(Ops) /\ IsInjective(queue)
      BY <2>1 DEF CpSendRead, AnswerInv, IInv, Elsewhere
    <3>2. active' \in Ops /\ active' \in Range(queue)
      BY <3>1, TailLemma
    <3> QED
      BY <2>1, <3>2 DEF CpSendRead, AnswerInv, IInv, Elsewhere
  <2> QED
    BY <2>1 DEF CpSends, CpSendCardOp, CpPoll
<1>4. /\ wire' = [at |-> wire'.at, cmd |-> wire'.cmd, op |-> wire'.op,
                  i |-> wire'.i, reply |-> wire'.reply, frag |-> wire'.frag]
      /\ wire'.at = "pd" /\ wire'.cmd = c /\ wire'.op = o /\ wire'.i = n
  BY <1>3 DEF Send, Quiet
<1>5. piv' = [phase |-> piv.phase, op |-> piv.op, sent |-> piv.sent,
              rx |-> piv.rx, cancel |-> piv'.cancel]
  BY <1>1 DEF AnswerInv, IInv, Types
<1>6. WireInv'
  BY <1>1, <1>3, <1>4 DEF AnswerInv, EndsInv, WireInv, IInv, OfItsKind, PivKinds
<1>7. ~CmdReplied /\ ~CardReplied /\ ~CmdReplied' /\ ~CardReplied'
  BY <1>1, <1>4 DEF CmdReplied, CardReplied, Quiet
<1> QED
  BY <1>1, <1>2, <1>4, <1>5, <1>6, <1>7, EndsAside DEF AnswerSide

LEMMA EndKeepsAnswers ==
  ASSUME AnswerInv, CpEndCardOp \/ CpEndRead \/ CpEndFile
  PROVE  AnswerSide'
<1>1. /\ UNCHANGED <<pdVars, answer>> /\ piv'.phase = "IDLE" /\ wire = Quiet
      /\ wire' = wire \/ Send("ABORT", NoOp, 0)
  <2>1. CpEndFile => piv.phase = "IDLE"
    BY DEF CpEndFile, AnswerInv, IInv, OfItsKind, SlotIsLive, PivKinds
  <2> QED
    BY <2>1 DEF CpEndCardOp, CpEndRead, CpEndFile, EnginesTurn, MaySend, IdlePiv
<1>2. /\ wire' = [at |-> wire'.at, cmd |-> wire'.cmd, op |-> wire'.op,
                  i |-> wire'.i, reply |-> wire'.reply, frag |-> wire'.frag]
      /\ wire'.at \in {"idle", "pd"} /\ (wire'.at = "idle" => wire' = Quiet)
      /\ wire'.cmd \notin PivKinds \cup {"BIOREAD"}
  <2>1. "NONE" \notin PivKinds /\ "ABORT" \notin PivKinds
    BY DEF PivKinds
  <2>2. CASE wire' = wire
    BY <1>1, <2>1, <2>2 DEF Quiet
  <2>3. CASE Send("ABORT", NoOp, 0)
    <3>1. /\ wire' = [at |-> wire'.at, cmd |-> wire'.cmd, op |-> wire'.op,
                      i |-> wire'.i, reply |-> wire'.reply, frag |-> wire'.frag]
          /\ wire'.at = "pd" /\ wire'.cmd = "ABORT"
      BY <2>3 DEF Send, Quiet
    <3> QED
      BY <2>1, <3>1
  <2> QED
    BY <1>1, <2>2, <2>3
<1>3. PdSide'
  BY <1>1, <1>2, EndsIdle DEF AnswerInv, Shapes
<1>4. AnswersOwn'
  <2>1. ASSUME NEW kinds, NEW outcome \in Settled, Done(kinds, outcome),
               \A k \in kinds : k \in PivKinds => outcome = "FAILED"
        PROVE  AnswersOwn'
    <3>1. PICK o : o = Settles(kinds)
      OBVIOUS
    <3>2. status' = Complete(status, o, outcome)
      BY <2>1, <3>1 DEF Done
    <3>3. o \in Ops \cup {NoOp} /\ outcome \in Where /\ status \in [Ops -> Where]
      BY <3>1, SettlesFacts DEF AnswerInv, IInv, Types, Where
    <3>4. \A x \in Ops : status'[x] = IF x = o THEN outcome ELSE status[x]
      <4>1. \A x \in Ops : Complete(status, o, outcome)[x] =
                            IF x = o THEN outcome ELSE status[x]
        BY <3>3, EnginesAssumption DEF Complete
      <4> QED
        BY <3>2, <4>1
    <3>5. o \in Ops => o = slot /\ Kind[o] \in kinds
      BY <3>1, SettlesFacts, EnginesAssumption DEF AnswerInv
    <3>6. \A x \in Ops : IsCard(x) => \/ status'[x] = status[x]
                                      \/ x = slot /\ status'[x] = "FAILED"
      BY <2>1, <3>4, <3>5 DEF IsCard
    <3> QED
      BY <1>1, <3>6, SlotFails DEF AnswerInv
  <2>2. "FAILED" \in Settled /\ "OK" \in Settled /\ "FILE" \notin PivKinds
    BY DEF Settled, PivKinds
  <2>3. CASE CpEndCardOp
    BY <2>1, <2>2, <2>3 DEF CpEndCardOp
  <2>4. CASE CpEndRead
    BY <2>1, <2>2, <2>4 DEF CpEndRead
  <2>5. CASE CpEndFile
    BY <2>1, <2>2, <2>5 DEF CpEndFile
  <2> QED
    BY <2>3, <2>4, <2>5
<1> QED
  BY <1>3, <1>4 DEF AnswerSide


\* A valid reply is taken off the wire.
LEMMA QuietShape ==
  ASSUME wire' = Quiet
  PROVE  /\ wire' = [at |-> wire'.at, cmd |-> wire'.cmd, op |-> wire'.op,
                     i |-> wire'.i, reply |-> wire'.reply, frag |-> wire'.frag]
         /\ wire'.at = "idle" /\ wire'.cmd = "NONE" /\ "NONE" \notin PivKinds
         /\ ~CmdReplied' /\ ~CardReplied'
  BY DEF Quiet, PivKinds, CmdReplied, CardReplied

\* A reply that the running card operation does not wait for leaves it alone.
LEMMA TakenAside ==
  ASSUME AnswerInv, UNCHANGED <<online, pdVars, piv, answer>>, wire' = Quiet,
         ~CmdReplied, ~CardReplied
  PROVE  PdSide'
<1>1. piv' = [phase |-> piv.phase, op |-> piv.op, sent |-> piv.sent,
              rx |-> piv.rx, cancel |-> piv'.cancel]
  BY DEF AnswerInv, IInv, Types
<1>2. WireInv'
  BY QuietShape DEF AnswerInv, EndsInv, WireInv, Quiet
<1> QED
  BY <1>1, <1>2, QuietShape, EndsAside

\* An exchange during which nothing ends.
LEMMA NothingEnds ==
  ASSUME IInv, ExchangeDone({}, "OK", bio)
  PROVE  \A x \in Ops : IsCard(x) => status'[x] = status[x]
<1>1. "OK" \in Settled
  BY DEF Settled
<1> PICK none : none = {}
  OBVIOUS
<1>2. \A x \in Ops : IsCard(x) =>
         status'[x] = IF x = slot /\ Kind[slot] \in none THEN "OK" ELSE status[x]
  BY <1>1, ExchangeStatus
<1> QED
  BY <1>2

LEMMA AckKeepsAnswers ==
  ASSUME AnswerInv, CpAck
  PROVE  AnswerSide'
<1>1. /\ UNCHANGED <<online, pdVars, answer>> /\ wire' = Quiet
      /\ ExchangeDone({}, "OK", bio) /\ "OK" \in Settled
      /\ wire.at = "cp" /\ wire.reply = "ACK" /\ "ACK" \notin PivKinds
  BY DEF CpAck, ExchangeDone, Settled, PivKinds
<1>2. AnswersOwn'
  <2>1. IInv
    BY DEF AnswerInv
  <2>2. \A x \in Ops : IsCard(x) => status'[x] = status[x]
    BY <1>1, <2>1, NothingEnds
  <2> QED
    BY <1>1, <2>2, AnswersKept DEF AnswerInv
<1>3. CASE ~OwnCommand
  <2>1. ~CmdReplied /\ ~CardReplied /\ piv' = piv
    BY <1>1, <1>3 DEF CpAck, OwnCommand, CmdReplied, CardReplied, AnswerInv, EndsInv,
       WireInv
  <2> QED
    BY <1>1, <1>2, <2>1, TakenAside DEF AnswerSide
<1>4. CASE OwnCommand
  <2> PICK o, n : o = piv.op /\ n = piv.sent + 1
    OBVIOUS
  <2>1. /\ o \in Ops /\ IsCard(o) /\ piv.phase = "CMD" /\ CmdReplied
        /\ piv.op = o /\ n = piv.sent + 1
    BY <1>1, <1>4 DEF OwnCommand, CmdReplied, AnswerInv, IInv, OfItsKind, IsCard
  <2>2. /\ PdHolds(o, n) /\ piv.rx = <<>> /\ piv.sent \in Nat
        /\ piv.sent < CmdFrags[o]
    BY <1>1, <2>1 DEF AnswerInv, EndsInv, CmdInv
  <2>3. /\ CmdFrags[o] \in Nat /\ RepFrags[o] \in Nat /\ 0 < RepFrags[o]
    BY <2>1, EnginesAssumption
  <2>4. /\ piv'.op = o /\ piv'.sent = n /\ piv'.rx = <<>>
        /\ piv'.phase = IF n = CmdFrags[o] THEN "REPLY" ELSE "CMD"
    <3>1. piv' = [piv EXCEPT !.sent = @ + 1,
                             !.phase = IF piv.sent + 1 = CmdFrags[piv.op]
                                       THEN "REPLY" ELSE "CMD"]
      BY <1>4 DEF CpAck
    <3>2. piv = [phase |-> piv.phase, op |-> piv.op, sent |-> piv.sent,
                 rx |-> piv.rx, cancel |-> piv.cancel]
      BY DEF AnswerInv, IInv, Types
    <3> QED
      BY <2>1, <2>2, <3>1, <3>2
  <2>5. PdHolds(o, n)'
    BY <1>1, <2>2 DEF pdVars, PdHolds
  <2>6. WireInv'
    <3>1. online' /\ wire' = Quiet /\ wire'.at = "idle" /\ wire'.cmd = "NONE"
          /\ "NONE" \notin PivKinds
      BY <1>1, <2>1, QuietShape DEF AnswerInv, EndsInv, WireInv
    <3> QED
      BY <2>4, <3>1 DEF WireInv, Quiet
  <2>7. CmdInv'
    BY <1>1, <2>2, <2>3, <2>4, <2>5, QuietShape DEF CmdInv
  <2>8. ReplyInv'
    <3> SUFFICES ASSUME n = CmdFrags[o] PROVE ReplyInv'
      BY <2>4 DEF ReplyInv
    <3>1. PdAt(o, 0)'
      BY <2>5 DEF PdAt
    <3>2. piv'.rx = Part(o, 0)
      BY <2>1, <2>4, PartFacts
    <3> QED
      BY <1>1, <2>3, <2>4, <3>1, <3>2, QuietShape DEF ReplyInv, Part, Frag
  <2>9. Shapes' /\ PdOwn'
    BY <1>1, PdUntouched, QuietShape DEF AnswerInv, Shapes
  <2> QED
    BY <1>2, <2>6, <2>7, <2>8, <2>9 DEF AnswerSide, PdSide, EndsInv
<1> QED
  BY <1>3, <1>4

\* The answer is put together in order, and delivered when it is whole.
LEMMA CardFragmentKeepsAnswers ==
  ASSUME AnswerInv, CpCardFragment
  PROVE  AnswerSide'
<1> PICK o, f, rx : /\ o = piv.op /\ f = wire.frag
                    /\ rx = IF OwnCommand THEN <<>> ELSE piv.rx
  OBVIOUS
<1>1. /\ UNCHANGED <<online, pdVars>> /\ wire' = Quiet
      /\ "OK" \in Settled /\ wire.at = "cp" /\ wire.reply \in PivKinds
      /\ wire.reply = Kind[o] /\ (OwnCommand \/ piv.phase = "REPLY")
      /\ CardReplied /\ piv.phase # "IDLE"
  BY DEF CpCardFragment, ExchangeDone, Settled, Expected, CardReplied, OwnCommand
<1>2. /\ o \in Ops /\ IsCard(o) /\ slot = o /\ online /\ piv.op = o
  BY <1>1 DEF AnswerInv, IInv, OfItsKind, SlotIsLive, IsCard, EndsInv, WireInv
<1>3. RepFrags[o] \in Nat /\ 0 < RepFrags[o]
  BY <1>2, EnginesAssumption
<1>4. PICK k \in Nat : /\ k < RepFrags[o] /\ rx = Part(o, k) /\ f = Frag(o, k + 1)
                       /\ k + 1 < RepFrags[o] => PdSends(o, k + 1)
  <2>1. CASE OwnCommand
    <3>1. piv.phase = "CMD" /\ CmdReplied /\ rx = <<>>
      BY <1>1, <1>2, <2>1 DEF OwnCommand, CmdReplied, IsCard
    <3>2. /\ f = Frag(o, 1)
          /\ RepFrags[o] > 1 => PdSends(o, 1)
      BY <1>1, <1>2, <3>1 DEF AnswerInv, EndsInv, CmdInv
    <3>3. rx = Part(o, 0)
      BY <1>2, <3>1, PartFacts
    <3>4. 0 \in Nat /\ 0 + 1 = 1
      OBVIOUS
    <3> QED
      BY <1>3, <3>2, <3>3, <3>4
  <2>2. CASE ~OwnCommand
    <3>1. piv.phase = "REPLY" /\ rx = piv.rx
      BY <1>1, <2>2
    <3> QED
      BY <1>1, <1>2, <3>1 DEF AnswerInv, EndsInv, ReplyInv
  <2> QED
    BY <2>1, <2>2
<1>5. Fits(rx, f) /\ Store(rx, f) = Part(o, k + 1)
  BY <1>2, <1>4, PartFacts
<1>6. Last(f) <=> k + 1 = RepFrags[o]
  BY <1>4 DEF Last, Frag
<1>7. CASE k + 1 # RepFrags[o]
  <2>1. /\ piv' = [piv EXCEPT !.phase = "REPLY", !.rx = Part(o, k + 1)]
        /\ ExchangeDone({}, "OK", bio) /\ answer' = answer
    BY <1>5, <1>6, <1>7 DEF CpCardFragment
  <2>2. piv'.phase = "REPLY" /\ piv'.op = o /\ piv'.rx = Part(o, k + 1)
    <3>1. piv = [phase |-> piv.phase, op |-> piv.op, sent |-> piv.sent,
                 rx |-> piv.rx, cancel |-> piv.cancel]
      BY DEF AnswerInv, IInv, Types
    <3> QED
      BY <1>2, <2>1, <3>1
  <2>3. k + 1 \in Nat /\ k + 1 < RepFrags[o] /\ k + 1 # 0
    BY <1>3, <1>4, <1>7
  <2>4. PdAt(o, k + 1)'
    <3>1. PdSends(o, k + 1)'
      BY <1>1, <1>4, <2>3 DEF pdVars, PdSends
    <3> QED
      BY <2>3, <3>1 DEF PdAt
  <2>5. ReplyInv'
    BY <1>1, <2>2, <2>3, <2>4, QuietShape DEF ReplyInv, Part, Frag
  <2>6. CmdInv' /\ WireInv'
    <3>1. online' /\ wire' = Quiet /\ wire'.at = "idle" /\ wire'.cmd = "NONE"
          /\ "NONE" \notin PivKinds
      BY <1>1, <1>2, QuietShape
    <3> QED
      BY <2>2, <3>1 DEF CmdInv, WireInv, Quiet
  <2>7. AnswersOwn'
    <3>1. IInv
      BY DEF AnswerInv
    <3>2. \A x \in Ops : IsCard(x) => status'[x] = status[x]
      BY <2>1, <3>1, NothingEnds
    <3> QED
      BY <2>1, <3>2, AnswersKept DEF AnswerInv
  <2>8. Shapes' /\ PdOwn'
    BY <1>1, <2>1, PdUntouched, QuietShape DEF AnswerInv, Shapes
  <2> QED
    BY <2>5, <2>6, <2>7, <2>8 DEF AnswerSide, PdSide, EndsInv
<1>8. CASE k + 1 = RepFrags[o]
  <2>1. /\ piv' = IdlePiv /\ answer' = [answer EXCEPT ![o] = Part(o, k + 1)]
        /\ ExchangeDone({Kind[o]}, "OK", bio)
    BY <1>1, <1>2, <1>5, <1>6, <1>8 DEF CpCardFragment, Verdict
  <2>2. /\ Part(o, k + 1) = WholeAnswer(o) /\ WholeAnswer(o) # <<>>
    BY <1>2, <1>8, PartFacts
  <2>3. \A x \in Ops : IsCard(x) => status'[x] = IF x = o THEN "OK" ELSE status[x]
    <3>1. IInv
      BY DEF AnswerInv
    <3> QED
      BY <1>1, <1>2, <2>1, <3>1, ExchangeStatus
  <2>4. /\ answer' = [x \in Ops |-> answer'[x]]
        /\ \A x \in Ops : answer'[x] = IF x = o THEN WholeAnswer(o) ELSE answer[x]
    BY <1>2, <2>1, <2>2 DEF AnswerInv, Shapes
  <2>5. AnswersOwn'
    BY <2>2, <2>3, <2>4 DEF AnswersOwn, AnswerInv, IsCard, WholeAnswer, Frag
  <2>6. piv'.phase = "IDLE"
    BY <2>1 DEF IdlePiv
  <2>7. "NONE" # "BIOREAD"
    OBVIOUS
  <2> QED
    BY <1>1, <2>4, <2>5, <2>6, <2>7, EndsIdle, QuietShape DEF AnswerSide
<1> QED
  BY <1>7, <1>8

\* Templates are no card operation's.
LEMMA TemplateKeepsAnswers ==
  ASSUME AnswerInv, CpFirstTemplate \/ CpMoreTemplate
  PROVE  AnswerSide'
<1>1. /\ UNCHANGED <<pdVars, piv, answer>> /\ wire.at = "cp" /\ wire.reply = "BIOREAD"
      /\ "BIOREAD" \notin PivKinds /\ "BIOREAD" \notin {"ACK", "NAK"}
  BY DEF CpFirstTemplate, CpMoreTemplate, PivKinds
<1>2. ~CmdReplied /\ ~CardReplied
  BY <1>1 DEF CmdReplied, CardReplied, AnswerInv, EndsInv, WireInv
<1>3. ASSUME NEW kinds \in SUBSET {"BIOREAD"}, NEW outcome \in Settled, NEW b,
             ExchangeDone(kinds, outcome, b)
      PROVE  AnswerSide'
  <2>1. IInv
    BY DEF AnswerInv
  <2>2. \A x \in Ops : IsCard(x) =>
           status'[x] = IF x = slot /\ Kind[slot] \in kinds THEN outcome ELSE status[x]
    BY <1>3, <2>1, ExchangeStatus
  <2>3. \A x \in Ops : IsCard(x) => status'[x] = status[x]
    BY <1>1, <1>3, <2>2 DEF IsCard
  <2>4. AnswersOwn'
    BY <1>1, <2>1, <2>3, AnswersKept DEF AnswerInv
  <2>5. online' = online /\ wire' = Quiet
    BY <1>3 DEF ExchangeDone
  <2> QED
    BY <1>1, <1>2, <2>4, <2>5, TakenAside DEF AnswerSide
<1>4. \A fits : Verdict(fits) \in Settled
  BY DEF Verdict, Settled
<1>5. "OK" \in Settled /\ {} \in SUBSET {"BIOREAD"} /\ {"BIOREAD"} \in SUBSET {"BIOREAD"}
  BY DEF Settled
<1>6. \/ \E b : ExchangeDone({}, "OK", b)
      \/ \E fits, b : ExchangeDone({"BIOREAD"}, Verdict(fits), b)
  BY DEF CpFirstTemplate, CpMoreTemplate
<1> QED
  BY <1>3, <1>4, <1>5, <1>6

LEMMA NakKeepsAnswers ==
  ASSUME AnswerInv, CpNak
  PROVE  AnswerSide'
<1>1. /\ UNCHANGED pdVars /\ wire.at = "cp" /\ wire.reply = "NAK"
      /\ "NAK" \notin PivKinds /\ "FAILED" \in Settled /\ "FAILED" \in Where
  BY DEF CpNak, PivKinds, Settled, Where
<1>2. CASE GoOffline("FAILED")
  BY <1>1, <1>2, OfflineKeepsAnswers, PdUntouched DEF AnswerSide, PdSide, Shapes
<1>3. CASE ~GoOffline("FAILED")
  <2> DEFINE refused == IF OwnCommand THEN {wire.cmd} ELSE {}
  <2>1. /\ piv' = IF OwnCommand THEN IdlePiv ELSE piv
        /\ status' = Complete(Complete(status, Settles(refused), "FAILED"),
                              active, "FAILED")
        /\ wire' = Quiet /\ answer' = answer /\ online' = online
    BY <1>3 DEF CpNak
  <2>2. /\ Settles(refused) \in Ops \cup {NoOp}
        /\ Settles(refused) \in Ops => Settles(refused) = slot
    BY SettlesFacts, EnginesAssumption DEF AnswerInv
  <2> PICK o : o = Settles(refused)
    OBVIOUS
  <2>3. /\ o \in Ops \cup {NoOp} /\ (o \in Ops => o = slot)
        /\ status' = Complete(Complete(status, o, "FAILED"), active, "FAILED")
    BY <2>1, <2>2
  <2> HIDE DEF refused
  <2>4. IInv
    BY DEF AnswerInv
  <2>5. \A x \in Ops : IsCard(x) => status'[x] = IF x = o THEN "FAILED" ELSE status[x]
    BY <1>1, <2>3, <2>4, TwoCompletions
  <2>6. AnswersOwn'
    BY <2>1, <2>3, <2>4, <2>5, SlotFails DEF AnswerInv
  <2>7. CASE OwnCommand
    <3>1. piv'.phase = "IDLE" /\ "NONE" # "BIOREAD"
      BY <2>1, <2>7 DEF IdlePiv
    <3> QED
      BY <1>1, <2>1, <2>6, <3>1, EndsIdle, QuietShape DEF AnswerSide, AnswerInv, Shapes
  <2>8. CASE ~OwnCommand
    <3>1. ~CmdReplied /\ ~CardReplied
      BY <1>1, <2>8 DEF CmdReplied, CardReplied, OwnCommand, AnswerInv, EndsInv, WireInv
    <3> QED
      BY <1>1, <2>1, <2>6, <2>8, <3>1, TakenAside DEF AnswerSide
  <2> QED
    BY <2>7, <2>8
<1> QED
  BY <1>2, <1>3

LEMMA ReconnectKeepsAnswers ==
  ASSUME AnswerInv, CpReconnects
  PROVE  AnswerSide'
<1>1. /\ ~online /\ UNCHANGED <<status, piv, wire, pdVars, answer>>
  BY DEF CpReconnects
<1>2. piv.phase = "IDLE"
  BY <1>1 DEF AnswerInv, EndsInv, WireInv
<1>3. EndsInv'
  BY <1>1, <1>2 DEF AnswerInv, EndsInv, WireInv, CmdInv, ReplyInv
<1>4. AnswersOwn'
  BY <1>1, AnswersKept DEF AnswerInv
<1> QED
  BY <1>1, <1>3, <1>4, PdUntouched DEF AnswerSide, PdSide, AnswerInv, Shapes

-----------------------------------------------------------------------------
(* Every step, and the answers *)

LEMMA NothingAnsweredYet == Init => AnswerInv
<1> SUFFICES ASSUME Init PROVE AnswerInv
  OBVIOUS
<1>1. /\ events = <<>> /\ working = {} /\ ppiv = IdlePdPiv /\ wire = Quiet
      /\ answer = [o \in Ops |-> <<>>] /\ piv = IdlePiv
      /\ status = [o \in Ops |-> "app"]
  BY DEF Init
<1>2. Shapes /\ PdOwn
  BY <1>1 DEF Shapes, PdOwn, IdlePdPiv, Quiet
<1>3. EndsInv
  BY <1>1 DEF EndsInv, WireInv, CmdInv, ReplyInv, IdlePiv, Quiet, PivKinds
<1>4. AnswersOwn
  BY <1>1 DEF AnswersOwn
<1> QED
  BY <1>2, <1>3, <1>4, Initially DEF AnswerInv

LEMMA EveryStepKeepsAnswers == Withdraws /\ AnswerInv /\ [Next]_vars => AnswerInv'
<1> SUFFICES ASSUME Withdraws, AnswerInv, [Next]_vars PROVE AnswerInv'
  OBVIOUS
<1>0. AnswerSide' => AnswerInv'
  BY EveryStepKeeps DEF AnswerInv, AnswerSide, PdSide
<1> SUFFICES AnswerSide'
  BY <1>0
<1>1. ASSUME PdSide', UNCHANGED <<status, answer>> PROVE AnswerSide'
  BY <1>1, AnswersKept DEF AnswerSide, AnswerInv
<1>2. CASE \E o \in Ops : osdp_cp_submit_command(o)
  BY <1>2, SubmitKeepsAnswers
<1>3. CASE \E o \in Ops : osdp_pd_submit_event(o)
  BY <1>1, <1>3, EventKeepsAnswers DEF osdp_pd_submit_event, cpVars
<1>4. CASE \E k \in PivKinds \cup {"BIOREAD"} : osdp_cp_cancel(k)
  BY <1>4, CancelKeepsAnswers
<1>5. CASE CpSends
  BY <1>5, SendKeepsAnswers
<1>6. CASE PdActs
  <2>1. PdSide'
    BY <1>6, CardCommandKeepsAnswers, ReadCommandKeepsAnswers, PollKeepsAnswers,
       AbortKeepsAnswers DEF PdActs
  <2>2. UNCHANGED <<status, answer>>
    BY <1>6 DEF PdActs, PdCardCommand, PdReadCommand, PdContinueCardReply,
       PdContinueTemplate, PdPolled, PdAborts, cpVars
  <2> QED
    BY <1>1, <2>1, <2>2
<1>7. CASE CpReceives
  BY <1>7, AckKeepsAnswers, CardFragmentKeepsAnswers, CutOffKeepsAnswers,
     TemplateKeepsAnswers, NakKeepsAnswers DEF CpReceives
<1>8. CASE CpEndCardOp \/ CpEndRead \/ CpEndFile
  BY <1>8, EndKeepsAnswers
<1>9. CASE CpReconnects
  BY <1>9, ReconnectKeepsAnswers
<1>10. CASE PdGivesCpUp
  BY <1>1, <1>10, AbortKeepsAnswers DEF PdGivesCpUp, cpVars
<1>11. CASE Lose \/ PdRestarts
  BY <1>11, CutOffKeepsAnswers
<1>12. CASE UNCHANGED vars
  <2>1. UNCHANGED <<online, pdVars, wire, piv, status, answer>>
    BY <1>12 DEF vars, cpVars, pdVars
  <2>2. EndsInv'
    BY <2>1 DEF pdVars, AnswerInv, EndsInv, WireInv, CmdInv, ReplyInv, PdAt, PdHolds,
       PdSends, CmdReplied, CardReplied
  <2>3. PdSide'
    BY <2>1, <2>2, PdUntouched DEF PdSide, AnswerInv, Shapes
  <2> QED
    BY <1>1, <2>1, <2>3
<1> QED
  BY <1>2, <1>3, <1>4, <1>5, <1>6, <1>7, <1>8, <1>9, <1>10, <1>11, <1>12 DEF Next

\* The application at the CP is never handed an answer to another challenge, a
\* mixed one or a part of one, and a card operation ends OK exactly when its
\* own answer was delivered: for any operations and lengths, whatever is lost,
\* refused, cancelled or superseded and whenever the PD restarts.  It takes an
\* application at the PD that withdraws its answer when the completion event
\* tells it that the operation was aborted; one that does not is heard by the
\* next challenge.
THEOREM AnswersAreOwn == ASSUME Withdraws PROVE Spec => []AnswersOwn
<1>1. AnswerInv => AnswersOwn
  BY DEF AnswerInv
<1>2. AnswerInv /\ [Next]_vars => AnswerInv'
  BY EveryStepKeepsAnswers
<1> QED
  BY NothingAnsweredYet, <1>1, <1>2, PTL DEF Spec
=============================================================================
