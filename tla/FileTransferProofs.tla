------------------------- MODULE FileTransferProofs -------------------------
(***************************************************************************)
(* Theorems of FileTransfer, for every set of files, every size, every     *)
(* limit and every set of faults.                                          *)
(***************************************************************************)
EXTENDS FileTransfer, TLAPS

USE FileAssumption

-----------------------------------------------------------------------------
(* What the actions share *)

\* file_transition_done() keeps the types, whatever was in flight.
LEMMA FinishTypes ==
    ASSUME TypeOK, NEW status \in {"OK", "FAILED"}, Finish(status)
    PROVE  /\ terminal' = TRUE /\ engine' = NoFile /\ outcome' = status
           /\ TxType' /\ ~Active'
BY DEF TypeOK, CpType, TxType, Transfers, Finish, Active

\* So does an abort of the engines, which only touches a running transfer.
LEMMA AbortTypes ==
    ASSUME TypeOK, IF Active THEN Finish("FAILED") ELSE UNCHANGED sender
    PROVE  /\ terminal' \in BOOLEAN
           /\ engine' \in Files \cup {NoFile}
           /\ outcome' \in {"NONE", "OK", "FAILED", "ABORTED"}
           /\ TxType' /\ ~Active'
<1>1. CASE Active
  BY <1>1, FinishTypes
<1>2. CASE ~Active
  BY <1>2 DEF TypeOK, CpType, TxType, Transfers, sender, Active
<1> QED BY <1>1, <1>2

LEMMA SendTypes ==
    ASSUME TypeOK, NEW f \in Frames, Send(f)
    PROVE  /\ phy' = "REPLY" /\ UNCHANGED <<again, cmdId>>
           /\ mislabelled' \in BOOLEAN
           /\ LineType'
BY DEF TypeOK, CpType, LineType, Send

LEMMA AnswerTypes ==
    ASSUME TypeOK, NEW r \in Replies, Answer(r), frame.cmd # "NONE"
    PROVE  CpType' /\ LineType' /\ trouble' \in 0..MaxTrouble
<1>1. frame.cmd \in {"FILE", "ABORT"}
  BY DEF TypeOK, LineType, Frames, Abort, NoFrame
<1>2. LineType'
  BY <1>1 DEF LineType, Answer
<1>3. CpType'
  BY DEF TypeOK, CpType, TxType, Transfers, Active, Answer, sender, exchange
<1> QED BY <1>2, <1>3 DEF TypeOK, Answer

\* A frame of a transfer, and what the receiver makes of it.
LEMMA ReceivedTypes ==
    ASSUME TypeOK, Executes("FILE")
    PROVE  /\ frame \in [cmd : {"FILE"}, file : Files, off : Nat, len : Nat]
           /\ Opened \in [file : Files, off : Nat, asks : 0..MaxAsks]
           /\ Opened.off <= Total[Opened.file]
           /\ DOMAIN Stored = Files
           /\ \A f \in Files : Stored[f] \in [1..Total[f] -> Files \cup {NoFile}]
           /\ Approved \subseteq Files
<1>1. frame \in [cmd : {"FILE"}, file : Files, off : Nat, len : Nat]
  BY DEF TypeOK, LineType, Frames, Executes, Abort, NoFrame
<1>2. /\ Opened \in [file : Files, off : Nat, asks : 0..MaxAsks]
      /\ Opened.off <= Total[Opened.file]
  <2>1. CASE Opens
    <3>1. Opened = [file |-> frame.file, off |-> 0, asks |-> 0]
      BY <2>1 DEF Opened, NoRx
    <3>2. 0 <= Total[frame.file]
      BY <1>1
    <3> QED BY <1>1, <3>1, <3>2
  <2>2. CASE ~Opens
    BY <2>2 DEF TypeOK, PdType, Opened, Opens
  <2> QED BY <2>1, <2>2
<1>3. /\ DOMAIN Stored = Files
      /\ \A f \in Files : Stored[f] \in [1..Total[f] -> Files \cup {NoFile}]
  BY <1>1 DEF TypeOK, PdType, Stored, Blank
<1> QED BY <1>1, <1>2, <1>3 DEF TypeOK, PdType, Approved

\* What was written stays within the file, and so does the committed offset.
LEMMA StoringTypes ==
    ASSUME TypeOK, NEW file \in Files, PdReceives(file)
    PROVE  /\ Received \in [file : Files, off : Nat, asks : 0..MaxAsks]
           /\ Received.file = file /\ Received.off <= Total[file]
           /\ DOMAIN disk' = Files
           /\ \A f \in Files : disk'[f] \in [1..Total[f] -> Files \cup {NoFile}]
<1>1. /\ frame \in [cmd : {"FILE"}, file : Files, off : Nat, len : Nat]
      /\ Opened \in [file : Files, off : Nat, asks : 0..MaxAsks]
      /\ Opened.off <= Total[Opened.file]
      /\ DOMAIN Stored = Files
      /\ \A f \in Files : Stored[f] \in [1..Total[f] -> Files \cup {NoFile}]
  BY ReceivedTypes DEF PdReceives
<1>2. Fits(Opened) /\ file = Received.file
  BY DEF PdReceives
<1>3. /\ Received \in [file : Files, off : Nat, asks : 0..MaxAsks]
      /\ Received.file = Opened.file
      /\ Received.off <= Total[Received.file]
  <2> DEFINE end == frame.off + frame.len
             off == IF frame.len > 0 /\ end > Opened.off THEN end ELSE Opened.off
  <2>1. Received = [Opened EXCEPT !.off = off]
    BY DEF Received
  <2>2. frame.len > 0 => end <= Total[Opened.file]
    BY <1>1, <1>2 DEF Fits
  <2>3. off \in Nat /\ off <= Total[Opened.file]
    BY <1>1, <2>2
  <2> QED BY <1>1, <2>1, <2>3
<1>4. /\ DOMAIN Written = Files
      /\ \A f \in Files : Written[f] \in [1..Total[f] -> Files \cup {NoFile}]
  BY <1>1, <1>2 DEF Written
<1> QED BY <1>2, <1>3, <1>4 DEF PdReceives

-----------------------------------------------------------------------------
(* Type correctness *)

LEMMA InitTypes == Init => TypeOK
<1> SUFFICES ASSUME Init PROVE TypeOK
  OBVIOUS
<1>1. CpType
  <2>1. TxType
    BY DEF Init, TxType, Transfers, Active, NoTx
  <2> QED BY <2>1 DEF Init, CpType
<1>2. LineType
  BY DEF Init, LineType
<1>3. PdType
  BY DEF Init, PdType, NoRx, Blank
<1>4. trouble \in 0..MaxTrouble
  BY DEF Init
<1> QED BY <1>1, <1>2, <1>3, <1>4 DEF TypeOK

\* Calls of the application.
LEMMA ApiTypes == TypeOK /\ Api => TypeOK'
<1> SUFFICES ASSUME TypeOK, Api PROVE TypeOK'
  OBVIOUS
<1>1. ASSUME NEW f \in Files, osdp_cp_submit_command(f) PROVE CpType'
  <2>1. tx' = [state |-> "INPROG", file |-> f, off |-> 0, last |-> 0,
               errors |-> 0, cancel |-> FALSE]
    BY <1>1 DEF osdp_cp_submit_command, NoTx
  <2>2. 0 + 0 <= Total[f]
    BY <1>1
  <2>3. TxType'
    BY <1>1, <2>1, <2>2 DEF TxType, Transfers, Active
  <2> QED
    BY <1>1, <2>3 DEF osdp_cp_submit_command, TypeOK, CpType, exchange
<1>2. ASSUME osdp_cp_cancel PROVE CpType'
  BY <1>2 DEF osdp_cp_cancel, TypeOK, CpType, TxType, Transfers, Active, exchange
<1>3. Api => LineType' /\ PdType' /\ trouble' \in 0..MaxTrouble
  BY DEF Api, osdp_cp_submit_command, osdp_cp_cancel, TypeOK, LineType, PdType,
         line, receiver
<1> QED BY <1>1, <1>2, <1>3 DEF Api, TypeOK

\* A new exchange begins, or its packet is built.
CpStarts == CpAborts \/ CpNextChunk

CpBuilds ==
    \/ CpBuildsAbort \/ CpBuildsIdle \/ CpBuildsChunk \/ CpBuildsPing
    \/ CpBuildFails

LEMMA CpStartsTypes == TypeOK /\ CpStarts => TypeOK'
<1> SUFFICES ASSUME TypeOK, CpStarts PROVE TypeOK'
  OBVIOUS
<1>1. CASE CpAborts
  <2>1. Finish("FAILED")
    BY <1>1 DEF CpAborts
  <2> QED
    BY <1>1, <2>1, FinishTypes
    DEF CpAborts, Kick, TypeOK, CpType, LineType, PdType, line, receiver
<1>2. CASE CpNextChunk
  BY <1>2 DEF CpNextChunk, Kick, TypeOK, CpType, TxType, Transfers, Active, LineType, PdType,
              sender, line, receiver
<1> QED BY <1>1, <1>2 DEF CpStarts

LEMMA CpBuildsTypes == TypeOK /\ CpBuilds => TypeOK'
<1> SUFFICES ASSUME TypeOK, CpBuilds PROVE TypeOK'
  OBVIOUS
<1>1. PdType' /\ trouble' \in 0..MaxTrouble /\ online' \in BOOLEAN
  BY DEF CpBuilds, CpBuildsAbort, CpBuildsIdle, CpBuildsChunk, CpBuildsPing,
         CpBuildFails, TypeOK, CpType, PdType, receiver
<1>2. CASE CpBuildsAbort
  <2>1. Send(Abort) /\ Abort \in Frames
    BY <1>2 DEF CpBuildsAbort, Frames
  <2> QED
    BY <1>1, <1>2, <2>1, SendTypes
    DEF CpBuildsAbort, sender, TypeOK, CpType, TxType, Transfers, Active
<1>3. CASE CpBuildsIdle
  <2>1. tx.file \in Files /\ tx.off \in Nat
    BY <1>3 DEF CpBuildsIdle, TypeOK, CpType, TxType, Transfers
  <2>2. Send(Chunk(tx.file, tx.off, 0)) /\ Chunk(tx.file, tx.off, 0) \in Frames
    BY <1>3, <2>1 DEF CpBuildsIdle, Frames, Chunk
  <2>3. TxType'
    BY <1>3, <2>1 DEF CpBuildsIdle, TypeOK, CpType, TxType, Transfers, Active
  <2> QED BY <1>1, <1>3, <2>2, <2>3, SendTypes DEF CpBuildsIdle, TypeOK, CpType
<1>4. CASE CpBuildsChunk
  <2>1. PICK n \in 1..MaxChunk :
            /\ Reads
            /\ tx.off + n <= Total[tx.file]
            /\ tx' = [tx EXCEPT !.state = "INPROG", !.last = n, !.errors = 0]
            /\ Send(Chunk(tx.file, tx.off, n))
            /\ UNCHANGED <<terminal, engine, outcome>>
    BY <1>4 DEF CpBuildsChunk
  <2>2. tx.file \in Files /\ tx.off \in Nat
    BY <2>1 DEF Reads, TypeOK, CpType, TxType, Transfers
  <2>3. Chunk(tx.file, tx.off, n) \in Frames
    BY <2>2 DEF Frames, Chunk
  <2>4. TxType'
    <3>1. tx \in Transfers
      BY DEF TypeOK, CpType, TxType
    <3>2. /\ tx' \in Transfers
          /\ tx'.file = tx.file /\ tx'.off = tx.off /\ tx'.last = n
      <4>1. tx' = [tx EXCEPT !.state = "INPROG", !.last = n, !.errors = 0]
        BY <2>1
      <4>2. n \in Nat
        OBVIOUS
      <4> QED BY <3>1, <4>1, <4>2 DEF Transfers
    <3> QED BY <2>1, <2>2, <3>2 DEF TxType, Transfers
  <2> QED BY <1>1, <2>1, <2>3, <2>4, SendTypes DEF TypeOK, CpType
<1>5. CASE CpBuildsPing
  <2>1. tx.file \in Files /\ tx.off \in Nat
    BY <1>5 DEF CpBuildsPing, Reads, TypeOK, CpType, TxType, Transfers
  <2>2. Send(Chunk(tx.file, tx.off, 0)) /\ Chunk(tx.file, tx.off, 0) \in Frames
    BY <1>5, <2>1 DEF CpBuildsPing, Frames, Chunk
  <2>3. TxType'
    <3>1. tx' = [tx EXCEPT !.state = "WAIT", !.last = 0, !.errors = tx.errors + 1]
      BY <1>5 DEF CpBuildsPing, BusyTx
    <3>2. tx \in Transfers
      BY DEF TypeOK, CpType, TxType, Transfers
    <3>3. tx.off + tx.last <= Total[tx.file]
      BY <1>5 DEF CpBuildsPing, Reads, TypeOK, CpType, TxType, Transfers
    <3>4. /\ tx' \in Transfers
          /\ tx'.file = tx.file /\ tx'.off = tx.off /\ tx'.last = 0
      <4>1. tx.errors + 1 \in Nat
        BY <3>2 DEF Transfers
      <4> QED BY <3>1, <3>2, <4>1 DEF Transfers
    <3>5. tx.off + 0 <= Total[tx.file]
      BY <2>1, <3>2, <3>3 DEF Transfers
    <3> QED BY <2>1, <3>4, <3>5 DEF TxType, Transfers
  <2> QED BY <1>1, <1>5, <2>2, <2>3, SendTypes DEF CpBuildsPing, TypeOK, CpType
<1>6. CASE CpBuildFails
  <2>1. Send(Abort) /\ Abort \in Frames /\ Finish("FAILED")
    BY <1>6 DEF CpBuildFails, Frames
  <2> QED BY <1>1, <2>1, SendTypes, FinishTypes DEF TypeOK, CpType
<1> QED BY <1>2, <1>3, <1>4, <1>5, <1>6 DEF CpBuilds

\* The end of an exchange.
CpTakes ==
    \/ CpStatProgress \/ CpStatFinishing \/ CpStatDone
    \/ CpTakesNak \/ CpTakesAck \/ CpTakesUnexpected

\* Committing the last chunk keeps the offset within the file.
LEMMA CommittedTypes ==
    ASSUME TypeOK, Active
    PROVE  /\ Committed(tx) \in Transfers
           /\ Committed(tx).file = tx.file
           /\ Committed(tx).off + Committed(tx).last <= Total[tx.file]
<1>1. tx \in Transfers /\ tx.off + tx.last <= Total[tx.file]
  BY DEF TypeOK, CpType, TxType
<1>2. tx.off + tx.last \in Nat
  BY <1>1 DEF Transfers
<1>3. Committed(tx) = [tx EXCEPT !.off = tx.off + tx.last, !.last = 0]
  BY DEF Committed
<1>4. \A n \in Nat :
        LET t == [tx EXCEPT !.off = n, !.last = 0]
        IN  t \in Transfers /\ t.file = tx.file /\ t.off = n /\ t.last = 0
  BY <1>1 DEF Transfers
<1>5. /\ Committed(tx) \in Transfers /\ Committed(tx).file = tx.file
      /\ Committed(tx).off = tx.off + tx.last /\ Committed(tx).last = 0
  BY <1>2, <1>3, <1>4
<1>6. Committed(tx).off + Committed(tx).last = tx.off + tx.last
  BY <1>2, <1>5
<1> QED BY <1>1, <1>5, <1>6

LEMMA TakeTypes ==
    ASSUME TypeOK, Take
    PROVE  /\ phy' = "IDLE" /\ again' \in BOOLEAN /\ mislabelled' \in BOOLEAN
           /\ cmdId' \in {"NONE", "FILE", "ABORT"}
           /\ LineType' /\ PdType' /\ trouble' \in 0..MaxTrouble
BY DEF TypeOK, CpType, LineType, PdType, Take, receiver

LEMMA CpTakesTypes == TypeOK /\ CpTakes => TypeOK'
<1> SUFFICES ASSUME TypeOK, CpTakes PROVE TypeOK'
  OBVIOUS
<1>1. Take
  BY DEF CpTakes, CpStatProgress, CpStatFinishing, CpStatDone, Reported,
         CpTakesNak, CpTakesAck, CpTakesUnexpected
<1>2. online' \in BOOLEAN
  BY DEF CpTakes, CpStatProgress, CpStatFinishing, CpStatDone, CpTakesNak,
         CpTakesAck, CpTakesUnexpected, GoOffline, TypeOK, CpType
<1> SUFFICES TxType' /\ terminal' \in BOOLEAN /\ engine' \in Files \cup {NoFile}
             /\ outcome' \in {"NONE", "OK", "FAILED", "ABORTED"}
  BY <1>1, <1>2, TakeTypes DEF TypeOK, CpType
<1>3. CASE CpStatProgress
  <2>1. Active /\ tx' = Committed(tx)
    BY <1>3 DEF CpStatProgress, Reported
  <2>2. TxType'
    BY <2>1, CommittedTypes DEF TypeOK, CpType, TxType
  <2> QED BY <1>3, <2>2 DEF CpStatProgress, TypeOK, CpType
<1>4. CASE CpStatFinishing
  <2>1. Active /\ tx' = [Committed(tx) EXCEPT !.state = "WAIT"]
    BY <1>4 DEF CpStatFinishing, Reported
  <2>2. /\ tx' \in Transfers
        /\ tx'.file = Committed(tx).file
        /\ tx'.off = Committed(tx).off /\ tx'.last = Committed(tx).last
    BY <2>1, CommittedTypes DEF Transfers
  <2>3. TxType'
    BY <2>1, <2>2, CommittedTypes DEF TypeOK, CpType, TxType
  <2> QED BY <1>4, <2>3 DEF CpStatFinishing, TypeOK, CpType
<1>5. CASE CpStatDone
  <2>1. Status(reply) \in {"OK", "FAILED"} /\ Finish(Status(reply))
    BY <1>5 DEF CpStatDone, Status
  <2> QED BY <2>1, FinishTypes
<1>6. CASE CpTakesNak
  BY <1>6, AbortTypes DEF CpTakesNak
<1>7. CASE CpTakesAck
  BY <1>7 DEF CpTakesAck, TypeOK, CpType, TxType, Active, sender
<1>8. CASE CpTakesUnexpected
  BY <1>8, AbortTypes DEF CpTakesUnexpected, GoOffline
<1> QED BY <1>3, <1>4, <1>5, <1>6, <1>7, <1>8 DEF CpTakes

\* An exchange that ends without a reply, and the life of the link.
CpLoses ==
    \/ CpRetries \/ CpGivesUp \/ CpTakesBusy \/ CpLosesLink
    \/ CpFinished \/ CpReturns

LEMMA TroubleTypes ==
    ASSUME TypeOK, NEW kind, Trouble(kind) PROVE trouble' \in 0..MaxTrouble
BY DEF TypeOK, Trouble

LEMMA CpLosesTypes == TypeOK /\ CpLoses => TypeOK'
<1> SUFFICES ASSUME TypeOK, CpLoses PROVE TypeOK'
  OBVIOUS
<1>1. PdType'
  BY DEF CpLoses, CpRetries, CpGivesUp, CpTakesBusy, CpLosesLink, CpFinished,
         CpReturns, receiver, TypeOK, PdType
<1>2. trouble' \in 0..MaxTrouble
  BY TroubleTypes DEF CpLoses, CpRetries, CpGivesUp, CpTakesBusy, CpLosesLink,
                      CpFinished, CpReturns, TypeOK
<1>3. LineType'
  BY DEF CpLoses, CpRetries, CpGivesUp, CpTakesBusy, CpLosesLink, CpFinished,
         CpReturns, line, TypeOK, LineType
<1> SUFFICES CpType'
  BY <1>1, <1>2, <1>3 DEF TypeOK
<1>4. CASE CpRetries
  BY <1>4 DEF CpRetries, sender, TypeOK, CpType, TxType, Active
<1>5. CASE CpGivesUp
  BY <1>5, AbortTypes DEF CpGivesUp, GoOffline, TypeOK, CpType
<1>6. CASE CpTakesBusy
  BY <1>6, AbortTypes DEF CpTakesBusy, TypeOK, CpType
<1>7. CASE CpLosesLink
  BY <1>7, AbortTypes DEF CpLosesLink, GoOffline, exchange, TypeOK, CpType
<1>8. CASE CpFinished
  <2>1. TxType'
    BY <1>8 DEF CpFinished, NoTx, TxType, Transfers, Active
  <2> QED BY <1>8, <2>1 DEF CpFinished, exchange, TypeOK, CpType
<1>9. CASE CpReturns
  BY <1>9 DEF CpReturns, sender, exchange, TypeOK, CpType, TxType, Active
<1> QED BY <1>4, <1>5, <1>6, <1>7, <1>8, <1>9 DEF CpLoses

LEMMA CpStartsOverTypes ==
    ASSUME TypeOK, CpStartsOver, trouble' \in 0..MaxTrouble
    PROVE  TypeOK'
<1>1. TxType'
  BY DEF CpStartsOver, NoTx, TxType, Transfers, Active
<1>2. CpType'
  BY <1>1 DEF CpStartsOver, TypeOK, CpType
<1>3. LineType'
  BY DEF CpStartsOver, LineType
<1>4. PdType'
  BY DEF CpStartsOver, receiver, TypeOK, PdType
<1> QED BY <1>2, <1>3, <1>4 DEF TypeOK

\* The PD.
LEMMA PdTypes == TypeOK /\ (PdRefresh \/ PdLosesCp \/ PdForgets) => TypeOK'
<1> SUFFICES ASSUME TypeOK, PdRefresh \/ PdLosesCp \/ PdForgets PROVE TypeOK'
  OBVIOUS
<1>1. ASSUME NEW r \in Replies, Answer(r), frame.cmd # "NONE", PdType'
      PROVE  TypeOK'
  BY <1>1, AnswerTypes DEF TypeOK
<1>2. CASE PdRepeats
  <2>1. cache.reply \in Replies
    BY <1>2 DEF PdRepeats, Repeat, TypeOK, LineType, NoCache
  <2>2. PdType'
    BY <1>2 DEF PdRepeats, receiver, TypeOK, PdType
  <2> QED BY <1>1, <1>2, <2>1, <2>2 DEF PdRepeats
<1>3. CASE PdAborts
  <2>1. PdType'
    BY <1>3 DEF PdAborts, NoRx, TypeOK, PdType
  <2> QED BY <1>1, <1>3, <2>1 DEF PdAborts, Executes, Replies
<1>4. CASE PdRefuses
  <2>1. PdType'
    BY <1>4 DEF PdRefuses, receiver, TypeOK, PdType
  <2> QED BY <1>1, <1>4, <2>1 DEF PdRefuses, Executes, Replies
<1>5. CASE PdRejects \/ PdWriteFails
  <2>1. /\ Executes("FILE") /\ disk' = Stored /\ approved' = Approved
        /\ rx' \in {NoRx, rx}
    BY <1>5 DEF PdRejects, PdWriteFails
  <2>2. PdType'
    BY <2>1, ReceivedTypes DEF NoRx, TypeOK, PdType
  <2> QED
    BY <1>1, <1>5, <2>2 DEF PdRejects, PdWriteFails, Executes, Replies, Stats
<1>6. ASSUME NEW file \in Files, PdReceives(file),
             rx' = NoRx \/ rx' = Received \/
                 (Received.asks < MaxAsks
                    /\ rx' = [Received EXCEPT !.asks = Received.asks + 1]),
             approved' \in {Approved, Approved \cup {file}}
      PROVE  PdType' /\ frame.cmd # "NONE"
  <2>1. /\ Received \in [file : Files, off : Nat, asks : 0..MaxAsks]
        /\ Received.off <= Total[Received.file]
        /\ DOMAIN disk' = Files
        /\ \A f \in Files : disk'[f] \in [1..Total[f] -> Files \cup {NoFile}]
    BY <1>6, StoringTypes
  <2>2. Executes("FILE")
    BY <1>6 DEF PdReceives
  <2>3. approved' \subseteq Files
    BY <1>6, <2>2, ReceivedTypes
  <2>4. /\ rx' \in [file : Files \cup {NoFile}, off : Nat, asks : 0..MaxAsks]
        /\ rx' # NoRx => rx'.file # NoFile /\ rx'.off <= Total[rx'.file]
    <3>1. CASE rx' = NoRx
      BY <3>1 DEF NoRx
    <3>2. CASE rx' = Received
      BY <2>1, <3>2
    <3>3. CASE /\ Received.asks < MaxAsks
               /\ rx' = [Received EXCEPT !.asks = Received.asks + 1]
      <4>1. Received.asks + 1 \in 0..MaxAsks
        BY <2>1, <3>3
      <4> QED BY <2>1, <3>3, <4>1
    <3> QED BY <1>6, <3>1, <3>2, <3>3
  <2> QED BY <2>1, <2>2, <2>3, <2>4 DEF PdType, Executes
<1>7. CASE PdAccepts
  BY <1>1, <1>6, <1>7 DEF PdAccepts, Replies, Stats
<1>8. CASE PdFinishing
  BY <1>1, <1>6, <1>8 DEF PdFinishing, Replies, Stats
<1>9. CASE PdDecides
  <2>1. PICK stat \in {"PROCESSED", "RESETTING", "REFUSED"} : PdConcludes(stat)
    BY <1>9 DEF PdDecides
  <2>2. stat \in Replies
    BY <2>1 DEF Replies, Stats
  <2> QED BY <1>1, <1>6, <2>1, <2>2 DEF PdConcludes
<1>10. CASE PdLosesCp
  <2>1. trouble' \in 0..MaxTrouble
    BY <1>10, TroubleTypes DEF PdLosesCp, TypeOK
  <2>2. PdType'
    BY <1>10 DEF PdLosesCp, NoRx, TypeOK, PdType
  <2>3. LineType'
    BY <1>10 DEF PdLosesCp, line, TypeOK, LineType
  <2>4. CpType'
    BY <1>10 DEF PdLosesCp, sender, exchange, TypeOK, CpType, TxType, Active
  <2> QED BY <2>1, <2>2, <2>3, <2>4 DEF TypeOK
<1>11. CASE PdForgets
  <2>1. trouble' \in 0..MaxTrouble
    BY <1>11, TroubleTypes DEF PdForgets
  <2>2. PdType' /\ LineType'
    BY <1>11 DEF PdForgets, receiver, TypeOK, PdType, LineType
  <2>3. CpType'
    BY <1>11 DEF PdForgets, sender, exchange, TypeOK, CpType, TxType, Active
  <2> QED BY <2>1, <2>2, <2>3 DEF TypeOK
<1> QED
  BY <1>2, <1>3, <1>4, <1>5, <1>7, <1>8, <1>9, <1>10, <1>11 DEF PdRefresh

\* Next, by the groups above.
LEMMA NextByGroup ==
    Next => Api \/ CpStarts \/ CpBuilds \/ CpTakes \/ CpLoses \/ CpAssertFails
            \/ CpRestarts \/ PdRefresh \/ PdLosesCp \/ PdForgets
BY DEF Next, CpRefresh, Mishap, CpStarts, CpBuilds, CpTakes, CpLoses

LEMMA StepTypes == TypeOK /\ [Next]_vars => TypeOK'
<1> SUFFICES ASSUME TypeOK, [Next]_vars PROVE TypeOK'
  OBVIOUS
<1>1. CASE CpAssertFails \/ CpRestarts
  <2>1. CpStartsOver /\ trouble' \in 0..MaxTrouble
    BY <1>1, TroubleTypes DEF CpAssertFails, CpRestarts, TypeOK
  <2> QED BY <2>1, CpStartsOverTypes
<1>2. CASE UNCHANGED vars
  BY <1>2 DEF vars, sender, exchange, line, receiver, TypeOK, CpType, TxType,
              Active, LineType, PdType
<1> QED
  BY <1>1, <1>2, NextByGroup, ApiTypes, CpStartsTypes, CpBuildsTypes,
     CpTakesTypes, CpLosesTypes, PdTypes

\* Every variable keeps its type; in particular neither end's offset ever passes
\* the end of the file (osdp_mp_tx_commit(), osdp_mp_rx_commit()).
THEOREM TypeCorrect == Spec => []TypeOK
BY InitTypes, StepTypes, PTL DEF Spec

-----------------------------------------------------------------------------
(* The engine and the command it works for *)

\* EngineOwned needs one fact more to be inductive: when the completion callback
\* runs the command has been handed back already.
Owned == EngineOwned /\ (terminal => engine = NoFile)

LEMMA FinishOwned == ASSUME NEW status, Finish(status) PROVE Owned'
BY DEF Finish, Owned, EngineOwned

LEMMA AbortOwned ==
    ASSUME Owned, IF Active THEN Finish("FAILED") ELSE UNCHANGED sender
    PROVE  Owned'
BY FinishOwned DEF Owned, EngineOwned, sender, Active

\* A transfer that goes on keeps its command.
LEMMA GoesOnOwned ==
    ASSUME Owned, UNCHANGED <<terminal, engine>>, tx'.file = tx.file, Active' <=> Active
    PROVE  Owned'
BY DEF Owned, EngineOwned

LEMMA ApiOwned == TypeOK /\ Owned /\ Api => Owned'
<1> SUFFICES ASSUME TypeOK, Owned, Api PROVE Owned'
  OBVIOUS
<1>1. CASE osdp_cp_cancel
  <2>1. tx'.file = tx.file /\ (Active' <=> Active) /\ UNCHANGED <<terminal, engine>>
    BY <1>1 DEF osdp_cp_cancel, TypeOK, CpType, TxType, Transfers, Active
  <2> QED BY <2>1, GoesOnOwned
<1>2. ASSUME NEW f \in Files, osdp_cp_submit_command(f) PROVE Owned'
  BY <1>2 DEF osdp_cp_submit_command, MayStart, NoTx, Owned, EngineOwned, Active
<1> QED BY <1>1, <1>2 DEF Api

LEMMA CpStartsOwned == TypeOK /\ Owned /\ CpStarts => Owned'
<1> SUFFICES ASSUME TypeOK, Owned, CpStarts PROVE Owned'
  OBVIOUS
<1>1. CASE CpAborts
  BY <1>1, FinishOwned DEF CpAborts
<1>2. CASE CpNextChunk
  BY <1>2 DEF CpNextChunk, sender, Owned, EngineOwned, Active
<1> QED BY <1>1, <1>2 DEF CpStarts

LEMMA CpBuildsOwned == TypeOK /\ Owned /\ CpBuilds => Owned'
<1> SUFFICES ASSUME TypeOK, Owned, CpBuilds PROVE Owned'
  OBVIOUS
<1>1. CASE CpBuildFails
  BY <1>1, FinishOwned DEF CpBuildFails
<1>2. CASE CpBuildsAbort
  BY <1>2 DEF CpBuildsAbort, sender, Owned, EngineOwned, Active
<1>3. CASE CpBuildsIdle \/ CpBuildsChunk \/ CpBuildsPing
  <2>1. /\ tx'.file = tx.file
        /\ Active' /\ Active
        /\ UNCHANGED <<terminal, engine>>
    BY <1>3 DEF CpBuildsIdle, CpBuildsChunk, CpBuildsPing, BusyTx, Reads, TypeOK,
                CpType, TxType, Transfers, Active
  <2> QED BY <2>1, GoesOnOwned
<1> QED BY <1>1, <1>2, <1>3 DEF CpBuilds

LEMMA CpTakesOwned == TypeOK /\ Owned /\ CpTakes => Owned'
<1> SUFFICES ASSUME TypeOK, Owned, CpTakes PROVE Owned'
  OBVIOUS
<1>1. CASE CpStatProgress \/ CpStatFinishing
  <2>1. /\ tx'.file = tx.file
        /\ Active' /\ Active
        /\ UNCHANGED <<terminal, engine>>
    BY <1>1 DEF CpStatProgress, CpStatFinishing, Reported, Committed, TypeOK,
                CpType, TxType, Transfers, Active
  <2> QED BY <2>1, GoesOnOwned
<1>2. CASE CpStatDone
  BY <1>2, FinishOwned DEF CpStatDone
<1>3. CASE CpTakesAck
  BY <1>3 DEF CpTakesAck, sender, Owned, EngineOwned, Active
<1>4. CASE CpTakesNak \/ CpTakesUnexpected
  BY <1>4, AbortOwned DEF CpTakesNak, CpTakesUnexpected, GoOffline
<1> QED BY <1>1, <1>2, <1>3, <1>4 DEF CpTakes

LEMMA CpLosesOwned == TypeOK /\ Owned /\ CpLoses => Owned'
<1> SUFFICES ASSUME TypeOK, Owned, CpLoses PROVE Owned'
  OBVIOUS
<1>1. CASE CpRetries \/ CpReturns
  BY <1>1 DEF CpRetries, CpReturns, sender, Owned, EngineOwned, Active
<1>2. CASE CpGivesUp \/ CpTakesBusy \/ CpLosesLink
  BY <1>2, AbortOwned DEF CpGivesUp, CpTakesBusy, CpLosesLink, GoOffline
<1>3. CASE CpFinished
  BY <1>3 DEF CpFinished, NoTx, Owned, EngineOwned, Active
<1> QED BY <1>1, <1>2, <1>3 DEF CpLoses

LEMMA StepOwned == TypeOK /\ Owned /\ [Next]_vars => Owned'
<1> SUFFICES ASSUME TypeOK, Owned, [Next]_vars PROVE Owned'
  OBVIOUS
<1>1. CASE CpAssertFails \/ CpRestarts
  BY <1>1 DEF CpAssertFails, CpRestarts, CpStartsOver, NoTx, Owned, EngineOwned,
              Active
<1>2. CASE PdRefresh \/ PdLosesCp \/ PdForgets \/ UNCHANGED vars
  <2>1. UNCHANGED sender
    BY <1>2 DEF PdRefresh, PdRepeats, PdAborts, PdRefuses, PdRejects,
                PdWriteFails, PdAccepts, PdFinishing, PdDecides, PdConcludes,
                Answer, PdLosesCp, PdForgets, vars
  <2> QED BY <2>1 DEF sender, Owned, EngineOwned, Active
<1> QED
  BY <1>1, <1>2, NextByGroup, ApiOwned, CpStartsOwned, CpBuildsOwned,
     CpTakesOwned, CpLosesOwned

\* The library never holds a submitter's command without a transfer that works
\* for it, nor a transfer whose command has gone (file_transition_done(),
\* in_terminal).
THEOREM TransferIsOwned == Spec => []EngineOwned
<1>1. Init => Owned
  BY DEF Init, NoTx, Owned, EngineOwned, Active
<1>2. Owned => EngineOwned
  BY DEF Owned
<1> QED BY <1>1, <1>2, StepOwned, TypeCorrect, PTL DEF Spec

-----------------------------------------------------------------------------
(* What the PD has stored *)

\* The first frame of a transfer forgets what the file held; what is approved
\* of besides it stays whole.
LEMMA StoredKeeps ==
    ASSUME TypeOK, NothingMissing, Executes("FILE")
    PROVE  /\ \A f \in Approved : \A i \in 1..Total[f] : Stored[f][i] # NoFile
           /\ \A i \in 1..Opened.off : Stored[Opened.file][i] # NoFile
<1>1. CASE Opens
  <2>1. frame.file \in Files /\ DOMAIN disk = Files
    BY ReceivedTypes DEF TypeOK, PdType
  <2>2. Opened.off = 0
    BY <1>1 DEF Opened, NoRx
  <2>3. \A f \in Approved : f \in approved /\ Stored[f] = disk[f]
    BY <1>1, <2>1 DEF TypeOK, PdType, Approved, Stored
  <2> QED BY <2>2, <2>3 DEF NothingMissing
<1>2. CASE ~Opens
  BY <1>2 DEF Opens, Opened, Stored, Approved, NothingMissing
<1> QED BY <1>1, <1>2

\* A frame that fits leaves no hole before the offset it commits.
LEMMA WrittenWhole ==
    ASSUME TypeOK, NothingMissing, NEW file \in Files, PdReceives(file)
    PROVE  /\ \A f \in Approved : \A i \in 1..Total[f] : disk'[f][i] # NoFile
           /\ \A i \in 1..Received.off : disk'[file][i] # NoFile
<1>1. /\ frame \in [cmd : {"FILE"}, file : Files, off : Nat, len : Nat]
      /\ Opened \in [file : Files, off : Nat, asks : 0..MaxAsks]
      /\ DOMAIN Stored = Files
      /\ \A f \in Files : Stored[f] \in [1..Total[f] -> Files \cup {NoFile}]
      /\ Approved \subseteq Files
  BY ReceivedTypes DEF PdReceives
<1>2. /\ Received.file = file /\ Received.off \in Nat
      /\ Received.off <= Total[file]
  BY StoringTypes
<1>3. /\ \A f \in Approved : \A i \in 1..Total[f] : Stored[f][i] # NoFile
      /\ \A i \in 1..Opened.off : Stored[Opened.file][i] # NoFile
  BY StoredKeeps DEF PdReceives
<1>4. /\ Opened.file = file
      /\ Received.off = IF frame.len > 0 /\ frame.off + frame.len > Opened.off
                          THEN frame.off + frame.len ELSE Opened.off
  BY <1>1, <1>2 DEF Received
<1>5. \A f \in Files : \A i \in 1..Total[f] :
        disk'[f][i] = IF f = file /\ i \in frame.off + 1 .. frame.off + frame.len
                        THEN frame.file ELSE Stored[f][i]
  BY <1>1, <1>2 DEF PdReceives, Written
<1>6. frame.file # NoFile
  BY <1>1
<1>7. ASSUME NEW i \in 1..Received.off,
             i \notin frame.off + 1 .. frame.off + frame.len
      PROVE  i \in 1..Opened.off
  <2>1. frame.len > 0 => frame.off <= Opened.off
    BY <1>1 DEF PdReceives, Fits
  <2> QED BY <1>1, <1>2, <1>4, <1>7, <2>1
<1>8. ASSUME NEW i \in 1..Received.off PROVE disk'[file][i] # NoFile
  <2>1. i \in 1..Total[file]
    BY <1>2
  <2> QED BY <1>3, <1>4, <1>5, <1>6, <1>7, <2>1
<1>9. ASSUME NEW f \in Approved, NEW i \in 1..Total[f] PROVE disk'[f][i] # NoFile
  BY <1>1, <1>3, <1>5, <1>6
<1> QED BY <1>8, <1>9

\* What the PD has stored is changed by nothing but the PD.
LEMMA CpKeepsReceiver ==
    ASSUME \/ Api \/ CpStarts \/ CpBuilds \/ CpTakes \/ CpLoses \/ CpAssertFails
           \/ CpRestarts \/ PdForgets \/ UNCHANGED vars
    PROVE  UNCHANGED receiver
BY DEF Api, osdp_cp_submit_command, osdp_cp_cancel, CpStarts, CpAborts,
       CpNextChunk, CpBuilds, CpBuildsAbort, CpBuildsIdle, CpBuildsChunk,
       CpBuildsPing, CpBuildFails, CpTakes, CpStatProgress, CpStatFinishing,
       CpStatDone, Reported, CpTakesNak, CpTakesAck, CpTakesUnexpected, Take,
       CpLoses, CpRetries, CpGivesUp, CpTakesBusy, CpLosesLink, CpFinished,
       CpReturns, CpAssertFails, CpRestarts, CpStartsOver, PdForgets, vars

LEMMA StepMissing == TypeOK /\ NothingMissing /\ [Next]_vars => NothingMissing'
<1> SUFFICES ASSUME TypeOK, NothingMissing, [Next]_vars PROVE NothingMissing'
  OBVIOUS
<1>1. CASE PdRejects \/ PdWriteFails
  <2>1. /\ Executes("FILE") /\ disk' = Stored /\ approved' = Approved
        /\ rx' = NoRx \/ (rx' = rx /\ ~Opens)
    BY <1>1 DEF PdRejects, PdWriteFails
  <2>2. rx' = NoRx \/ disk' = disk
    BY <2>1 DEF Stored
  <2> QED BY <2>1, <2>2, StoredKeeps DEF NothingMissing
<1>2. ASSUME NEW file \in Files, PdReceives(file),
             \/ rx' = Received /\ approved' = Approved
             \/ rx' = [Received EXCEPT !.asks = @ + 1] /\ approved' = Approved
             \/ rx' = NoRx /\ approved' = Approved
             \/ /\ rx' = NoRx /\ Received.off = Total[file]
                /\ approved' = Approved \cup {file}
      PROVE  NothingMissing'
  <2>1. /\ \A f \in Approved : \A i \in 1..Total[f] : disk'[f][i] # NoFile
        /\ \A i \in 1..Received.off : disk'[file][i] # NoFile
    BY <1>2, WrittenWhole
  <2>2. rx' = NoRx \/ (rx'.file = file /\ rx'.off = Received.off)
    BY <1>2, StoringTypes
  <2>3. \A f \in approved' : \A i \in 1..Total[f] : disk'[f][i] # NoFile
    BY <1>2, <2>1
  <2> QED BY <2>1, <2>2, <2>3 DEF NothingMissing
<1>3. CASE PdAccepts
  BY <1>2, <1>3 DEF PdAccepts
<1>4. CASE PdFinishing
  BY <1>2, <1>4 DEF PdFinishing
<1>5. CASE PdDecides
  BY <1>2, <1>5 DEF PdDecides, PdConcludes
<1>6. CASE PdRepeats \/ PdRefuses \/ PdAborts \/ PdLosesCp
  BY <1>6 DEF PdRepeats, PdRefuses, PdAborts, PdLosesCp, receiver, NothingMissing
<1>7. CASE Api \/ CpStarts \/ CpBuilds \/ CpTakes \/ CpLoses \/ CpAssertFails
           \/ CpRestarts \/ PdForgets \/ UNCHANGED vars
  BY <1>7, CpKeepsReceiver DEF receiver, NothingMissing
<1> QED
  BY <1>1, <1>3, <1>4, <1>5, <1>6, <1>7, NextByGroup DEF PdRefresh

\* Up to the offset the PD has committed nothing is missing, nor from a file that
\* finalize() approved of (osdp_mp_rx_consume_ex(), osdp_mp_rx_commit()).
THEOREM NothingIsMissing == Spec => []NothingMissing
<1>1. Init => NothingMissing
  BY DEF Init, NothingMissing
<1> QED BY <1>1, StepMissing, TypeCorrect, PTL DEF Spec

-----------------------------------------------------------------------------
(* What an OK stands for *)

\* The receiver compares the declared size of a frame with that of the transfer
\* it runs, and never the file's id.  A transfer that was given up is therefore
\* told from the next one only if the files differ in size.
DistinctSizes == \A f, g \in Files : Total[f] = Total[g] => f = g

\* The file holds nothing that came from another.
Unmixed == \A f \in Files : \A i \in 1..Total[f] : disk[f][i] \in {NoFile, f}

\* The exchange is about a chunk of the running transfer, and about nothing else.
Plain == phy # "IDLE" /\ cmdId = "FILE" /\ ~mislabelled

\* A transfer does not end under the exchange that serves it, and none runs
\* while its callback does.
OneTransfer == (Plain => Active) /\ (Active => ~terminal)

\* The line carries one thing at a time, and only while the CP waits for it.
OneOnTheLine ==
    /\ frame # NoFrame => phy = "REPLY" /\ reply = "NONE"
    /\ reply # "NONE" => phy = "REPLY"

OwnFrame == frame.cmd = "FILE" /\ ~mislabelled => cmdId = "FILE" /\ frame.file = tx.file

Success == {"PROCESSED", "RESETTING"}

\* The cached reply is one to a packet of this exchange.
OfThisExchange == phy = "REPLY" \/ again

\* A file of this size is approved of.
Approves(f) == \E g \in approved : Total[g] = Total[f]

\* A verdict that reaches the CP is one about what it sends, and finalize() has
\* not been overruled since: a chunk that comes again after the file was closed
\* opens it anew, and its reply takes the place of the verdict.
OwnVerdict ==
    Plain => /\ reply \in Success => Approves(tx.file)
             /\ OfThisExchange /\ cache.reply \in Success => Approves(tx.file)

Attributed == OneTransfer /\ OneOnTheLine /\ OwnFrame /\ OwnVerdict

\* A frame that fits is of the size of the file that is open ...
LEMMA FitsItsSize ==
    ASSUME TypeOK, NEW file \in Files, PdReceives(file)
    PROVE  frame.file \in Files /\ Total[file] = Total[frame.file]
<1>1. /\ frame \in [cmd : {"FILE"}, file : Files, off : Nat, len : Nat]
      /\ Opened \in [file : Files, off : Nat, asks : 0..MaxAsks]
  BY ReceivedTypes DEF PdReceives
<1>2. Received.file = Opened.file
  BY <1>1 DEF Received
<1> QED BY <1>1, <1>2 DEF PdReceives, Fits

\* ... and of that file, where sizes tell.
LEMMA FitsItsFile ==
    ASSUME DistinctSizes, TypeOK, NEW file \in Files, PdReceives(file)
    PROVE  file = frame.file
BY FitsItsSize DEF DistinctSizes

LEMMA StoredUnmixed ==
    ASSUME TypeOK, Unmixed, Executes("FILE")
    PROVE  \A f \in Files : \A i \in 1..Total[f] : Stored[f][i] \in {NoFile, f}
<1>1. frame.file \in Files /\ DOMAIN disk = Files
  BY ReceivedTypes DEF TypeOK, PdType
<1>2. \A i \in 1..Total[frame.file] : Blank(frame.file)[i] = NoFile
  BY DEF Blank
<1> QED BY <1>1, <1>2 DEF Unmixed, Stored, TypeOK, PdType

LEMMA StepUnmixed ==
    ASSUME DistinctSizes PROVE TypeOK /\ Unmixed /\ [Next]_vars => Unmixed'
<1> SUFFICES ASSUME TypeOK, Unmixed, [Next]_vars PROVE Unmixed'
  OBVIOUS
<1>1. CASE PdRejects \/ PdWriteFails
  BY <1>1, StoredUnmixed DEF PdRejects, PdWriteFails, Unmixed
<1>2. ASSUME NEW file \in Files, PdReceives(file) PROVE Unmixed'
  <2>1. file = frame.file
    BY <1>2, FitsItsFile
  <2>2. /\ frame \in [cmd : {"FILE"}, file : Files, off : Nat, len : Nat]
        /\ DOMAIN Stored = Files
        /\ \A f \in Files : Stored[f] \in [1..Total[f] -> Files \cup {NoFile}]
        /\ \A f \in Files : \A i \in 1..Total[f] : Stored[f][i] \in {NoFile, f}
    BY <1>2, ReceivedTypes, StoredUnmixed DEF PdReceives
  <2>3. \A f \in Files : \A i \in 1..Total[f] :
          disk'[f][i] = IF f = file /\ i \in frame.off + 1 .. frame.off + frame.len
                          THEN frame.file ELSE Stored[f][i]
    BY <1>2, <2>2 DEF PdReceives, Written
  <2> QED BY <2>1, <2>2, <2>3 DEF Unmixed
<1>3. CASE PdAccepts \/ PdFinishing \/ PdDecides
  BY <1>2, <1>3 DEF PdAccepts, PdFinishing, PdDecides, PdConcludes
<1>4. CASE PdRepeats \/ PdRefuses \/ PdAborts \/ PdLosesCp
  BY <1>4 DEF PdRepeats, PdRefuses, PdAborts, PdLosesCp, receiver, Unmixed
<1>5. CASE Api \/ CpStarts \/ CpBuilds \/ CpTakes \/ CpLoses \/ CpAssertFails
           \/ CpRestarts \/ PdForgets \/ UNCHANGED vars
  BY <1>5, CpKeepsReceiver DEF receiver, Unmixed
<1> QED BY <1>1, <1>3, <1>4, <1>5, NextByGroup DEF PdRefresh

\* Who is served, and by what: the steps of the CP.
LEMMA ApiAttributed == TypeOK /\ Attributed /\ Api => Attributed'
<1> SUFFICES ASSUME TypeOK, Attributed, Api PROVE Attributed'
  OBVIOUS
<1>1. UNCHANGED <<exchange, line, receiver, terminal>>
  BY DEF Api, osdp_cp_submit_command, osdp_cp_cancel
<1>2. CASE osdp_cp_cancel
  <2>1. tx'.file = tx.file /\ (Active' <=> Active)
    BY <1>2 DEF osdp_cp_cancel, TypeOK, CpType, TxType, Transfers, Active
  <2> QED
    BY <1>1, <2>1 DEF exchange, line, receiver, Attributed, OneTransfer, Plain,
       OneOnTheLine, OwnFrame, OwnVerdict, Approves, OfThisExchange
<1>3. ASSUME NEW f \in Files, osdp_cp_submit_command(f) PROVE Attributed'
  <2>1. ~Active /\ ~terminal
    BY <1>3 DEF osdp_cp_submit_command, MayStart
  <2>2. ~Plain /\ ~(frame.cmd = "FILE" /\ ~mislabelled)
    BY <2>1 DEF Attributed, OneTransfer, Plain, OneOnTheLine, OwnFrame, NoFrame
  <2> QED
    BY <1>1, <2>1, <2>2 DEF exchange, line, receiver, Attributed, OneTransfer,
       Plain, OneOnTheLine, OwnFrame, OwnVerdict
<1> QED BY <1>2, <1>3 DEF Api

LEMMA FinishEnds == ASSUME NEW status, TypeOK, Finish(status) PROVE ~Active'
BY DEF Finish, Active, TypeOK, CpType, TxType, Transfers

LEMMA AbortEnds ==
    ASSUME TypeOK, IF Active THEN Finish("FAILED") ELSE UNCHANGED sender
    PROVE  ~Active'
BY FinishEnds DEF sender, Active

LEMMA CpStartsAttributed == TypeOK /\ Attributed /\ CpStarts => Attributed'
<1> SUFFICES ASSUME TypeOK, Attributed, CpStarts PROVE Attributed'
  OBVIOUS
<1>1. /\ phy = "IDLE" /\ phy' = "SEND" /\ again' = FALSE
      /\ UNCHANGED <<line, receiver>>
  BY DEF CpStarts, CpAborts, CpNextChunk, Idle, Kick
<1>2. frame' = NoFrame /\ reply' = "NONE"
  BY <1>1 DEF line, Attributed, OneOnTheLine
<1>3. (OneOnTheLine /\ OwnFrame /\ OwnVerdict)'
  BY <1>1, <1>2 DEF OneOnTheLine, OwnFrame, OwnVerdict, OfThisExchange, Success,
                    NoFrame
<1>4. OneTransfer'
  <2>1. CASE CpAborts
    BY <2>1, FinishEnds DEF CpAborts, Kick, OneTransfer, Plain
  <2>2. CASE CpNextChunk
    BY <2>2 DEF CpNextChunk, sender, Active, OneTransfer, Attributed
  <2> QED BY <2>1, <2>2 DEF CpStarts
<1> QED BY <1>3, <1>4 DEF Attributed

LEMMA SendAttributed ==
    ASSUME Attributed, NEW f, Send(f), phy = "SEND", UNCHANGED approved,
           tx'.file = tx.file, Active' <=> Active, UNCHANGED terminal,
           f.cmd = "FILE" => f.file = tx.file
    PROVE  Attributed'
<1>1. /\ phy' = "REPLY" /\ frame' = f /\ reply' = "NONE"
      /\ cache' = IF again THEN cache ELSE NoCache
      /\ mislabelled' = (mislabelled \/ f.cmd # cmdId)
      /\ UNCHANGED <<again, cmdId>>
  BY DEF Send
<1>2. Plain' => Plain
  BY <1>1 DEF Plain
<1>3. OneTransfer'
  BY <1>2 DEF OneTransfer, Attributed
<1>4. OneOnTheLine' /\ OwnFrame'
  BY <1>1 DEF OneOnTheLine, OwnFrame
<1>5. OwnVerdict'
  BY <1>1, <1>2 DEF OwnVerdict, Approves, OfThisExchange, Attributed, Success,
                    NoCache
<1> QED BY <1>3, <1>4, <1>5 DEF Attributed

LEMMA CpBuildsAttributed == TypeOK /\ Attributed /\ CpBuilds => Attributed'
<1> SUFFICES ASSUME TypeOK, Attributed, CpBuilds PROVE Attributed'
  OBVIOUS
<1>1. CASE CpBuildFails
  <2>1. /\ phy' = "REPLY" /\ frame' = Abort /\ reply' = "NONE"
        /\ mislabelled' = TRUE
    BY <1>1 DEF CpBuildFails, Reads, Building, Send, Abort
  <2>2. ~Active'
    BY <1>1, FinishEnds DEF CpBuildFails
  <2> QED
    BY <2>1, <2>2 DEF Attributed, OneTransfer, OneOnTheLine, OwnFrame, OwnVerdict,
                      Plain
<1>2. CASE CpBuildsAbort
  <2>1. /\ Send(Abort) /\ phy = "SEND"
        /\ UNCHANGED <<tx, terminal, approved>>
    BY <1>2 DEF CpBuildsAbort, Building, sender, receiver
  <2>2. tx'.file = tx.file /\ (Active' <=> Active)
    BY <2>1 DEF Active
  <2>3. Abort.cmd # "FILE"
    BY DEF Abort
  <2> QED BY <2>1, <2>2, <2>3, SendAttributed
<1>3. CASE CpBuildsIdle \/ CpBuildsChunk \/ CpBuildsPing
  <2>1. PICK n \in Nat : Send(Chunk(tx.file, tx.off, n))
    <3>1. CASE CpBuildsChunk
      <4>1. PICK n \in 1..MaxChunk : Send(Chunk(tx.file, tx.off, n))
        BY <3>1 DEF CpBuildsChunk
      <4> QED BY <4>1
    <3>2. CASE CpBuildsIdle \/ CpBuildsPing
      <4>1. Send(Chunk(tx.file, tx.off, 0))
        BY <3>2 DEF CpBuildsIdle, CpBuildsPing
      <4> QED BY <4>1
    <3> QED BY <1>3, <3>1, <3>2
  <2>2. /\ tx'.file = tx.file /\ Active' /\ Active
        /\ UNCHANGED <<terminal, approved>> /\ phy = "SEND"
    BY <1>3 DEF CpBuildsIdle, CpBuildsChunk, CpBuildsPing, BusyTx, Reads, Building,
                receiver, TypeOK, CpType, TxType, Transfers, Active
  <2>3. Chunk(tx.file, tx.off, n).file = tx.file
    BY DEF Chunk
  <2> QED BY <2>1, <2>2, <2>3, SendAttributed
<1> QED BY <1>1, <1>2, <1>3 DEF CpBuilds

\* An exchange that is over leaves nothing behind.
LEMMA QuietAttributed ==
    ASSUME phy' = "IDLE", frame' = NoFrame, reply' = "NONE", (Active => ~terminal)'
    PROVE  Attributed'
BY DEF Attributed, OneTransfer, OneOnTheLine, OwnFrame, OwnVerdict, Plain, NoFrame

LEMMA CpTakesAttributed == TypeOK /\ Attributed /\ CpTakes => Attributed'
<1> SUFFICES ASSUME TypeOK, Attributed, CpTakes PROVE Attributed'
  OBVIOUS
<1>1. Take
  BY DEF CpTakes, CpStatProgress, CpStatFinishing, CpStatDone, Reported, CpTakesNak,
         CpTakesAck, CpTakesUnexpected
<1>2. phy' = "IDLE" /\ frame' = NoFrame /\ reply' = "NONE" /\ ~terminal
  BY <1>1 DEF Take, Waiting, Attributed, OneOnTheLine
<1>3. (Active => ~terminal)'
  <2>1. CASE CpStatProgress \/ CpStatFinishing \/ CpTakesAck
    BY <1>2, <2>1 DEF CpStatProgress, CpStatFinishing, CpTakesAck, sender
  <2>2. CASE CpStatDone
    BY <2>2, FinishEnds DEF CpStatDone
  <2>3. CASE CpTakesNak \/ CpTakesUnexpected
    BY <2>3, AbortEnds DEF CpTakesNak, CpTakesUnexpected, GoOffline
  <2> QED BY <2>1, <2>2, <2>3 DEF CpTakes
<1> QED BY <1>2, <1>3, QuietAttributed

LEMMA CpLosesAttributed == TypeOK /\ Attributed /\ CpLoses => Attributed'
<1> SUFFICES ASSUME TypeOK, Attributed, CpLoses PROVE Attributed'
  OBVIOUS
<1>1. CASE CpRetries
  <2>1. /\ phy = "REPLY" /\ phy' = "SEND" /\ frame' = NoFrame /\ reply' = "NONE"
        /\ UNCHANGED <<sender, cmdId, mislabelled, cache, approved>>
    BY <1>1 DEF CpRetries, Waiting, receiver
  <2> QED
    BY <2>1 DEF Attributed, OneTransfer, OneOnTheLine, OwnFrame, OwnVerdict,
                Approves, Plain, OfThisExchange, Success, sender, Active, NoFrame
<1>2. CASE CpGivesUp \/ CpTakesBusy
  BY <1>2, AbortEnds, QuietAttributed DEF CpGivesUp, CpTakesBusy, GoOffline
<1>3. CASE CpLosesLink
  BY <1>3, AbortEnds, QuietAttributed DEF CpLosesLink, GoOffline, Idle, exchange,
     line, Attributed, OneOnTheLine
<1>4. CASE CpReturns
  BY <1>4, QuietAttributed DEF CpReturns, sender, exchange, line, Attributed,
     OneTransfer, OneOnTheLine, Active
<1>5. CASE CpFinished
  <2>1. ~Active /\ ~Active'
    BY <1>5 DEF CpFinished, NoTx, Active, Attributed, OneTransfer
  <2>2. ~Plain /\ ~(frame.cmd = "FILE" /\ ~mislabelled)
    BY <2>1 DEF Attributed, OneTransfer, Plain, OneOnTheLine, OwnFrame, NoFrame
  <2> QED
    BY <1>5, <2>1, <2>2 DEF CpFinished, exchange, line, Attributed, OneTransfer,
       OneOnTheLine, OwnFrame, OwnVerdict, Plain
<1> QED BY <1>1, <1>2, <1>3, <1>4, <1>5 DEF CpLoses

\* A reply of the PD: a success has to be a verdict about the file sent.
LEMMA AnswerAttributed ==
    ASSUME Attributed, NEW r, Answer(r), frame.cmd # "NONE", r # "NONE",
           Plain /\ r \in Success => Approves(tx.file)'
    PROVE  Attributed'
<1>1. phy = "REPLY"
  BY DEF Attributed, OneOnTheLine, NoFrame
<1>2. /\ frame' = NoFrame /\ reply' = r /\ cache'.reply = r
      /\ UNCHANGED <<sender, exchange>>
  BY DEF Answer
<1> QED
  BY <1>1, <1>2 DEF Attributed, OneTransfer, OneOnTheLine, OwnFrame, OwnVerdict,
     Plain, sender, exchange, Active, NoFrame

LEMMA PdAttributed ==
    TypeOK /\ Attributed /\ (PdRefresh \/ PdLosesCp \/ PdForgets) => Attributed'
<1> SUFFICES ASSUME TypeOK, Attributed, PdRefresh \/ PdLosesCp \/ PdForgets
             PROVE  Attributed'
  OBVIOUS
<1>1. CASE PdRepeats
  <2>1. frame.cmd # "NONE" /\ Answer(cache.reply) /\ UNCHANGED approved
    BY <1>1 DEF PdRepeats, receiver
  <2>2. cache.reply # "NONE"
    BY <1>1 DEF PdRepeats, Repeat, TypeOK, LineType, NoCache, Replies, Stats
  <2>3. Plain /\ cache.reply \in Success => Approves(tx.file)'
    BY <2>1 DEF Approves, Answer, sender, Attributed, OneOnTheLine, OwnVerdict,
                OfThisExchange, NoFrame
  <2> QED BY <2>1, <2>2, <2>3, AnswerAttributed
<1>2. CASE PdAborts
  BY <1>2, AnswerAttributed DEF PdAborts, Executes, Success
<1>3. CASE PdRefuses \/ PdRejects
  BY <1>3, AnswerAttributed DEF PdRefuses, PdRejects, Executes, Success
<1>4. CASE PdWriteFails
  BY <1>4, AnswerAttributed DEF PdWriteFails, Executes, Success
<1>5. CASE PdAccepts \/ PdFinishing
  <2>1. Executes("FILE") /\ (Answer("PROCEED") \/ Answer("FINISHING"))
    BY <1>5 DEF PdAccepts, PdFinishing, PdReceives
  <2> QED BY <2>1, AnswerAttributed DEF Executes, Success
<1>6. CASE PdDecides
  <2>1. PICK stat \in {"PROCESSED", "RESETTING", "REFUSED"} : PdConcludes(stat)
    BY <1>6 DEF PdDecides
  <2>2. PICK file \in Files :
          /\ PdReceives(file)
          /\ approved' = IF stat = "REFUSED" THEN Approved ELSE Approved \cup {file}
          /\ Answer(stat)
    BY <2>1 DEF PdConcludes
  <2>3. Total[file] = Total[frame.file] /\ frame.cmd = "FILE"
    BY <2>2, FitsItsSize DEF PdReceives, Executes
  <2>4. Plain /\ stat \in Success => Approves(tx.file)'
    <3>1. ASSUME Plain, stat \in Success
          PROVE  file \in approved' /\ Total[file] = Total[tx'.file]
      BY <2>2, <2>3, <3>1 DEF Answer, sender, Attributed, OwnFrame, Plain, Success
    <3> QED BY <3>1 DEF Approves
  <2> QED BY <2>1, <2>2, <2>3, <2>4, AnswerAttributed
<1>7. CASE PdLosesCp \/ PdForgets
  <2>1. /\ UNCHANGED <<sender, exchange, frame, reply, approved>>
        /\ cache' \in {cache, NoCache}
    BY <1>7 DEF PdLosesCp, PdForgets, line, receiver
  <2>2. NoCache.reply \notin Success
    BY DEF NoCache, Success
  <2> QED
    BY <2>1, <2>2 DEF Attributed, OneTransfer, OneOnTheLine, OwnFrame, OwnVerdict,
       Approves, OfThisExchange, Plain, sender, exchange, Active
<1> QED BY <1>1, <1>2, <1>3, <1>4, <1>5, <1>6, <1>7 DEF PdRefresh

LEMMA StepAttributed == TypeOK /\ Attributed /\ [Next]_vars => Attributed'
<1> SUFFICES ASSUME TypeOK, Attributed, [Next]_vars PROVE Attributed'
  OBVIOUS
<1>1. CASE CpAssertFails \/ CpRestarts
  BY <1>1, QuietAttributed DEF CpAssertFails, CpRestarts, CpStartsOver
<1>2. CASE UNCHANGED vars
  BY <1>2 DEF vars, sender, exchange, line, receiver, Attributed, OneTransfer,
     OneOnTheLine, OwnFrame, OwnVerdict, Approves, OfThisExchange, Plain, Active
<1> QED
  BY <1>1, <1>2, NextByGroup, ApiAttributed, CpStartsAttributed,
     CpBuildsAttributed, CpTakesAttributed, CpLosesAttributed, PdAttributed

\* A success takes a report of one.
LEMMA OkByReport ==
    ASSUME [Next]_vars, engine # NoFile, engine' = NoFile, outcome' = "OK"
    PROVE  CpStatDone
<1>1. ASSUME IF Active THEN Finish("FAILED") ELSE UNCHANGED sender PROVE FALSE
  BY <1>1 DEF Finish, sender
<1>2. ~CpTakesNak /\ ~CpTakesUnexpected /\ ~CpGivesUp /\ ~CpTakesBusy /\ ~CpLosesLink
  BY <1>1 DEF CpTakesNak, CpTakesUnexpected, CpGivesUp, CpTakesBusy, CpLosesLink,
              GoOffline
<1>3. ~CpAborts /\ ~CpBuildFails
  BY DEF CpAborts, CpBuildFails, Finish
<1>4. ~CpAssertFails /\ ~CpRestarts
  BY DEF CpAssertFails, CpRestarts, CpStartsOver
<1>5. ~Api
  BY FileAssumption DEF Api, osdp_cp_submit_command, osdp_cp_cancel
<1>6. ~PdRefresh /\ ~PdLosesCp /\ ~PdForgets /\ ~UNCHANGED vars
  BY DEF PdRefresh, PdRepeats, PdAborts, PdRefuses, PdRejects, PdWriteFails,
         PdAccepts, PdFinishing, PdDecides, PdConcludes, Answer, PdLosesCp,
         PdForgets, vars, sender
<1>7. ~CpNextChunk /\ ~CpBuildsAbort /\ ~CpBuildsIdle /\ ~CpBuildsChunk
      /\ ~CpBuildsPing
  BY DEF CpNextChunk, CpBuildsAbort, CpBuildsIdle, CpBuildsChunk, CpBuildsPing,
         sender
<1>8. /\ ~CpStatProgress /\ ~CpStatFinishing /\ ~CpTakesAck /\ ~CpRetries
      /\ ~CpFinished /\ ~CpReturns
  BY DEF CpStatProgress, CpStatFinishing, CpTakesAck, CpRetries, CpFinished,
         CpReturns, sender
<1> QED
  BY <1>2, <1>3, <1>4, <1>5, <1>6, <1>7, <1>8, NextByGroup DEF CpStarts, CpBuilds,
     CpTakes, CpLoses

\* What the sender of a transfer that came back OK may rely on.
LEMMA OkStep ==
    ASSUME TypeOK, EngineOwned, NothingMissing, Attributed, [Next]_vars,
           engine # NoFile, engine' = NoFile, outcome' = "OK", ~mislabelled
    PROVE  /\ engine \in Files
           /\ \E f \in approved : /\ Total[f] = Total[engine]
                                  /\ \A i \in 1..Total[f] : disk[f][i] # NoFile
<1>1. CpStatDone
  BY OkByReport
<1>2. /\ phy = "REPLY" /\ ~terminal /\ cmdId = "FILE" /\ reply \in Stats
      /\ Status(reply) = "OK"
  BY <1>1 DEF CpStatDone, Reported, Take, Waiting, Finish
<1>3. reply \in Success
  BY <1>2 DEF Status, Success
<1>4. engine = tx.file /\ Approves(engine)
  BY <1>2, <1>3 DEF EngineOwned, Attributed, OwnVerdict, Plain
<1> QED BY <1>4 DEF Approves, NothingMissing, TypeOK, CpType

LEMMA InitAttributed == Init => Attributed
BY QuietAttributed DEF Init, NoTx, Active, Attributed, OneTransfer, OneOnTheLine,
   OwnFrame, OwnVerdict, Plain, NoFrame

\* What OK stands for whatever the sizes: some file of that size was approved of
\* and has no holes.
OkMeansBacked ==
    [][engine # NoFile /\ engine' = NoFile /\ outcome' = "OK" /\ ~mislabelled
        => \E f \in approved : /\ Total[f] = Total[engine]
                               /\ \A i \in 1..Total[f] : disk[f][i] # NoFile]_vars

\* A transfer never comes back OK on the word of a PD that has not got all the
\* bytes of a file of the size that was sent, or whose finalize() refused it,
\* also where another transfer was left open (osdp_file_cmd_stat_decode()).
THEOREM OkIsBacked == Spec => OkMeansBacked
<1>1. TypeOK /\ EngineOwned /\ NothingMissing /\ Attributed /\ [Next]_vars
        => [engine # NoFile /\ engine' = NoFile /\ outcome' = "OK" /\ ~mislabelled
              => \E f \in approved : /\ Total[f] = Total[engine]
                                     /\ \A i \in 1..Total[f] : disk[f][i] # NoFile]_vars
  BY OkStep
<1> QED
  BY <1>1, InitAttributed, StepAttributed, TypeCorrect, TransferIsOwned,
     NothingIsMissing, PTL DEF Spec, OkMeansBacked

\* Where no two of the agreed files have one size, a transfer that comes back with
\* OSDP_COMPLETION_OK is one the PD's application approved of and has stored to
\* the last byte, and no byte of it came from another file: whatever was lost,
\* repeated, read again in other lengths, given up or started over on the way
\* (osdp_file_cmd_stat_decode(), osdp_file_cmd_tx_decode()).
THEOREM OkIsStored == ASSUME DistinctSizes PROVE Spec => OkMeansStored
<1>1. Init => Unmixed
  BY DEF Init, Unmixed, Blank
<1>2. TypeOK /\ Unmixed /\ [Next]_vars => Unmixed'
  BY StepUnmixed
<1>3. ASSUME TypeOK, EngineOwned, NothingMissing, Unmixed, Attributed, [Next]_vars,
             engine # NoFile, engine' = NoFile, outcome' = "OK", ~mislabelled
      PROVE  engine \in approved /\ Whole(engine)
  <2>1. PICK f \in approved : /\ engine \in Files /\ Total[f] = Total[engine]
                              /\ \A i \in 1..Total[f] : disk[f][i] # NoFile
    BY <1>3, OkStep
  <2>2. f = engine
    BY <1>3, <2>1 DEF DistinctSizes, TypeOK, PdType
  <2> QED BY <1>3, <2>1, <2>2 DEF Unmixed, Whole
<1>4. TypeOK /\ EngineOwned /\ NothingMissing /\ Unmixed /\ Attributed /\ [Next]_vars
        => [engine # NoFile /\ engine' = NoFile /\ outcome' = "OK" /\ ~mislabelled
              => engine \in approved /\ Whole(engine)]_vars
  BY <1>3
<1> QED
  BY <1>1, <1>2, <1>4, InitAttributed, StepAttributed, TypeCorrect, TransferIsOwned,
     NothingIsMissing, PTL DEF Spec, OkMeansStored

=============================================================================
