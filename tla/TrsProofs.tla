------------------------------ MODULE TrsProofs ------------------------------
(* Theorems about Trs, for any commands, any calls made from callbacks and any
   number of troubles.                                                       *)
EXTENDS Trs, SequenceTheorems, TLAPS

-----------------------------------------------------------------------------
(* Types *)

Outside == {"INIT", "OFFLINE", "DISABLED"}

\* What a session step decides: osdp_trs_state_update() and _err().
StepType == [step : Steps, failed : BOOLEAN, scan : ScanType]

\* A session step leaves the scan's record alone but for the question.
LEMMA StepDecides ==
  ASSUME TypeOK, NEW at \in {Advanced, AdvancedOnError}
  PROVE  /\ at \in StepType
         /\ at.scan.asking => scan.asking
         /\ at.step \in {"SET_MODE", "XMIT"} => session.step \in {"SET_MODE", "XMIT"}
<1>1. CASE at = Advanced
  <2>1. CASE session.step = "SET_MODE"
    BY <1>1, <2>1 DEF Advanced, TypeOK, SessionOK, StepType, Steps, ScanType, SessionType
  <2>2. CASE session.step = "XMIT"
    BY <1>1, <2>2 DEF Advanced, TypeOK, SessionOK, StepType, Steps, ScanType, SessionType
  <2>3. CASE session.step = "DISCONNECT_CARD"
    BY <1>1, <2>3 DEF Advanced, TypeOK, SessionOK, StepType, Steps, ScanType, SessionType
  <2>4. CASE session.step \in {"TEARDOWN", "DONE"}
    BY <1>1, <2>4 DEF Advanced, TypeOK, SessionOK, StepType, Steps, ScanType, SessionType
  <2> QED
    BY <2>1, <2>2, <2>3, <2>4 DEF TypeOK, SessionOK, SessionType, Steps
<1>2. CASE at = AdvancedOnError
  BY <1>2 DEF AdvancedOnError, AfterError, TypeOK, SessionOK, StepType, Steps, ScanType, SessionType
<1> QED
  BY <1>1, <1>2

\* A reply to anything on the wire is a reply id.
LEMMA RepliesAreIds == Accepts(cmd) \subseteq ReplyIds /\ Declines(cmd) \subseteq ReplyIds
<1>1. Accepts(cmd) \subseteq ReplyIds
  <2>1. CASE cmd \in {"SET01", "SET00"}
    BY <2>1 DEF Accepts, ReplyIds
  <2>2. CASE cmd = "TERMINATE"
    BY <2>2 DEF Accepts, ReplyIds
  <2>3. CASE cmd = "CARD"
    BY <2>3 DEF Accepts, ReplyIds, Xrd
  <2>4. CASE cmd = "ASK"
    BY <2>4 DEF Accepts, ReplyIds, Xrd
  <2>5. CASE cmd = "POLL"
    BY <2>5 DEF Accepts, AppReply, ReplyIds, Xrd
  <2>6. CASE cmd = "OTHER"
    BY <2>6 DEF Accepts, ReplyIds
  <2>7. CASE cmd \notin {"SET01", "SET00", "TERMINATE", "CARD", "ASK", "POLL", "OTHER"}
    BY <2>7 DEF Accepts
  <2> QED
    BY <2>1, <2>2, <2>3, <2>4, <2>5, <2>6, <2>7
<1>2. Declines(cmd) \subseteq ReplyIds
  BY DEF Declines, ModeReport, ReplyIds, Xrd
<1> QED
  BY <1>1, <1>2

\* What state_update() makes of an exchange: a step of the session, its end, a
\* pass of ONLINE, or a way out of both.
Decided == IF Failed THEN AdvancedOnError ELSE Advanced

LEMMA SettleCases ==
  ASSUME Settle
  PROVE  /\ request' = {} /\ reply' = "SILENCE"
         /\ UNCHANGED <<act, owner, reader, trouble>>
         /\ \/ InTrs /\ Decided.step # "DONE" /\ EnterRun(Decided) /\ stuck' = stuck
            \/ /\ InTrs /\ Decided.step = "DONE" /\ EnterOnline(Decided)
               /\ stuck' = (session.step = "TEARDOWN" /\ Failed)
            \/ /\ ~InTrs /\ Resume /\ stuck' = stuck
               /\ UNCHANGED <<state, session, flag, scan, over, bandOpen,
                              queue, drain, muddled>>
            \/ stuck' = stuck /\ \E n \in Outside : Leave(n)
<1> DEFINE n == CASE "LINK_RESET" \in request -> "OFFLINE"
                  [] "LINK_RESET" \notin request /\ InTrs ->
                        IF Decided.step = "DONE" THEN "ONLINE" ELSE "TRS_RUN"
                  [] OTHER -> IF Failed THEN "OFFLINE" ELSE "ONLINE"
<1> DEFINE m == Override(n)
<1>1. /\ CASE m = "TRS_RUN" -> EnterRun(Decided)
           [] m = "ONLINE" /\ InTrs -> EnterOnline(Decided)
           [] m = "ONLINE" /\ ~InTrs ->
                 Resume /\ UNCHANGED <<state, session, flag, scan, over,
                                       bandOpen, queue, drain, muddled>>
           [] OTHER -> Leave(m)
      /\ stuck' = IF m = "ONLINE" /\ InTrs
                  THEN session.step = "TEARDOWN" /\ Failed ELSE stuck
      /\ request' = {} /\ reply' = "SILENCE"
      /\ UNCHANGED <<act, owner, reader, trouble>>
  BY DEF Settle, Decided
<1>2. n \in {"OFFLINE", "ONLINE", "TRS_RUN"}
  <2>1. CASE "LINK_RESET" \in request
    BY <2>1
  <2>2. CASE "LINK_RESET" \notin request /\ InTrs
    BY <2>2
  <2>3. CASE "LINK_RESET" \notin request /\ ~InTrs
    BY <2>3
  <2> QED
    BY <2>1, <2>2, <2>3
<1>3. n = "TRS_RUN" => InTrs /\ Decided.step # "DONE"
  <2>1. CASE "LINK_RESET" \in request
    BY <2>1
  <2>2. CASE "LINK_RESET" \notin request /\ InTrs
    BY <2>2
  <2>3. CASE "LINK_RESET" \notin request /\ ~InTrs
    BY <2>3
  <2> QED
    BY <2>1, <2>2, <2>3
<1>4. n = "ONLINE" /\ InTrs => Decided.step = "DONE"
  <2>1. CASE "LINK_RESET" \in request
    BY <2>1
  <2>2. CASE "LINK_RESET" \notin request /\ InTrs
    BY <2>2
  <2> QED
    BY <2>1, <2>2
<1> HIDE DEF n
<1>5. m \in {"INIT", "DISABLED"} \/ m = n
  BY DEF Override
<1>6. CASE m = "TRS_RUN"
  BY <1>1, <1>3, <1>5, <1>6
<1>7. CASE m = "ONLINE" /\ InTrs
  BY <1>1, <1>4, <1>5, <1>7
<1>8. CASE m = "ONLINE" /\ ~InTrs
  BY <1>1, <1>8
<1>9. CASE m \notin {"TRS_RUN", "ONLINE"}
  <2>1. m \in Outside
    BY <1>2, <1>5, <1>9 DEF Outside
  <2>2. Leave(m) /\ stuck' = stuck
    BY <1>1, <1>9
  <2> QED
    BY <1>1, <2>1, <2>2
<1> QED
  BY <1>6, <1>7, <1>8, <1>9

-----------------------------------------------------------------------------
(* Type correctness *)

\* The initial state of the CP's session record and of the reader.
LEMMA InitTypeOK == Init => TypeOK
<1> SUFFICES ASSUME Init PROVE TypeOK
  OBVIOUS
<1>1. FlowOK
  BY DEF Init, FlowOK, States, Wire, ReplyIds
<1>2. SessionOK
  BY DEF Init, SessionOK, SessionType, ScanType, Steps
<1>3. BandOK
  <2>1. queue \in Seq(Cmds) /\ drain \in Seq(Cmds)
    BY DEF Init
  <2> QED
    BY <2>1 DEF Init, BandOK
<1>4. ReaderOK
  <2>1. trouble \in 0..MaxTrouble
    BY TrsAssumption DEF Init
  <2> QED
    BY <2>1 DEF Init, ReaderOK
<1> QED
  BY <1>1, <1>2, <1>3, <1>4 DEF TypeOK

\* The end of an exchange, whatever came in.
LEMMA EndedType ==
  ASSUME TypeOK, NEW r \in ReplyIds, Ended(r)
  PROVE  /\ request' \subseteq {"LINK_RESET", "DISABLE", "ENABLE"} => FlowOK'
         /\ SessionOK' /\ BandOK' /\ stuck' \in BOOLEAN
         /\ scan'.asking = scan.asking
<1>1. scan' \in ScanType /\ scan'.asking = scan.asking
  BY DEF Ended, ScanAfter, trs_scan_note_card, TypeOK, SessionOK, ScanType
<1>2. over' \subseteq Waits
  BY DEF Ended, HoldDeadline, TypeOK, SessionOK
<1>3. owner' \in [Cmds -> {"app", "lib"}]
  BY DEF Ended, TypeOK, BandOK
<1> QED
  BY <1>1, <1>2, <1>3 DEF Ended, TypeOK, FlowOK, SessionOK, BandOK, ReaderOK

\* What is dequeued is a command of the application, of some kind.
LEMMA HeadKind ==
  ASSUME TypeOK, queue # <<>>
  PROVE  Head(queue) \in Cmds /\ Kind[Head(queue)] \in CmdKinds \cap Wire
<1>1. Head(queue) \in Cmds
  BY HeadTailProperties DEF TypeOK, BandOK
<1> QED
  BY <1>1, TrsAssumption DEF CmdKinds, Wire, Xwr, Markers

\* Leaving for another state of the link.
LEMMA OverrideType ==
  ASSUME NEW n \in States
  PROVE  Override(n) \in States
  BY DEF Override, States

LEMMA LeaveType ==
  ASSUME TypeOK, NEW n \in States, Leave(n)
  PROVE  /\ pc' = "app" /\ cmd' \in Wire /\ state' = n
         /\ SessionOK' /\ (owner' = owner => BandOK')
<1>1. muddled' \in BOOLEAN
  BY DEF Leave, TypeOK, BandOK, InBand, InTrs
<1>2. session' \in SessionType
  BY DEF Leave, TypeOK, SessionOK, SessionType
<1>3. scan' \in ScanType
  BY DEF Leave, osdp_trs_probe_reset, Forgotten, TypeOK, SessionOK, ScanType
<1>4. over' \subseteq Waits
  BY DEF Leave, TypeOK, SessionOK
<1> QED
  BY <1>1, <1>2, <1>3, <1>4 DEF Leave, Resume, Wire, TypeOK, SessionOK, BandOK

\* Entering a session or a probe.
LEMMA EnterSetupType ==
  ASSUME TypeOK, NEW probe \in BOOLEAN, EnterSetup(probe)
  PROVE  /\ pc' = "app" /\ cmd' \in Wire /\ state' \in States
         /\ SessionOK' /\ (owner' = owner => BandOK')
<1>1. session' \in SessionType
  BY DEF EnterSetup, TypeOK, SessionOK, SessionType, Steps
<1>2. scan' \in ScanType
  BY DEF EnterSetup, Forgotten, TypeOK, SessionOK, ScanType
<1> QED
  BY <1>1, <1>2 DEF EnterSetup, Resume, Wire, States, TypeOK, SessionOK, BandOK

\* Every step of CP, reader, line and application keeps every variable in its
\* type.
LEMMA StepTypeOK ==
  TypeOK /\ [Next]_vars => TypeOK'
<1> SUFFICES ASSUME TypeOK, [Next]_vars PROVE TypeOK'
  OBVIOUS
<1>1. ASSUME NEW c \in Cmds, osdp_cp_submit_command(c) PROVE TypeOK'
  <2>1. FlowOK'
    BY <1>1 DEF osdp_cp_submit_command, link, probing, reading, TypeOK, FlowOK
  <2>2. SessionOK'
    BY <1>1 DEF osdp_cp_submit_command, link, probing, reading, TypeOK, SessionOK
  <2>3. BandOK'
    BY <1>1, AppendProperties DEF osdp_cp_submit_command, link, probing, reading,
       TypeOK, BandOK, BandAfter
  <2>4. ReaderOK'
    BY <1>1 DEF osdp_cp_submit_command, link, probing, reading, TypeOK, ReaderOK
  <2> QED
    BY <2>1, <2>2, <2>3, <2>4 DEF TypeOK
<1>2. ASSUME osdp_cp_flush_commands PROVE TypeOK'
  <2>1. FlowOK'
    BY <1>2 DEF osdp_cp_flush_commands, link, probing, reading, TypeOK, FlowOK
  <2>2. SessionOK'
    BY <1>2 DEF osdp_cp_flush_commands, link, probing, reading, TypeOK, SessionOK
  <2>3. BandOK'
    BY <1>2 DEF osdp_cp_flush_commands, link, probing, reading, TypeOK, BandOK,
       SessionOK, cp_is_online, InTrs
  <2>4. ReaderOK'
    BY <1>2 DEF osdp_cp_flush_commands, link, probing, reading, TypeOK, ReaderOK
  <2> QED
    BY <2>1, <2>2, <2>3, <2>4 DEF TypeOK
<1>3. ASSUME osdp_cp_trs_scan_enable PROVE TypeOK'
  <2>1. FlowOK'
    BY <1>3 DEF osdp_cp_trs_scan_enable, link, band, reading, TypeOK, FlowOK
  <2>2. SessionOK'
    BY <1>3 DEF osdp_cp_trs_scan_enable, link, band, reading, TypeOK, SessionOK,
       ScanType
  <2>3. BandOK'
    BY <1>3 DEF osdp_cp_trs_scan_enable, link, band, reading, TypeOK, BandOK
  <2>4. ReaderOK'
    BY <1>3 DEF osdp_cp_trs_scan_enable, link, band, reading, TypeOK, ReaderOK
  <2> QED
    BY <2>1, <2>2, <2>3, <2>4 DEF TypeOK
<1>4. ASSUME osdp_cp_trs_scan_disable PROVE TypeOK'
  <2>1. FlowOK'
    BY <1>4 DEF osdp_cp_trs_scan_disable, link, band, reading, TypeOK, FlowOK
  <2>2. SessionOK'
    BY <1>4 DEF osdp_cp_trs_scan_disable, link, band, reading, TypeOK, SessionOK,
       ScanType
  <2>3. BandOK'
    BY <1>4 DEF osdp_cp_trs_scan_disable, link, band, reading, TypeOK, BandOK
  <2>4. ReaderOK'
    BY <1>4 DEF osdp_cp_trs_scan_disable, link, band, reading, TypeOK, ReaderOK
  <2> QED
    BY <2>1, <2>2, <2>3, <2>4 DEF TypeOK
<1>5. ASSUME NEW r \in {"DISABLE", "ENABLE"}, Lifecycle(r) PROVE TypeOK'
  <2>1. FlowOK'
    BY <1>5 DEF Lifecycle, band, probing, reading, TypeOK, FlowOK
  <2>2. SessionOK'
    BY <1>5 DEF Lifecycle, band, probing, reading, TypeOK, SessionOK
  <2>3. BandOK'
    BY <1>5 DEF Lifecycle, band, probing, reading, TypeOK, BandOK
  <2>4. ReaderOK'
    BY <1>5 DEF Lifecycle, band, probing, reading, TypeOK, ReaderOK
  <2> QED
    BY <2>1, <2>2, <2>3, <2>4 DEF TypeOK
<1>6. ASSUME OnlineDequeue PROVE TypeOK'
  <2>1. FlowOK'
    BY <1>6, HeadKind DEF OnlineDequeue, Discard, Dequeue, Idle, link, probing,
       reading, TypeOK, FlowOK
  <2>2. SessionOK'
    BY <1>6 DEF OnlineDequeue, Discard, Dequeue, Idle, link, probing, reading,
       TypeOK, SessionOK
  <2>3. BandOK'
    BY <1>6, HeadTailProperties DEF OnlineDequeue, Discard, Dequeue, Idle, link,
       probing, reading, TypeOK, BandOK
  <2>4. ReaderOK'
    BY <1>6 DEF OnlineDequeue, Discard, Dequeue, Idle, link, probing, reading,
       TypeOK, ReaderOK
  <2> QED
    BY <2>1, <2>2, <2>3, <2>4 DEF TypeOK
<1>7. ASSUME OnlinePoll PROVE TypeOK'
  <2>1. FlowOK'
    BY <1>7 DEF OnlinePoll, Issue, Idle, band, reading, TypeOK, FlowOK, Wire,
       Xwr, Markers
  <2>2. SessionOK'
    BY <1>7 DEF OnlinePoll, Issue, Idle, band, reading, TypeOK, SessionOK
  <2>3. BandOK'
    BY <1>7 DEF OnlinePoll, Issue, Idle, band, reading, TypeOK, BandOK
  <2>4. ReaderOK'
    BY <1>7 DEF OnlinePoll, Issue, Idle, band, reading, TypeOK, ReaderOK
  <2> QED
    BY <2>1, <2>2, <2>3, <2>4 DEF TypeOK
<1>8. ASSUME SessionDequeue PROVE TypeOK'
  <2>1. FlowOK'
    BY <1>8, HeadKind DEF SessionDequeue, Discard, Dequeue, Idle, link, probing,
       reading, TypeOK, FlowOK
  <2>2. SessionOK'
    BY <1>8 DEF SessionDequeue, Discard, Dequeue, Idle, link, probing, reading,
       TypeOK, SessionOK
  <2>3. BandOK'
    BY <1>8, HeadTailProperties DEF SessionDequeue, Discard, Dequeue, Idle, link,
       probing, reading, TypeOK, BandOK
  <2>4. ReaderOK'
    BY <1>8 DEF SessionDequeue, Discard, Dequeue, Idle, link, probing, reading,
       TypeOK, ReaderOK
  <2> QED
    BY <2>1, <2>2, <2>3, <2>4 DEF TypeOK
<1>9. ASSUME SessionIdle PROVE TypeOK'
  <2>1. FlowOK'
    BY <1>9 DEF SessionIdle, Issue, Idle, band, reading, TypeOK, FlowOK, Wire,
       Xwr, Markers
  <2>2. SessionOK'
    BY <1>9 DEF SessionIdle, Issue, Idle, band, reading, TypeOK, SessionOK,
       SessionType, ScanType, Steps
  <2>3. BandOK'
    BY <1>9 DEF SessionIdle, Issue, Idle, band, reading, TypeOK, BandOK
  <2>4. ReaderOK'
    BY <1>9 DEF SessionIdle, Issue, Idle, band, reading, TypeOK, ReaderOK
  <2> QED
    BY <2>1, <2>2, <2>3, <2>4 DEF TypeOK
<1>10. ASSUME SessionStep PROVE TypeOK'
  <2>1. FlowOK'
    BY <1>10 DEF SessionStep, Issue, Idle, StepCommand, band, reading, TypeOK,
       FlowOK, Wire, Xwr, Markers
  <2>2. SessionOK'
    BY <1>10 DEF SessionStep, Issue, Idle, StepCommand, band, reading, TypeOK,
       SessionOK
  <2>3. BandOK'
    BY <1>10 DEF SessionStep, Issue, Idle, StepCommand, band, reading, TypeOK,
       BandOK
  <2>4. ReaderOK'
    BY <1>10 DEF SessionStep, Issue, Idle, StepCommand, band, reading, TypeOK,
       ReaderOK
  <2> QED
    BY <2>1, <2>2, <2>3, <2>4 DEF TypeOK
<1>11. ASSUME NotBuilt PROVE TypeOK'
  <2>1. "SILENCE" \in ReplyIds /\ Ended("SILENCE")
    BY <1>11 DEF NotBuilt, ReplyIds
  <2>2. /\ request' = request
        /\ reader' \in [mode : {0, 1}, synced : BOOLEAN]
        /\ trouble' \in 0..MaxTrouble
    BY <1>11, TrsAssumption DEF NotBuilt, TypeOK, FlowOK, ReaderOK
  <2> QED
    BY <2>1, <2>2, EndedType DEF TypeOK, FlowOK, ReaderOK
<1>12. ASSUME Settle PROVE TypeOK'
  <2>1. Decided \in StepType
    BY StepDecides DEF Decided
  <2>2. stuck' \in BOOLEAN
    BY <1>12, SettleCases DEF TypeOK, ReaderOK, Failed, cp_check_online_response
  <2>3. /\ reply' \in ReplyIds /\ request' = {} /\ act' = act /\ owner' = owner
        /\ ReaderOK'
    BY <1>12, <2>2, SettleCases DEF TypeOK, ReaderOK, ReplyIds
  <2>4. CASE EnterRun(Decided)
    <3>1. SessionOK'
      BY <2>1, <2>4 DEF EnterRun, TypeOK, SessionOK, StepType, SessionType,
         ScanType
    <3>2. FlowOK' /\ BandOK'
      BY <2>3, <2>4 DEF EnterRun, Resume, TypeOK, FlowOK, BandOK, States, Wire
    <3> QED
      BY <2>3, <3>1, <3>2 DEF TypeOK
  <2>5. CASE EnterOnline(Decided)
    <3>1. SessionOK'
      BY <2>1, <2>5 DEF EnterOnline, Forgotten, TypeOK, SessionOK, StepType,
         SessionType, ScanType
    <3>2. queue' \in Seq(Cmds) /\ drain' \in Seq(Cmds)
      BY <2>5, EmptySeq DEF EnterOnline, TypeOK, BandOK
    <3>3. FlowOK' /\ BandOK'
      BY <2>3, <2>5, <3>2 DEF EnterOnline, TypeOK, FlowOK, BandOK, States, Wire
    <3> QED
      BY <2>3, <3>1, <3>3 DEF TypeOK
  <2>6. CASE /\ ~InTrs /\ Resume /\ stuck' = stuck
             /\ UNCHANGED <<state, session, flag, scan, over, bandOpen,
                            queue, drain, muddled>>
    BY <2>3, <2>6 DEF Resume, TypeOK, FlowOK, SessionOK, BandOK, Wire
  <2>7. ASSUME NEW n \in Outside, Leave(n) PROVE TypeOK'
    BY <2>3, <2>7, LeaveType DEF TypeOK, FlowOK, States, Outside
  <2> QED
    BY <1>12, <2>4, <2>5, <2>6, <2>7, SettleCases
<1>13. ASSUME FlushStep PROVE TypeOK'
  <2>1. FlowOK'
    BY <1>13 DEF FlushStep, link, probing, reading, TypeOK, FlowOK
  <2>2. SessionOK'
    BY <1>13 DEF FlushStep, link, probing, reading, TypeOK, SessionOK
  <2>3. BandOK'
    BY <1>13, HeadTailProperties DEF FlushStep, link, probing, reading, TypeOK,
       BandOK
  <2>4. ReaderOK'
    BY <1>13 DEF FlushStep, link, probing, reading, TypeOK, ReaderOK
  <2> QED
    BY <2>1, <2>2, <2>3, <2>4 DEF TypeOK
<1>14. ASSUME FlushDone PROVE TypeOK'
  <2>1. FlowOK'
    BY <1>14 DEF FlushDone, probing, reading, TypeOK, FlowOK, States
  <2>2. SessionOK'
    BY <1>14 DEF FlushDone, probing, reading, TypeOK, SessionOK
  <2>3. BandOK'
    BY <1>14, ConcatProperties DEF FlushDone, probing, reading, TypeOK, BandOK
  <2>4. ReaderOK'
    BY <1>14 DEF FlushDone, probing, reading, TypeOK, ReaderOK
  <2> QED
    BY <2>1, <2>2, <2>3, <2>4 DEF TypeOK
<1>15. ASSUME Open PROVE TypeOK'
  <2>1. ReaderOK' /\ request' = {} /\ reply' = reply /\ act' = act /\ owner' = owner
    BY <1>15 DEF Open, TypeOK, ReaderOK, reading
  <2>2. CASE EnterSetup(FALSE)
    BY <2>1, <2>2, EnterSetupType DEF TypeOK, FlowOK
  <2>3. CASE Leave(Override("TRS_SETUP"))
    <3>1. Override("TRS_SETUP") \in States
      BY OverrideType DEF States
    <3> QED
      BY <2>1, <2>3, <3>1, LeaveType DEF TypeOK, FlowOK
  <2> QED
    BY <1>15, <2>2, <2>3 DEF Open
<1>16. ASSUME ScanDue PROVE TypeOK'
  <2>1. ReaderOK' /\ request' = {} /\ reply' = reply /\ act' = act /\ owner' = owner
    BY <1>16 DEF ScanDue, TypeOK, ReaderOK, reading
  <2>2. CASE EnterSetup(TRUE)
    BY <2>1, <2>2, EnterSetupType DEF TypeOK, FlowOK
  <2>3. CASE Leave(Override("TRS_SETUP"))
    <3>1. Override("TRS_SETUP") \in States
      BY OverrideType DEF States
    <3> QED
      BY <2>1, <2>3, <3>1, LeaveType DEF TypeOK, FlowOK
  <2> QED
    BY <1>16, <2>2, <2>3 DEF ScanDue
<1>17. ASSUME Adopt PROVE TypeOK'
  <2>1. FlowOK'
    BY <1>17 DEF Adopt, link, band, reading, TypeOK, FlowOK
  <2>2. SessionOK'
    BY <1>17 DEF Adopt, link, band, reading, TypeOK, SessionOK, Forgotten,
       SessionType, ScanType
  <2>3. BandOK'
    BY <1>17 DEF Adopt, link, band, reading, TypeOK, BandOK
  <2>4. ReaderOK'
    BY <1>17 DEF Adopt, link, band, reading, TypeOK, ReaderOK
  <2> QED
    BY <2>1, <2>2, <2>3, <2>4 DEF TypeOK
<1>18. ASSUME Stop PROVE TypeOK'
  <2>1. FlowOK'
    BY <1>18 DEF Stop, band, probing, reading, TypeOK, FlowOK, Wire, Xwr, Markers
  <2>2. SessionOK'
    BY <1>18 DEF Stop, band, probing, reading, TypeOK, SessionOK, SessionType,
       Steps
  <2>3. BandOK'
    BY <1>18 DEF Stop, band, probing, reading, TypeOK, BandOK
  <2>4. ReaderOK'
    BY <1>18 DEF Stop, band, probing, reading, TypeOK, ReaderOK
  <2> QED
    BY <2>1, <2>2, <2>3, <2>4 DEF TypeOK
<1>19. ASSUME IdlePass PROVE TypeOK'
  <2>1. Override(state) \in States
    BY OverrideType DEF TypeOK, FlowOK
  <2>2. /\ ReaderOK' /\ reply' = reply /\ act' = act /\ owner' = owner
        /\ request' \in {request, {}} /\ Leave(Override(state))
    BY <1>19 DEF IdlePass, TypeOK, ReaderOK, reading
  <2> QED
    BY <2>1, <2>2, LeaveType DEF TypeOK, FlowOK
<1>20. ASSUME Redial PROVE TypeOK'
  <2>1. "INIT" \in States
    BY DEF States
  <2>2. /\ ReaderOK' /\ reply' = reply /\ act' = act /\ owner' = owner
        /\ request' \in {request, {}} /\ Leave("INIT")
    BY <1>20 DEF Redial, TypeOK, ReaderOK, reading
  <2> QED
    BY <2>1, <2>2, LeaveType DEF TypeOK, FlowOK
<1>21. ASSUME Connect("ONLINE") PROVE TypeOK'
  <2>1. FlowOK'
    BY <1>21 DEF Connect, Idle, band, probing, TypeOK, FlowOK, States
  <2>2. SessionOK'
    BY <1>21 DEF Connect, Idle, band, probing, TypeOK, SessionOK
  <2>3. BandOK'
    BY <1>21 DEF Connect, Idle, band, probing, TypeOK, BandOK
  <2>4. ReaderOK'
    BY <1>21 DEF Connect, Idle, band, probing, TypeOK, ReaderOK, osdp_trs_pd_reset
  <2> QED
    BY <2>1, <2>2, <2>3, <2>4 DEF TypeOK
<1>22. ASSUME Answered PROVE TypeOK'
  <2>1. PICK r \in ReplyIds : Ended(r)
    BY <1>22, RepliesAreIds DEF Answered, ReplyIds
  <2>2. /\ request' = request
        /\ reader' \in [mode : {0, 1}, synced : BOOLEAN]
        /\ trouble' \in 0..MaxTrouble
    BY <1>22, TrsAssumption DEF Answered, ModeAfter, TypeOK, FlowOK, ReaderOK
  <2> QED
    BY <2>1, <2>2, EndedType DEF TypeOK, FlowOK, ReaderOK
<1>23. ASSUME Declined PROVE TypeOK'
  <2>1. PICK r \in ReplyIds : Ended(r)
    BY <1>23, RepliesAreIds DEF Declined
  <2>2. /\ request' = request
        /\ reader' \in [mode : {0, 1}, synced : BOOLEAN]
        /\ trouble' \in 0..MaxTrouble
    BY <1>23, TrsAssumption DEF Declined, Spend, TypeOK, FlowOK, ReaderOK
  <2> QED
    BY <2>1, <2>2, EndedType DEF TypeOK, FlowOK, ReaderOK
<1>24. ASSUME Lost PROVE TypeOK'
  <2>1. "SILENCE" \in ReplyIds /\ Ended("SILENCE")
    BY <1>24 DEF Lost, ReplyIds
  <2>2. /\ request' = request
        /\ reader' \in [mode : {0, 1}, synced : BOOLEAN]
        /\ trouble' \in 0..MaxTrouble
    BY <1>24, TrsAssumption DEF Lost, Spend, ModeAfter, TypeOK, FlowOK, ReaderOK
  <2> QED
    BY <2>1, <2>2, EndedType DEF TypeOK, FlowOK, ReaderOK
<1>25. ASSUME BusyThroughout PROVE TypeOK'
  <2>1. "BUSY" \in ReplyIds /\ Ended("BUSY")
    BY <1>25 DEF BusyThroughout, ReplyIds
  <2>2. /\ request' = request
        /\ reader' \in [mode : {0, 1}, synced : BOOLEAN]
        /\ trouble' \in 0..MaxTrouble
    BY <1>25, TrsAssumption DEF BusyThroughout, Spend, TypeOK, FlowOK, ReaderOK
  <2> QED
    BY <2>1, <2>2, EndedType DEF TypeOK, FlowOK, ReaderOK
<1>26. ASSUME OutOfStep PROVE TypeOK'
  <2>1. "NAK_LINK" \in ReplyIds /\ Ended("NAK_LINK")
    BY <1>26 DEF OutOfStep, ReplyIds
  <2>2. /\ request' \subseteq {"LINK_RESET", "DISABLE", "ENABLE"}
        /\ reader' \in [mode : {0, 1}, synced : BOOLEAN]
        /\ trouble' \in 0..MaxTrouble
    BY <1>26, TrsAssumption DEF OutOfStep, Spend, TypeOK, FlowOK, ReaderOK
  <2> QED
    BY <2>1, <2>2, EndedType DEF TypeOK, FlowOK, ReaderOK
<1>27. ASSUME ReaderRestarts PROVE TypeOK'
  <2>1. FlowOK'
    BY <1>27 DEF ReaderRestarts, Spend, link, band, probing, TypeOK, FlowOK
  <2>2. SessionOK'
    BY <1>27 DEF ReaderRestarts, Spend, link, band, probing, TypeOK, SessionOK
  <2>3. BandOK'
    BY <1>27 DEF ReaderRestarts, Spend, link, band, probing, TypeOK, BandOK
  <2>4. ReaderOK'
    BY <1>27, TrsAssumption DEF ReaderRestarts, Spend, link, band, probing,
       TypeOK, ReaderOK
  <2> QED
    BY <2>1, <2>2, <2>3, <2>4 DEF TypeOK
<1>28. ASSUME Unreachable PROVE TypeOK'
  <2>1. FlowOK'
    BY <1>28 DEF Unreachable, Spend, Idle, band, probing, TypeOK, FlowOK, States
  <2>2. SessionOK'
    BY <1>28 DEF Unreachable, Spend, Idle, band, probing, TypeOK, SessionOK
  <2>3. BandOK'
    BY <1>28 DEF Unreachable, Spend, Idle, band, probing, TypeOK, BandOK
  <2>4. ReaderOK'
    BY <1>28, TrsAssumption DEF Unreachable, Spend, Idle, band, probing, TypeOK,
       ReaderOK
  <2> QED
    BY <2>1, <2>2, <2>3, <2>4 DEF TypeOK
<1>29. ASSUME NEW w \in Waits, WaitOver(w) PROVE TypeOK'
  <2>1. FlowOK'
    BY <1>29 DEF WaitOver, link, band, reading, TypeOK, FlowOK
  <2>2. SessionOK'
    BY <1>29 DEF WaitOver, link, band, reading, TypeOK, SessionOK
  <2>3. BandOK'
    BY <1>29 DEF WaitOver, link, band, reading, TypeOK, BandOK
  <2>4. ReaderOK'
    BY <1>29 DEF WaitOver, link, band, reading, TypeOK, ReaderOK
  <2> QED
    BY <2>1, <2>2, <2>3, <2>4 DEF TypeOK
<1>30. CASE UNCHANGED vars
  BY <1>30 DEF vars, link, band, probing, reading, TypeOK, FlowOK, SessionOK,
     BandOK, ReaderOK
<1> QED
  BY <1>1, <1>2, <1>3, <1>4, <1>5, <1>6, <1>7, <1>8, <1>9, <1>10, <1>11,
     <1>12, <1>13, <1>14, <1>15, <1>16, <1>17, <1>18, <1>19, <1>20, <1>21,
     <1>22, <1>23, <1>24, <1>25, <1>26, <1>27, <1>28, <1>29, <1>30 DEF Next,
     Api, Refresh, Line

\* The session, the band, the scan and the reader keep their types.
THEOREM TypeCorrect == Spec => []TypeOK
<1>1. TypeOK /\ [Next]_vars => TypeOK'
  BY StepTypeOK
<1> QED
  BY <1>1, InitTypeOK, PTL DEF Spec

-----------------------------------------------------------------------------
(* The inductive invariant *)

\* Where a refresh can be at each of its labels.  A command is on the wire only
\* in ONLINE or in a session, and a session that is over is being flushed.
PhaseInv ==
    /\ pc \in {"opening", "adopting", "stopping", "flushing", "flushed"} =>
         cmd = "NONE"
    /\ pc = "opening" => state = "ONLINE"
    /\ pc \in {"adopting", "stopping", "flushing", "flushed"} => InTrs
    /\ pc \in {"adopting", "stopping"} => session.step = "XMIT"
    /\ pc = "adopting" => session.probe
    /\ pc \in {"flushing", "flushed"} => ~session.probe
    /\ pc \notin {"flushing", "flushed"} => drain = <<>>
    /\ pc = "settled" => cmd # "NONE"
    /\ cmd # "NONE" => state = "ONLINE" \/ InTrs

\* A session is the application's until its STOP, or a probe's; its step names
\* the command on the wire, and PD_FLAG_TRS_ACTIVE is up while it runs.
SessionInv ==
    /\ state \in {"INIT", "ONLINE"} => ~session.probe
    /\ ~(session.probe /\ session.stopPending)
    /\ InTrs /\ session.step \in {"SET_MODE", "XMIT"} =>
         session.probe \/ session.stopPending
    /\ InTrs => (session.step = "DONE" <=> pc \in {"flushing", "flushed"})
    /\ cp_is_online => (flag <=> InTrs /\ pc \notin {"flushing", "flushed"})
    /\ InTrs /\ cmd # "NONE" /\ session.step \in DOMAIN StepCommand =>
         cmd = StepCommand[session.step]
    /\ state = "ONLINE" => cmd \notin {"SET01", "SET00", "TERMINATE", "ASK"}

\* The scan's question is asked in a probe and forgotten with it.
AskInv ==
    /\ cmd = "ASK" => session.probe
    /\ scan.asking => session.probe

IInv == TypeOK /\ PhaseInv /\ SessionInv /\ AskInv

\* The end of an exchange leaves the session and the scan's question alone.
LEMMA EndedKeeps ==
  ASSUME TypeOK, NEW r, Ended(r)
  PROVE  /\ pc' = "settled" /\ scan'.asking = scan.asking
         /\ UNCHANGED <<state, cmd, session, flag, drain, queue, bandOpen,
                        muddled>>
<1>1. scan'.asking = scan.asking
  BY DEF Ended, ScanAfter, trs_scan_note_card, TypeOK, SessionOK, ScanType
<1> QED
  BY <1>1 DEF Ended

\* Every label of the refresh is entered from where the code enters it.
LEMMA StepPhaseInv ==
  IInv /\ [Next]_vars => PhaseInv'
<1> SUFFICES ASSUME IInv, [Next]_vars PROVE PhaseInv'
  OBVIOUS
<1>1. ASSUME NEW c \in Cmds, osdp_cp_submit_command(c) PROVE PhaseInv'
  BY <1>1 DEF osdp_cp_submit_command, IInv, PhaseInv, SessionInv, TypeOK,
     SessionOK, SessionType, InTrs, link, probing, reading
<1>2. ASSUME osdp_cp_flush_commands PROVE PhaseInv'
  BY <1>2 DEF osdp_cp_flush_commands, IInv, PhaseInv, SessionInv, TypeOK,
     SessionOK, SessionType, InTrs, link, probing, reading
<1>3. ASSUME osdp_cp_trs_scan_enable PROVE PhaseInv'
  BY <1>3 DEF osdp_cp_trs_scan_enable, IInv, PhaseInv, SessionInv, TypeOK,
     SessionOK, SessionType, InTrs, link, band, reading
<1>4. ASSUME osdp_cp_trs_scan_disable PROVE PhaseInv'
  BY <1>4 DEF osdp_cp_trs_scan_disable, IInv, PhaseInv, SessionInv, TypeOK,
     SessionOK, SessionType, InTrs, link, band, reading
<1>5. ASSUME NEW r \in {"DISABLE", "ENABLE"}, Lifecycle(r) PROVE PhaseInv'
  BY <1>5 DEF Lifecycle, IInv, PhaseInv, SessionInv, TypeOK, SessionOK,
     SessionType, InTrs, band, probing, reading
<1>6. ASSUME OnlineDequeue PROVE PhaseInv'
  BY <1>6 DEF OnlineDequeue, IInv, PhaseInv, SessionInv, TypeOK, SessionOK,
     SessionType, InTrs, Discard, Dequeue, Idle, link, probing, reading
<1>7. ASSUME OnlinePoll PROVE PhaseInv'
  BY <1>7 DEF OnlinePoll, IInv, PhaseInv, SessionInv, TypeOK, SessionOK,
     SessionType, InTrs, Issue, Idle, band, reading
<1>8. ASSUME SessionDequeue PROVE PhaseInv'
  BY <1>8 DEF SessionDequeue, IInv, PhaseInv, SessionInv, TypeOK, SessionOK,
     SessionType, InTrs, Discard, Dequeue, Idle, link, probing, reading
<1>9. ASSUME SessionIdle PROVE PhaseInv'
  BY <1>9 DEF SessionIdle, IInv, PhaseInv, SessionInv, TypeOK, SessionOK,
     SessionType, InTrs, Issue, Idle, band, reading
<1>10. ASSUME SessionStep PROVE PhaseInv'
  BY <1>10 DEF SessionStep, IInv, PhaseInv, SessionInv, TypeOK, SessionOK,
     SessionType, InTrs, Issue, Idle, StepCommand, band, reading
<1>11. ASSUME NotBuilt PROVE PhaseInv'
  <2>1. PICK r : Ended(r)
    BY <1>11 DEF NotBuilt
  <2> QED
    BY <1>11, <2>1, EndedKeeps DEF NotBuilt, OnWire, IInv, PhaseInv, SessionInv,
       TypeOK, SessionOK, SessionType, InTrs
<1>12. ASSUME Settle PROVE PhaseInv'
  <2>1. /\ Decided \in StepType /\ (Decided.scan.asking => scan.asking)
        /\ Decided.step \in {"SET_MODE", "XMIT"} =>
             session.step \in {"SET_MODE", "XMIT"}
        /\ pc = "settled"
    BY <1>12, StepDecides DEF Decided, IInv, Settle
  <2>2. CASE InTrs /\ Decided.step # "DONE" /\ EnterRun(Decided)
    BY <1>12, <2>1, <2>2 DEF EnterRun, Resume, StepType, cp_is_online, IInv,
       PhaseInv, SessionInv, TypeOK, SessionOK, SessionType, InTrs
  <2>3. CASE InTrs /\ Decided.step = "DONE" /\ EnterOnline(Decided)
    BY <1>12, <2>1, <2>3 DEF EnterOnline, Forgotten, StepType, cp_is_online, IInv,
       PhaseInv, SessionInv, TypeOK, SessionOK, SessionType, InTrs
  <2>4. CASE /\ ~InTrs /\ Resume
             /\ UNCHANGED <<state, session, flag, scan, over, bandOpen,
                            queue, drain, muddled>>
    BY <1>12, <2>4 DEF Resume, cp_is_online, Settle, IInv, PhaseInv, SessionInv,
       TypeOK, SessionOK, SessionType, InTrs
  <2>5. ASSUME NEW n \in Outside, Leave(n) PROVE PhaseInv'
    BY <1>12, <2>1, <2>5 DEF Leave, Resume, Outside, osdp_trs_probe_reset,
       Forgotten, cp_is_online, IInv, PhaseInv, SessionInv, TypeOK, SessionOK,
       SessionType, InTrs
  <2> QED
    BY <1>12, <2>2, <2>3, <2>4, <2>5, SettleCases
<1>13. ASSUME FlushStep PROVE PhaseInv'
  BY <1>13 DEF FlushStep, IInv, PhaseInv, SessionInv, TypeOK, SessionOK,
     SessionType, InTrs, link, probing, reading
<1>14. ASSUME FlushDone PROVE PhaseInv'
  BY <1>14 DEF FlushDone, IInv, PhaseInv, SessionInv, TypeOK, SessionOK,
     SessionType, InTrs, probing, reading
<1>15. ASSUME Open PROVE PhaseInv'
  BY <1>15 DEF Open, IInv, PhaseInv, SessionInv, TypeOK, SessionOK,
     SessionType, InTrs, EnterSetup, Leave, Resume, reading, Override
<1>16. ASSUME ScanDue PROVE PhaseInv'
  BY <1>16 DEF ScanDue, IInv, PhaseInv, SessionInv, TypeOK, SessionOK,
     SessionType, InTrs, EnterSetup, Leave, Resume, Idle, reading, Override
<1>17. ASSUME Adopt PROVE PhaseInv'
  BY <1>17 DEF Adopt, IInv, PhaseInv, SessionInv, TypeOK, SessionOK,
     SessionType, InTrs, link, band, reading
<1>18. ASSUME Stop PROVE PhaseInv'
  BY <1>18 DEF Stop, IInv, PhaseInv, SessionInv, TypeOK, SessionOK,
     SessionType, InTrs, band, probing, reading, FlowOK
<1>19. ASSUME IdlePass PROVE PhaseInv'
  BY <1>19 DEF IdlePass, IInv, PhaseInv, SessionInv, TypeOK, SessionOK,
     SessionType, InTrs, Leave, Resume, Idle, reading, Override
<1>20. ASSUME Redial PROVE PhaseInv'
  BY <1>20 DEF Redial, IInv, PhaseInv, SessionInv, TypeOK, SessionOK,
     SessionType, InTrs, Leave, Resume, Idle, reading
<1>21. ASSUME Connect("ONLINE") PROVE PhaseInv'
  BY <1>21 DEF IInv, PhaseInv, SessionInv, TypeOK, SessionOK, SessionType,
     InTrs, Connect, Idle, band, probing
<1>22. ASSUME Answered PROVE PhaseInv'
  <2>1. PICK r : Ended(r)
    BY <1>22 DEF Answered
  <2> QED
    BY <1>22, <2>1, EndedKeeps DEF Answered, OnWire, IInv, PhaseInv, SessionInv,
       TypeOK, SessionOK, SessionType, InTrs
<1>23. ASSUME Declined PROVE PhaseInv'
  <2>1. PICK r : Ended(r)
    BY <1>23 DEF Declined
  <2> QED
    BY <1>23, <2>1, EndedKeeps DEF Declined, OnWire, IInv, PhaseInv, SessionInv,
       TypeOK, SessionOK, SessionType, InTrs
<1>24. ASSUME Lost PROVE PhaseInv'
  <2>1. PICK r : Ended(r)
    BY <1>24 DEF Lost
  <2> QED
    BY <1>24, <2>1, EndedKeeps DEF Lost, OnWire, IInv, PhaseInv, SessionInv,
       TypeOK, SessionOK, SessionType, InTrs
<1>25. ASSUME BusyThroughout PROVE PhaseInv'
  <2>1. PICK r : Ended(r)
    BY <1>25 DEF BusyThroughout
  <2> QED
    BY <1>25, <2>1, EndedKeeps DEF BusyThroughout, OnWire, IInv, PhaseInv,
       SessionInv, TypeOK, SessionOK, SessionType, InTrs
<1>26. ASSUME OutOfStep PROVE PhaseInv'
  <2>1. PICK r : Ended(r)
    BY <1>26 DEF OutOfStep
  <2> QED
    BY <1>26, <2>1, EndedKeeps DEF OutOfStep, OnWire, IInv, PhaseInv, SessionInv,
       TypeOK, SessionOK, SessionType, InTrs
<1>27. ASSUME ReaderRestarts PROVE PhaseInv'
  BY <1>27 DEF ReaderRestarts, IInv, PhaseInv, SessionInv, TypeOK, SessionOK,
     SessionType, InTrs, Spend, link, band, probing
<1>28. ASSUME Unreachable PROVE PhaseInv'
  BY <1>28 DEF Unreachable, IInv, PhaseInv, SessionInv, TypeOK, SessionOK,
     SessionType, InTrs, Spend, Idle, band, probing
<1>29. ASSUME NEW w \in Waits, WaitOver(w) PROVE PhaseInv'
  BY <1>29 DEF WaitOver, IInv, PhaseInv, SessionInv, TypeOK, SessionOK,
     SessionType, InTrs, link, band, reading
<1>30. CASE UNCHANGED vars
  BY <1>30 DEF vars, link, band, probing, reading, IInv, PhaseInv, SessionInv,
     TypeOK, SessionOK, SessionType, InTrs
<1> QED
  BY <1>1, <1>2, <1>3, <1>4, <1>5, <1>6, <1>7, <1>8, <1>9, <1>10, <1>11,
     <1>12, <1>13, <1>14, <1>15, <1>16, <1>17, <1>18, <1>19, <1>20, <1>21,
     <1>22, <1>23, <1>24, <1>25, <1>26, <1>27, <1>28, <1>29, <1>30 DEF Next,
     Api, Refresh, Line

\* The session's step, its owner and its flag stay together.
LEMMA StepSessionInv ==
  IInv /\ [Next]_vars => SessionInv'
<1> SUFFICES ASSUME IInv, [Next]_vars PROVE SessionInv'
  OBVIOUS
<1>1. ASSUME NEW c \in Cmds, osdp_cp_submit_command(c) PROVE SessionInv'
  BY <1>1 DEF osdp_cp_submit_command, IInv, PhaseInv, SessionInv, TypeOK,
     SessionOK, SessionType, InTrs, cp_is_online, StepCommand, link, probing,
     reading
<1>2. ASSUME osdp_cp_flush_commands PROVE SessionInv'
  BY <1>2 DEF osdp_cp_flush_commands, IInv, PhaseInv, SessionInv, TypeOK,
     SessionOK, SessionType, InTrs, cp_is_online, StepCommand, link, probing,
     reading
<1>3. ASSUME osdp_cp_trs_scan_enable PROVE SessionInv'
  BY <1>3 DEF osdp_cp_trs_scan_enable, IInv, PhaseInv, SessionInv, TypeOK,
     SessionOK, SessionType, InTrs, cp_is_online, StepCommand, link, band,
     reading
<1>4. ASSUME osdp_cp_trs_scan_disable PROVE SessionInv'
  BY <1>4 DEF osdp_cp_trs_scan_disable, IInv, PhaseInv, SessionInv, TypeOK,
     SessionOK, SessionType, InTrs, cp_is_online, StepCommand, link, band,
     reading
<1>5. ASSUME NEW r \in {"DISABLE", "ENABLE"}, Lifecycle(r) PROVE SessionInv'
  BY <1>5 DEF Lifecycle, IInv, PhaseInv, SessionInv, TypeOK, SessionOK,
     SessionType, InTrs, cp_is_online, StepCommand, band, probing, reading
<1>6. ASSUME OnlineDequeue PROVE SessionInv'
  BY <1>6, HeadKind DEF OnlineDequeue, IInv, PhaseInv, SessionInv, TypeOK,
     SessionOK, SessionType, InTrs, cp_is_online, StepCommand, Discard,
     Dequeue, Idle, link, probing, reading, CmdKinds
<1>7. ASSUME OnlinePoll PROVE SessionInv'
  BY <1>7 DEF OnlinePoll, IInv, PhaseInv, SessionInv, TypeOK, SessionOK,
     SessionType, InTrs, cp_is_online, StepCommand, Issue, Idle, band, reading
<1>8. ASSUME SessionDequeue PROVE SessionInv'
  BY <1>8, HeadKind DEF SessionDequeue, IInv, PhaseInv, SessionInv, TypeOK,
     SessionOK, SessionType, InTrs, cp_is_online, StepCommand, Discard,
     Dequeue, Idle, link, probing, reading, CmdKinds
<1>9. ASSUME SessionIdle PROVE SessionInv'
  BY <1>9 DEF SessionIdle, IInv, PhaseInv, SessionInv, TypeOK, SessionOK,
     SessionType, InTrs, cp_is_online, StepCommand, Issue, Idle, band, reading
<1>10. ASSUME SessionStep PROVE SessionInv'
  BY <1>10 DEF SessionStep, IInv, PhaseInv, SessionInv, TypeOK, SessionOK,
     SessionType, InTrs, cp_is_online, StepCommand, Issue, Idle, band, reading
<1>11. ASSUME NotBuilt PROVE SessionInv'
  <2>1. PICK r : Ended(r)
    BY <1>11 DEF NotBuilt
  <2> QED
    BY <1>11, <2>1, EndedKeeps DEF NotBuilt, OnWire, IInv, PhaseInv, SessionInv,
       TypeOK, SessionOK, SessionType, InTrs, cp_is_online, StepCommand
<1>12. ASSUME Settle PROVE SessionInv'
  <2>1. /\ Decided \in StepType /\ (Decided.scan.asking => scan.asking)
        /\ Decided.step \in {"SET_MODE", "XMIT"} =>
             session.step \in {"SET_MODE", "XMIT"}
        /\ pc = "settled"
    BY <1>12, StepDecides DEF Decided, IInv, Settle
  <2>2. CASE InTrs /\ Decided.step # "DONE" /\ EnterRun(Decided)
    BY <1>12, <2>1, <2>2 DEF EnterRun, Resume, StepType, cp_is_online, IInv,
       PhaseInv, SessionInv, TypeOK, SessionOK, SessionType, InTrs,
       StepCommand
  <2>3. CASE InTrs /\ Decided.step = "DONE" /\ EnterOnline(Decided)
    BY <1>12, <2>1, <2>3 DEF EnterOnline, Forgotten, StepType, cp_is_online, IInv,
       PhaseInv, SessionInv, TypeOK, SessionOK, SessionType, InTrs,
       StepCommand
  <2>4. CASE /\ ~InTrs /\ Resume
             /\ UNCHANGED <<state, session, flag, scan, over, bandOpen,
                            queue, drain, muddled>>
    BY <1>12, <2>4 DEF Resume, cp_is_online, Settle, IInv, PhaseInv, SessionInv,
       TypeOK, SessionOK, SessionType, InTrs, StepCommand
  <2>5. ASSUME NEW n \in Outside, Leave(n) PROVE SessionInv'
    BY <1>12, <2>1, <2>5 DEF Leave, Resume, Outside, osdp_trs_probe_reset,
       Forgotten, cp_is_online, IInv, PhaseInv, SessionInv, TypeOK, SessionOK,
       SessionType, InTrs, StepCommand
  <2> QED
    BY <1>12, <2>2, <2>3, <2>4, <2>5, SettleCases
<1>13. ASSUME FlushStep PROVE SessionInv'
  BY <1>13 DEF FlushStep, IInv, PhaseInv, SessionInv, TypeOK, SessionOK,
     SessionType, InTrs, cp_is_online, StepCommand, link, probing, reading
<1>14. ASSUME FlushDone PROVE SessionInv'
  BY <1>14 DEF FlushDone, IInv, PhaseInv, SessionInv, TypeOK, SessionOK,
     SessionType, InTrs, cp_is_online, StepCommand, probing, reading
<1>15. ASSUME Open PROVE SessionInv'
  <2>1. state = "ONLINE" /\ pc \in {"app", "opening"} /\ ~session.probe
    BY <1>15 DEF Open, Idle, IInv, PhaseInv, SessionInv
  <2>2. CASE EnterSetup(FALSE)
    BY <2>1, <2>2 DEF EnterSetup, Resume, IInv, SessionInv, TypeOK, SessionOK, SessionType, InTrs, cp_is_online, StepCommand
  <2>3. CASE Leave(Override("TRS_SETUP")) /\ Override("TRS_SETUP") # "TRS_SETUP"
    BY <2>1, <2>3 DEF Leave, Resume, Override, IInv, SessionInv, TypeOK, SessionOK, SessionType, InTrs, cp_is_online, StepCommand
  <2> QED
    BY <1>15, <2>2, <2>3 DEF Open
<1>16. ASSUME ScanDue PROVE SessionInv'
  <2>1. state = "ONLINE" /\ pc \in {"app", "opening"} /\ ~session.probe
    BY <1>16 DEF ScanDue, Idle, IInv, PhaseInv, SessionInv
  <2>2. CASE EnterSetup(TRUE)
    BY <2>1, <2>2 DEF EnterSetup, Resume, IInv, SessionInv, TypeOK, SessionOK, SessionType, InTrs, cp_is_online, StepCommand
  <2>3. CASE Leave(Override("TRS_SETUP")) /\ Override("TRS_SETUP") # "TRS_SETUP"
    BY <2>1, <2>3 DEF Leave, Resume, Override, IInv, SessionInv, TypeOK, SessionOK, SessionType, InTrs, cp_is_online, StepCommand
  <2> QED
    BY <1>16, <2>2, <2>3 DEF ScanDue
<1>17. ASSUME Adopt PROVE SessionInv'
  BY <1>17 DEF Adopt, IInv, PhaseInv, SessionInv, TypeOK, SessionOK,
     SessionType, InTrs, cp_is_online, StepCommand, link, band, reading
<1>18. ASSUME Stop PROVE SessionInv'
  BY <1>18 DEF Stop, IInv, PhaseInv, SessionInv, TypeOK, SessionOK,
     SessionType, InTrs, cp_is_online, StepCommand, band, probing, reading
<1>19. ASSUME IdlePass PROVE SessionInv'
  BY <1>19 DEF IdlePass, IInv, PhaseInv, SessionInv, TypeOK, SessionOK,
     SessionType, InTrs, cp_is_online, StepCommand, Leave, Resume, Idle,
     reading, Override
<1>20. ASSUME Redial PROVE SessionInv'
  BY <1>20 DEF Redial, IInv, PhaseInv, SessionInv, TypeOK, SessionOK,
     SessionType, InTrs, cp_is_online, StepCommand, Leave, Resume, Idle,
     reading
<1>21. ASSUME Connect("ONLINE") PROVE SessionInv'
  BY <1>21 DEF IInv, PhaseInv, SessionInv, TypeOK, SessionOK, SessionType,
     InTrs, cp_is_online, StepCommand, Connect, Idle, band, probing
<1>22. ASSUME Answered PROVE SessionInv'
  <2>1. PICK r : Ended(r)
    BY <1>22 DEF Answered
  <2> QED
    BY <1>22, <2>1, EndedKeeps DEF Answered, OnWire, IInv, PhaseInv, SessionInv,
       TypeOK, SessionOK, SessionType, InTrs, cp_is_online, StepCommand
<1>23. ASSUME Declined PROVE SessionInv'
  <2>1. PICK r : Ended(r)
    BY <1>23 DEF Declined
  <2> QED
    BY <1>23, <2>1, EndedKeeps DEF Declined, OnWire, IInv, PhaseInv, SessionInv,
       TypeOK, SessionOK, SessionType, InTrs, cp_is_online, StepCommand
<1>24. ASSUME Lost PROVE SessionInv'
  <2>1. PICK r : Ended(r)
    BY <1>24 DEF Lost
  <2> QED
    BY <1>24, <2>1, EndedKeeps DEF Lost, OnWire, IInv, PhaseInv, SessionInv,
       TypeOK, SessionOK, SessionType, InTrs, cp_is_online, StepCommand
<1>25. ASSUME BusyThroughout PROVE SessionInv'
  <2>1. PICK r : Ended(r)
    BY <1>25 DEF BusyThroughout
  <2> QED
    BY <1>25, <2>1, EndedKeeps DEF BusyThroughout, OnWire, IInv, PhaseInv,
       SessionInv, TypeOK, SessionOK, SessionType, InTrs, cp_is_online,
       StepCommand
<1>26. ASSUME OutOfStep PROVE SessionInv'
  <2>1. PICK r : Ended(r)
    BY <1>26 DEF OutOfStep
  <2> QED
    BY <1>26, <2>1, EndedKeeps DEF OutOfStep, OnWire, IInv, PhaseInv, SessionInv,
       TypeOK, SessionOK, SessionType, InTrs, cp_is_online, StepCommand
<1>27. ASSUME ReaderRestarts PROVE SessionInv'
  BY <1>27 DEF ReaderRestarts, IInv, PhaseInv, SessionInv, TypeOK, SessionOK,
     SessionType, InTrs, cp_is_online, StepCommand, Spend, link, band, probing
<1>28. ASSUME Unreachable PROVE SessionInv'
  BY <1>28 DEF Unreachable, IInv, PhaseInv, SessionInv, TypeOK, SessionOK,
     SessionType, InTrs, cp_is_online, StepCommand, Spend, Idle, band, probing
<1>29. ASSUME NEW w \in Waits, WaitOver(w) PROVE SessionInv'
  BY <1>29 DEF WaitOver, IInv, PhaseInv, SessionInv, TypeOK, SessionOK,
     SessionType, InTrs, cp_is_online, StepCommand, link, band, reading
<1>30. CASE UNCHANGED vars
  BY <1>30 DEF vars, link, band, probing, reading, IInv, PhaseInv, SessionInv,
     TypeOK, SessionOK, SessionType, InTrs, cp_is_online, StepCommand
<1> QED
  BY <1>1, <1>2, <1>3, <1>4, <1>5, <1>6, <1>7, <1>8, <1>9, <1>10, <1>11,
     <1>12, <1>13, <1>14, <1>15, <1>16, <1>17, <1>18, <1>19, <1>20, <1>21,
     <1>22, <1>23, <1>24, <1>25, <1>26, <1>27, <1>28, <1>29, <1>30 DEF Next,
     Api, Refresh, Line

\* Whatever ends a probe forgets its question.
LEMMA StepAskInv ==
  IInv /\ [Next]_vars => AskInv'
<1> SUFFICES ASSUME IInv, [Next]_vars PROVE AskInv'
  OBVIOUS
<1>1. ASSUME NEW c \in Cmds, osdp_cp_submit_command(c) PROVE AskInv'
  BY <1>1 DEF osdp_cp_submit_command, IInv, PhaseInv, SessionInv, AskInv,
     TypeOK, SessionOK, SessionType, ScanType, InTrs, link, probing, reading
<1>2. ASSUME osdp_cp_flush_commands PROVE AskInv'
  BY <1>2 DEF osdp_cp_flush_commands, IInv, PhaseInv, SessionInv, AskInv,
     TypeOK, SessionOK, SessionType, ScanType, InTrs, link, probing, reading
<1>3. ASSUME osdp_cp_trs_scan_enable PROVE AskInv'
  BY <1>3 DEF osdp_cp_trs_scan_enable, IInv, PhaseInv, SessionInv, AskInv,
     TypeOK, SessionOK, SessionType, ScanType, InTrs, link, band, reading
<1>4. ASSUME osdp_cp_trs_scan_disable PROVE AskInv'
  BY <1>4 DEF osdp_cp_trs_scan_disable, IInv, PhaseInv, SessionInv, AskInv,
     TypeOK, SessionOK, SessionType, ScanType, InTrs, link, band, reading
<1>5. ASSUME NEW r \in {"DISABLE", "ENABLE"}, Lifecycle(r) PROVE AskInv'
  BY <1>5 DEF Lifecycle, IInv, PhaseInv, SessionInv, AskInv, TypeOK,
     SessionOK, SessionType, ScanType, InTrs, band, probing, reading
<1>6. ASSUME OnlineDequeue PROVE AskInv'
  BY <1>6, HeadKind DEF OnlineDequeue, IInv, PhaseInv, SessionInv, AskInv,
     TypeOK, SessionOK, SessionType, ScanType, InTrs, Discard, Dequeue, Idle,
     link, probing, reading, CmdKinds
<1>7. ASSUME OnlinePoll PROVE AskInv'
  BY <1>7 DEF OnlinePoll, IInv, PhaseInv, SessionInv, AskInv, TypeOK,
     SessionOK, SessionType, ScanType, InTrs, Issue, Idle, band, reading
<1>8. ASSUME SessionDequeue PROVE AskInv'
  BY <1>8, HeadKind DEF SessionDequeue, IInv, PhaseInv, SessionInv, AskInv,
     TypeOK, SessionOK, SessionType, ScanType, InTrs, Discard, Dequeue, Idle,
     link, probing, reading, CmdKinds
<1>9. ASSUME SessionIdle PROVE AskInv'
  BY <1>9 DEF SessionIdle, IInv, PhaseInv, SessionInv, AskInv, TypeOK,
     SessionOK, SessionType, ScanType, InTrs, Issue, Idle, band, reading,
     osdp_trs_scan_ask_due
<1>10. ASSUME SessionStep PROVE AskInv'
  BY <1>10 DEF SessionStep, IInv, PhaseInv, SessionInv, AskInv, TypeOK,
     SessionOK, SessionType, ScanType, InTrs, Issue, Idle, StepCommand, band,
     reading, FlowOK
<1>11. ASSUME NotBuilt PROVE AskInv'
  <2>1. PICK r : Ended(r)
    BY <1>11 DEF NotBuilt
  <2> QED
    BY <1>11, <2>1, EndedKeeps DEF NotBuilt, OnWire, IInv, PhaseInv, SessionInv,
       AskInv, TypeOK, SessionOK, SessionType, ScanType, InTrs
<1>12. ASSUME Settle PROVE AskInv'
  <2>1. /\ Decided \in StepType /\ (Decided.scan.asking => scan.asking)
        /\ Decided.step \in {"SET_MODE", "XMIT"} =>
             session.step \in {"SET_MODE", "XMIT"}
        /\ pc = "settled"
    BY <1>12, StepDecides DEF Decided, IInv, Settle
  <2>2. CASE InTrs /\ Decided.step # "DONE" /\ EnterRun(Decided)
    BY <1>12, <2>1, <2>2 DEF EnterRun, Resume, StepType, cp_is_online, IInv,
       PhaseInv, SessionInv, AskInv, TypeOK, SessionOK, SessionType, ScanType,
       InTrs
  <2>3. CASE InTrs /\ Decided.step = "DONE" /\ EnterOnline(Decided)
    BY <1>12, <2>1, <2>3 DEF EnterOnline, Forgotten, StepType, cp_is_online, IInv,
       PhaseInv, SessionInv, AskInv, TypeOK, SessionOK, SessionType, ScanType,
       InTrs
  <2>4. CASE /\ ~InTrs /\ Resume
             /\ UNCHANGED <<state, session, flag, scan, over, bandOpen,
                            queue, drain, muddled>>
    BY <1>12, <2>4 DEF Resume, cp_is_online, Settle, IInv, PhaseInv, SessionInv,
       AskInv, TypeOK, SessionOK, SessionType, ScanType, InTrs
  <2>5. ASSUME NEW n \in Outside, Leave(n) PROVE AskInv'
    BY <1>12, <2>1, <2>5 DEF Leave, Resume, Outside, osdp_trs_probe_reset,
       Forgotten, cp_is_online, IInv, PhaseInv, SessionInv, AskInv, TypeOK,
       SessionOK, SessionType, ScanType, InTrs
  <2> QED
    BY <1>12, <2>2, <2>3, <2>4, <2>5, SettleCases
<1>13. ASSUME FlushStep PROVE AskInv'
  BY <1>13 DEF FlushStep, IInv, PhaseInv, SessionInv, AskInv, TypeOK,
     SessionOK, SessionType, ScanType, InTrs, link, probing, reading
<1>14. ASSUME FlushDone PROVE AskInv'
  BY <1>14 DEF FlushDone, IInv, PhaseInv, SessionInv, AskInv, TypeOK,
     SessionOK, SessionType, ScanType, InTrs, probing, reading
<1>15. ASSUME Open PROVE AskInv'
  BY <1>15 DEF Open, IInv, PhaseInv, SessionInv, AskInv, TypeOK, SessionOK,
     SessionType, ScanType, InTrs, EnterSetup, Leave, Resume, reading,
     Override, osdp_trs_probe_reset, Forgotten
<1>16. ASSUME ScanDue PROVE AskInv'
  BY <1>16 DEF ScanDue, IInv, PhaseInv, SessionInv, AskInv, TypeOK, SessionOK,
     SessionType, ScanType, InTrs, EnterSetup, Leave, Resume, Idle, reading,
     Override, osdp_trs_probe_reset, Forgotten
<1>17. ASSUME Adopt PROVE AskInv'
  BY <1>17 DEF Adopt, IInv, PhaseInv, SessionInv, AskInv, TypeOK, SessionOK,
     SessionType, ScanType, InTrs, link, band, reading, Forgotten
<1>18. ASSUME Stop PROVE AskInv'
  BY <1>18 DEF Stop, IInv, PhaseInv, SessionInv, AskInv, TypeOK, SessionOK,
     SessionType, ScanType, InTrs, band, probing, reading
<1>19. ASSUME IdlePass PROVE AskInv'
  BY <1>19 DEF IdlePass, IInv, PhaseInv, SessionInv, AskInv, TypeOK,
     SessionOK, SessionType, ScanType, InTrs, Leave, Resume, Idle, reading,
     Override, osdp_trs_probe_reset, Forgotten
<1>20. ASSUME Redial PROVE AskInv'
  BY <1>20 DEF Redial, IInv, PhaseInv, SessionInv, AskInv, TypeOK, SessionOK,
     SessionType, ScanType, InTrs, Leave, Resume, Idle, reading,
     osdp_trs_probe_reset, Forgotten
<1>21. ASSUME Connect("ONLINE") PROVE AskInv'
  BY <1>21 DEF IInv, PhaseInv, SessionInv, AskInv, TypeOK, SessionOK,
     SessionType, ScanType, InTrs, Connect, Idle, band, probing
<1>22. ASSUME Answered PROVE AskInv'
  <2>1. PICK r : Ended(r)
    BY <1>22 DEF Answered
  <2> QED
    BY <1>22, <2>1, EndedKeeps DEF Answered, OnWire, IInv, PhaseInv, SessionInv,
       AskInv, TypeOK, SessionOK, SessionType, ScanType, InTrs
<1>23. ASSUME Declined PROVE AskInv'
  <2>1. PICK r : Ended(r)
    BY <1>23 DEF Declined
  <2> QED
    BY <1>23, <2>1, EndedKeeps DEF Declined, OnWire, IInv, PhaseInv, SessionInv,
       AskInv, TypeOK, SessionOK, SessionType, ScanType, InTrs
<1>24. ASSUME Lost PROVE AskInv'
  <2>1. PICK r : Ended(r)
    BY <1>24 DEF Lost
  <2> QED
    BY <1>24, <2>1, EndedKeeps DEF Lost, OnWire, IInv, PhaseInv, SessionInv,
       AskInv, TypeOK, SessionOK, SessionType, ScanType, InTrs
<1>25. ASSUME BusyThroughout PROVE AskInv'
  <2>1. PICK r : Ended(r)
    BY <1>25 DEF BusyThroughout
  <2> QED
    BY <1>25, <2>1, EndedKeeps DEF BusyThroughout, OnWire, IInv, PhaseInv,
       SessionInv, AskInv, TypeOK, SessionOK, SessionType, ScanType, InTrs
<1>26. ASSUME OutOfStep PROVE AskInv'
  <2>1. PICK r : Ended(r)
    BY <1>26 DEF OutOfStep
  <2> QED
    BY <1>26, <2>1, EndedKeeps DEF OutOfStep, OnWire, IInv, PhaseInv, SessionInv,
       AskInv, TypeOK, SessionOK, SessionType, ScanType, InTrs
<1>27. ASSUME ReaderRestarts PROVE AskInv'
  BY <1>27 DEF ReaderRestarts, IInv, PhaseInv, SessionInv, AskInv, TypeOK,
     SessionOK, SessionType, ScanType, InTrs, Spend, link, band, probing
<1>28. ASSUME Unreachable PROVE AskInv'
  BY <1>28 DEF Unreachable, IInv, PhaseInv, SessionInv, AskInv, TypeOK,
     SessionOK, SessionType, ScanType, InTrs, Spend, Idle, band, probing
<1>29. ASSUME NEW w \in Waits, WaitOver(w) PROVE AskInv'
  BY <1>29 DEF WaitOver, IInv, PhaseInv, SessionInv, AskInv, TypeOK,
     SessionOK, SessionType, ScanType, InTrs, link, band, reading
<1>30. CASE UNCHANGED vars
  BY <1>30 DEF vars, link, band, probing, reading, IInv, PhaseInv, SessionInv,
     AskInv, TypeOK, SessionOK, SessionType, ScanType, InTrs
<1> QED
  BY <1>1, <1>2, <1>3, <1>4, <1>5, <1>6, <1>7, <1>8, <1>9, <1>10, <1>11,
     <1>12, <1>13, <1>14, <1>15, <1>16, <1>17, <1>18, <1>19, <1>20, <1>21,
     <1>22, <1>23, <1>24, <1>25, <1>26, <1>27, <1>28, <1>29, <1>30 DEF Next,
     Api, Refresh, Line

\* The invariant holds in every state the CP and the reader can reach.
LEMMA Invariance == Spec => []IInv
<1>1. Init => IInv
  <2>1. Init => PhaseInv /\ AskInv
    BY DEF Init, PhaseInv, AskInv, InTrs
  <2>2. Init => SessionInv
    BY DEF Init, SessionInv, InTrs, cp_is_online
  <2> QED
    BY <2>1, <2>2, InitTypeOK DEF IInv
<1>2. IInv /\ [Next]_vars => IInv'
  BY StepTypeOK, StepPhaseInv, StepSessionInv, StepAskInv DEF IInv
<1> QED
  BY <1>1, <1>2, PTL DEF Spec

\* The scan's question is never taken for the application's card command:
\* it is asked in a probe only and forgotten when the application adopts the
\* session or the probe ends.
THEOREM AskStaysInProbe == Spec => []AskNeverLeaks
<1>1. IInv => AskNeverLeaks
  BY DEF IInv, AskInv, AskNeverLeaks
<1> QED
  BY <1>1, Invariance, PTL

-----------------------------------------------------------------------------
(* The band *)

\* An empty queue leaves the band where it is.
LEMMA EmptyBands ==
  ASSUME NEW b, NEW a, WellFormedBands(b, <<>>, a)
  PROVE  b = a
<1>1. Len(<<>>) = 0
  OBVIOUS
<1> QED
  BY <1>1 DEF WellFormedBands

\* ... and every band there is.
LEMMA NoBands ==
  ASSUME NEW b
  PROVE  WellFormedBands(b, <<>>, b)
<1>1. Len(<<>>) = 0
  OBVIOUS
<1> QED
  BY <1>1 DEF WellFormedBands

\* A command that is admitted extends the bands.
LEMMA BandAppend ==
  ASSUME NEW q \in Seq(Cmds), NEW c \in Cmds, NEW b, NEW a,
         WellFormedBands(b, q, a), NeedsBand(c) = a
  PROVE  WellFormedBands(b, Append(q, c), LeavesBand(c))
<1> DEFINE r == Append(q, c)
<1>1. Len(q) \in Nat /\ Len(r) = Len(q) + 1 /\ r[Len(q) + 1] = c
  BY AppendProperties
<1>2. \A i \in 1..Len(q) : r[i] = q[i]
  BY AppendProperties
<1> SUFFICES ASSUME NEW i \in 0..Len(r)
             PROVE  (IF i = 0 THEN b ELSE LeavesBand(r[i]))
                      = (IF i = Len(r) THEN LeavesBand(c) ELSE NeedsBand(r[i + 1]))
  BY DEF WellFormedBands
<1>3. CASE i = Len(r)
  BY <1>1, <1>3
<1>4. CASE i = Len(q)
  <2>1. (IF i = 0 THEN b ELSE LeavesBand(q[i])) = a
    BY <1>1, <1>4 DEF WellFormedBands
  <2> QED
    BY <1>1, <1>2, <1>4, <2>1
<1>5. CASE i < Len(q)
  <2>1. (IF i = 0 THEN b ELSE LeavesBand(q[i])) = NeedsBand(q[i + 1])
    BY <1>1, <1>5 DEF WellFormedBands
  <2>2. r[i + 1] = q[i + 1] /\ (i # 0 => r[i] = q[i]) /\ i # Len(r)
    BY <1>1, <1>2, <1>5
  <2> QED
    BY <2>1, <2>2
<1> QED
  BY <1>1, <1>3, <1>4, <1>5

\* The head of well-formed bands stands where the queue starts.
LEMMA BandTail ==
  ASSUME NEW q \in Seq(Cmds), q # <<>>, NEW b, NEW a, WellFormedBands(b, q, a)
  PROVE  /\ b = NeedsBand(Head(q))
         /\ WellFormedBands(LeavesBand(Head(q)), Tail(q), a)
<1> DEFINE r == Tail(q)
<1>1. /\ Len(q) \in Nat /\ Len(q) > 0 /\ Len(r) = Len(q) - 1 /\ Head(q) = q[1]
      /\ \A i \in 1..Len(r) : r[i] = q[i + 1]
  BY HeadTailProperties
<1>2. ASSUME NEW j \in 0..Len(q)
      PROVE  (IF j = 0 THEN b ELSE LeavesBand(q[j]))
                = (IF j = Len(q) THEN a ELSE NeedsBand(q[j + 1]))
  BY DEF WellFormedBands
<1>3. b = NeedsBand(Head(q))
  <2>1. 0 \in 0..Len(q) /\ 0 # Len(q) /\ 0 + 1 = 1
    BY <1>1
  <2>2. (IF 0 = 0 THEN b ELSE LeavesBand(q[0]))
          = (IF 0 = Len(q) THEN a ELSE NeedsBand(q[0 + 1]))
    BY <1>2, <2>1
  <2> QED
    BY <1>1, <2>1, <2>2
<1>4. ASSUME NEW i \in 0..Len(r)
      PROVE  (IF i = 0 THEN LeavesBand(Head(q)) ELSE LeavesBand(r[i]))
                = (IF i = Len(r) THEN a ELSE NeedsBand(r[i + 1]))
  <2> DEFINE j == i + 1
  <2>1. j \in 0..Len(q) /\ j # 0 /\ (i = Len(r) <=> j = Len(q))
    BY <1>1
  <2>2. i # 0 => r[i] = q[j]
    BY <1>1
  <2>3. i # Len(r) => r[j] = q[j + 1]
    <3> HIDE DEF r
    <3>1. i # Len(r) => j \in 1..Len(r)
      BY <1>1
    <3> QED
      BY <1>1, <3>1
  <2>4. i = 0 => Head(q) = q[j]
    BY <1>1
  <2>5. (IF j = 0 THEN b ELSE LeavesBand(q[j]))
          = (IF j = Len(q) THEN a ELSE NeedsBand(q[j + 1]))
    BY <1>2, <2>1
  <2> HIDE DEF j, r
  <2>6. LeavesBand(q[j]) = (IF j = Len(q) THEN a ELSE NeedsBand(q[j + 1]))
    BY <2>1, <2>5
  <2>7. (IF i = 0 THEN LeavesBand(Head(q)) ELSE LeavesBand(r[i])) = LeavesBand(q[j])
    BY <2>2, <2>4
  <2>8. (IF i = Len(r) THEN a ELSE NeedsBand(r[j]))
          = (IF j = Len(q) THEN a ELSE NeedsBand(q[j + 1]))
    BY <2>1, <2>3
  <2> QED
    BY <2>6, <2>7, <2>8 DEF j
<1> QED
  BY <1>3, <1>4 DEF WellFormedBands
\* Where the session stands in a band, and where a command does.
LEMMA InBandType ==
  ASSUME TypeOK
  PROVE  InBand \in BOOLEAN /\ InBand' \in BOOLEAN
  BY DEF InBand, InTrs

LEMMA CommandPlaces ==
  ASSUME NEW c
  PROVE  NeedsBand(c) \in BOOLEAN /\ LeavesBand(c) \in BOOLEAN
  BY DEF NeedsBand, LeavesBand

\* cp_band_admit() admits what belongs at the tail.
LEMMA AdmittedWhereItBelongs ==
  ASSUME TypeOK, NEW c \in Cmds, cp_band_admit(Kind[c]), Kind[c] \in CmdKinds
  PROVE  NeedsBand(c) = bandOpen /\ BandAfter(Kind[c]) = LeavesBand(c)
<1>1. bandOpen \in BOOLEAN
  BY DEF TypeOK, BandOK
<1>2. NeedsBand(c) <=> bandOpen
  <2>1. CASE Kind[c] = "START"
    BY <2>1 DEF cp_band_admit, NeedsBand
  <2>2. CASE Kind[c] = "STOP"
    BY <2>2 DEF cp_band_admit, NeedsBand
  <2>3. CASE Kind[c] = "CARD"
    BY <2>3 DEF cp_band_admit, NeedsBand
  <2>4. CASE Kind[c] = "OTHER"
    BY <2>4 DEF cp_band_admit, NeedsBand
  <2> QED
    BY <2>1, <2>2, <2>3, <2>4 DEF CmdKinds
<1>3. BandAfter(Kind[c]) \in BOOLEAN /\ (BandAfter(Kind[c]) <=> LeavesBand(c))
  BY <1>1, <1>2 DEF BandAfter, LeavesBand, NeedsBand, CmdKinds
<1> QED
  BY <1>1, <1>2, <1>3, CommandPlaces

\* An exchange that ends moves neither the queue nor the session.
LEMMA EndedKeepsBand ==
  ASSUME IInv, BandMarks, pc = "app", NEW r, Ended(r)
  PROVE  BandMarks'
<1>1. InBand' = InBand
  BY EndedKeeps DEF IInv, InBand, InTrs
<1> QED
  BY <1>1, EndedKeeps DEF IInv, BandMarks

\* A session is only left for another state of the link with no band open at
\* the head of the queue, or its band is given up as muddled.
LEMMA LeavesNoBand ==
  ASSUME IInv, BandMarks, NEW n, n \notin {"TRS_SETUP", "TRS_RUN"}, Leave(n)
  PROVE  BandMarks'
<1>1. ~InBand'
  BY DEF Leave, Resume, InBand, InTrs
<1>2. InBand \in BOOLEAN /\ InBand' \in BOOLEAN
  BY DEF InBand, InTrs, IInv, TypeOK, SessionOK, SessionType
<1>3. ASSUME ~muddled' PROVE WellFormedBands(InBand', drain' \o queue', bandOpen')
  <2>1. ~muddled /\ ~InBand
    BY <1>3 DEF Leave
  <2>2. InBand' = InBand
    BY <1>1, <1>2, <2>1
  <2> QED
    BY <2>1, <2>2 DEF Leave, BandMarks
<1> QED
  BY <1>3 DEF BandMarks

\* band_open follows the tail of the queue, and the session its head.
LEMMA StepBandMarks ==
  IInv /\ BandMarks /\ [Next]_vars => BandMarks'
<1> SUFFICES ASSUME IInv, BandMarks, [Next]_vars PROVE BandMarks'
  OBVIOUS
<1>1. ASSUME NEW c \in Cmds, osdp_cp_submit_command(c) PROVE BandMarks'
  <2>1. drain \o queue \in Seq(Cmds) /\ drain' \o queue' = Append(drain \o queue, c)
    BY <1>1 DEF osdp_cp_submit_command, IInv, TypeOK, BandOK
  <2>2. cp_band_admit(Kind[c]) /\ Kind[c] \in CmdKinds
    BY <1>1, TrsAssumption DEF osdp_cp_submit_command
  <2>3. NeedsBand(c) = bandOpen /\ BandAfter(Kind[c]) = LeavesBand(c)
    BY <2>2, AdmittedWhereItBelongs DEF IInv
  <2>4. bandOpen' = LeavesBand(c)
    BY <1>1, <2>3 DEF osdp_cp_submit_command
  <2>5. InBand' = InBand /\ muddled' = muddled
    BY <1>1 DEF osdp_cp_submit_command, InBand, InTrs, link
  <2> QED
    BY <2>1, <2>3, <2>4, <2>5, BandAppend DEF BandMarks
<1>2. ASSUME osdp_cp_flush_commands PROVE BandMarks'
  <2> SUFFICES ASSUME ~muddled'
               PROVE  WellFormedBands(InBand', drain' \o queue', bandOpen')
    BY DEF BandMarks
  <2>1. cp_is_online /\ pc \in {"app", "settled"} /\ UNCHANGED <<pc, state, session>>
    BY <1>2 DEF osdp_cp_flush_commands, link
  <2>2. drain' \o queue' = <<>>
    BY <1>2, <2>1 DEF osdp_cp_flush_commands, IInv, PhaseInv
  <2>3. InBand' = bandOpen'
    BY <1>2, <2>1 DEF osdp_cp_flush_commands, IInv, SessionInv, InBand, InTrs,
       cp_is_online
  <2> QED
    BY <2>2, <2>3, NoBands
<1>3. ASSUME osdp_cp_trs_scan_enable PROVE BandMarks'
  BY <1>3 DEF osdp_cp_trs_scan_enable, BandMarks, InBand, InTrs, link, band,
     reading
<1>4. ASSUME osdp_cp_trs_scan_disable PROVE BandMarks'
  BY <1>4 DEF osdp_cp_trs_scan_disable, BandMarks, InBand, InTrs, link, band,
     reading
<1>5. ASSUME NEW r \in {"DISABLE", "ENABLE"}, Lifecycle(r) PROVE BandMarks'
  BY <1>5 DEF Lifecycle, BandMarks, InBand, InTrs, band, probing, reading
<1>6. ASSUME OnlineDequeue PROVE BandMarks'
  <2> SUFFICES ASSUME ~muddled'
               PROVE  WellFormedBands(InBand', drain' \o queue', bandOpen')
    BY DEF BandMarks
  <2> DEFINE c == Head(queue)
  <2>1. /\ state = "ONLINE" /\ pc = "app" /\ queue # <<>> /\ drain = <<>>
        /\ queue \in Seq(Cmds) /\ ~muddled /\ Tail(queue) \in Seq(Cmds)
        /\ queue' = Tail(queue)
        /\ UNCHANGED <<state, session, bandOpen, drain>>
    BY <1>6 DEF OnlineDequeue, Discard, Dequeue, Idle, IInv, PhaseInv, TypeOK, BandOK, link
  <2>2. drain \o queue = queue /\ drain' \o queue' = Tail(queue)
    BY <2>1
  <2>3. /\ InBand = NeedsBand(c)
        /\ WellFormedBands(LeavesBand(c), Tail(queue), bandOpen)
    BY <2>1, <2>2, BandTail DEF BandMarks
  <2>4. InBand' = LeavesBand(c)
    <3>1. ~InBand /\ Kind[c] \in CmdKinds
      BY <2>1, HeadKind DEF InBand, InTrs, IInv
    <3>2. CASE Kind[c] = "START"
      BY <1>6, <2>1, <3>2 DEF OnlineDequeue, Discard, InBand, LeavesBand
    <3>3. CASE Kind[c] # "START"
      <4>1. Dequeue
        BY <1>6, <3>3 DEF OnlineDequeue
      <4>2. ~InBand'
        BY <2>1, <4>1 DEF Dequeue, InBand, InTrs
      <4>3. ~LeavesBand(c)
        BY <2>3, <3>1, <3>3 DEF NeedsBand, LeavesBand, CmdKinds
      <4> QED
        BY <4>2, <4>3, InBandType, CommandPlaces DEF IInv
    <3> QED
      BY <3>2, <3>3
  <2> QED
    BY <2>1, <2>2, <2>3, <2>4
<1>7. ASSUME OnlinePoll PROVE BandMarks'
  BY <1>7 DEF OnlinePoll, BandMarks, InBand, InTrs, Issue, Idle, band, reading
<1>8. ASSUME SessionDequeue PROVE BandMarks'
  <2> SUFFICES ASSUME ~muddled'
               PROVE  WellFormedBands(InBand', drain' \o queue', bandOpen')
    BY DEF BandMarks
  <2> DEFINE c == Head(queue)
  <2>1. /\ InTrs /\ session.step = "XMIT" /\ pc = "app" /\ queue # <<>> /\ drain = <<>>
        /\ queue \in Seq(Cmds) /\ ~muddled /\ Tail(queue) \in Seq(Cmds)
        /\ queue' = Tail(queue)
        /\ UNCHANGED <<state, session, bandOpen, drain>>
    BY <1>8 DEF SessionDequeue, Discard, Dequeue, Idle, IInv, PhaseInv, TypeOK, BandOK, link
  <2>2. drain \o queue = queue /\ drain' \o queue' = Tail(queue)
    BY <2>1
  <2>3. /\ InBand = NeedsBand(c)
        /\ WellFormedBands(LeavesBand(c), Tail(queue), bandOpen)
    BY <2>1, <2>2, BandTail DEF BandMarks
  <2>4. InBand' = LeavesBand(c)
    <3>1. /\ InBand = session.stopPending /\ Kind[c] \in CmdKinds
          /\ session.probe = ~session.stopPending
      BY <2>1, HeadKind DEF InBand, InTrs, IInv, SessionInv, TypeOK, SessionOK,
         SessionType
    <3>2. CASE session.probe /\ Kind[c] = "START"
      <4>1. pc' = "adopting"
        BY <1>8, <3>2 DEF SessionDequeue, Discard
      <4> QED
        BY <3>2, <4>1 DEF InBand, LeavesBand
    <3>3. CASE Kind[c] = "STOP"
      <4>1. pc' = "stopping"
        BY <1>8, <3>3 DEF SessionDequeue, Discard
      <4>2. ~InBand' /\ ~LeavesBand(c)
        BY <3>3, <4>1 DEF InBand, LeavesBand
      <4> QED
        BY <4>2, InBandType, CommandPlaces DEF IInv
    <3>4. CASE Kind[c] # "STOP" /\ ~(session.probe /\ Kind[c] = "START")
      <4>1. Dequeue
        BY <1>8, <3>4 DEF SessionDequeue
      <4>2. InBand' = InBand
        BY <2>1, <4>1 DEF Dequeue, InBand, InTrs
      <4>3. InBand = LeavesBand(c)
        <5>1. CASE Kind[c] = "CARD"
          BY <2>3, <5>1 DEF NeedsBand, LeavesBand
        <5>2. CASE Kind[c] = "OTHER"
          BY <2>3, <5>2 DEF NeedsBand, LeavesBand
        <5>3. Kind[c] # "START"
          <6>1. SUFFICES ASSUME Kind[c] = "START" PROVE FALSE
            OBVIOUS
          <6>2. InBand = FALSE
            <7>1. NeedsBand(c) = FALSE
              BY <6>1 DEF NeedsBand
            <7> QED
              BY <2>3, <7>1
          <6>3. session.stopPending = TRUE
            BY <3>1, <3>4, <6>1 DEF IInv, TypeOK, SessionOK, SessionType
          <6> QED
            BY <3>1, <6>2, <6>3
        <5> QED
          BY <3>1, <3>4, <5>1, <5>2, <5>3 DEF CmdKinds
      <4> QED
        BY <4>2, <4>3
    <3> QED
      BY <3>2, <3>3, <3>4
  <2> QED
    BY <2>1, <2>2, <2>3, <2>4
<1>9. ASSUME SessionIdle PROVE BandMarks'
  <2>1. InBand' = InBand
    BY <1>9 DEF SessionIdle, Issue, Idle, InBand, InTrs, IInv, TypeOK, SessionOK,
       SessionType
  <2>2. UNCHANGED <<muddled, drain, queue, bandOpen>>
    BY <1>9 DEF SessionIdle, Issue, band
  <2> QED
    BY <2>1, <2>2 DEF BandMarks
<1>10. ASSUME SessionStep PROVE BandMarks'
  BY <1>10 DEF SessionStep, BandMarks, InBand, InTrs, Issue, Idle,
     StepCommand, band, reading
<1>11. ASSUME NotBuilt PROVE BandMarks'
  <2>1. PICK r : Ended(r)
    BY <1>11 DEF NotBuilt
  <2> QED
    BY <1>11, <2>1, EndedKeepsBand DEF NotBuilt, OnWire
<1>12. ASSUME Settle PROVE BandMarks'
  <2> SUFFICES ASSUME ~muddled'
               PROVE  WellFormedBands(InBand', drain' \o queue', bandOpen')
    BY DEF BandMarks
  <2>1. /\ pc = "settled" /\ drain = <<>> /\ queue \in Seq(Cmds)
        /\ session \in SessionType
    BY <1>12 DEF Settle, IInv, PhaseInv, TypeOK, BandOK, SessionOK
  <2>2. CASE InTrs /\ EnterRun(Decided)
    <3>1. InBand' = InBand /\ ~muddled
      BY <2>1, <2>2 DEF EnterRun, Resume, InBand, InTrs, SessionType
    <3> QED
      BY <2>2, <3>1 DEF EnterRun, BandMarks
  <2>3. CASE InTrs /\ EnterOnline(Decided)
    <3>1. WellFormedBands(session.stopPending, queue, bandOpen) /\ bandOpen' = bandOpen
      <4>1. InBand = session.stopPending
        BY <2>1, <2>3 DEF InBand, SessionType
      <4>2. drain \o queue = queue /\ ~muddled /\ bandOpen' = bandOpen
        BY <2>1, <2>3 DEF EnterOnline
      <4> QED
        BY <4>1, <4>2 DEF BandMarks
    <3>2. drain' \o queue' = queue
      BY <2>1, <2>3 DEF EnterOnline
    <3>3. InBand' = session.stopPending
      BY <2>1, <2>3 DEF EnterOnline, IInv, SessionInv, InBand, InTrs, SessionType
    <3> QED
      BY <3>1, <3>2, <3>3
  <2>4. CASE /\ ~InTrs /\ Resume
             /\ UNCHANGED <<state, session, flag, scan, over, bandOpen,
                            queue, drain, muddled>>
    BY <2>1, <2>4 DEF Resume, BandMarks, InBand, InTrs
  <2>5. ASSUME NEW n \in Outside, Leave(n)
        PROVE  WellFormedBands(InBand', drain' \o queue', bandOpen')
    BY <2>5, LeavesNoBand DEF Outside, BandMarks
  <2> QED
    BY <1>12, <2>2, <2>3, <2>4, <2>5, SettleCases
<1>13. ASSUME FlushStep PROVE BandMarks'
  <2> SUFFICES ASSUME ~muddled'
               PROVE  WellFormedBands(InBand', drain' \o queue', bandOpen')
    BY DEF BandMarks
  <2> DEFINE c == Head(drain)
  <2>1. /\ pc = "flushing" /\ ~muddled
        /\ drain # <<>> /\ drain \in Seq(Cmds) /\ queue \in Seq(Cmds)
        /\ drain' = Tail(drain) /\ queue' = queue /\ bandOpen' = bandOpen
    BY <1>13 DEF FlushStep, IInv, TypeOK, BandOK
  <2>2. /\ drain \o queue \in Seq(Cmds) /\ drain \o queue # <<>>
        /\ Head(drain \o queue) = c /\ Tail(drain \o queue) = drain' \o queue'
    BY <2>1
  <2>3. InBand = NeedsBand(c) /\ WellFormedBands(LeavesBand(c), drain' \o queue', bandOpen)
    BY <2>1, <2>2, BandTail DEF BandMarks
  <2>4. InBand' = LeavesBand(c)
    <3>1. Kind[c] \in {"CARD", "STOP"}
      BY <2>1, <2>3 DEF InBand, NeedsBand
    <3>2. InBand' <=> LeavesBand(c)
      BY <1>13, <3>1 DEF FlushStep, InBand, LeavesBand
    <3> QED
      BY <3>2, InBandType, CommandPlaces DEF IInv
  <2> QED
    BY <2>1, <2>3, <2>4
<1>14. ASSUME FlushDone PROVE BandMarks'
  <2> SUFFICES ASSUME ~muddled'
               PROVE  WellFormedBands(InBand', drain' \o queue', bandOpen')
    BY DEF BandMarks
  <2>1. /\ drain \in Seq(Cmds) /\ queue \in Seq(Cmds) /\ bandOpen \in BOOLEAN
        /\ ~InBand' /\ ~muddled
        /\ drain' \o queue' = drain \o queue
    BY <1>14 DEF FlushDone, IInv, TypeOK, BandOK, InBand, InTrs
  <2>2. CASE pc = "flushed"
    BY <1>14, <2>1, <2>2 DEF FlushDone, BandMarks, InBand
  <2>3. CASE pc = "flushing" /\ drain = <<>>
    <3>1. queue = <<>>
      BY <1>14, <2>3 DEF FlushDone
    <3>4. drain' \o queue' = <<>>
      BY <2>1, <2>3, <3>1
    <3>2. bandOpen' = FALSE
      BY <1>14, <2>1, <2>3 DEF FlushDone
    <3>3. InBand' = FALSE
      BY <2>1 DEF InBand, InTrs
    <3> QED
      BY <3>2, <3>3, <3>4, NoBands
  <2> QED
    BY <1>14, <2>2, <2>3 DEF FlushDone
<1>15. ASSUME Open PROVE BandMarks'
  <2> SUFFICES ASSUME ~muddled'
               PROVE  WellFormedBands(InBand', drain' \o queue', bandOpen')
    BY DEF BandMarks
  <2>1. state = "ONLINE" /\ pc = "opening"
    BY <1>15 DEF Open, Idle, IInv, PhaseInv
  <2>2. CASE EnterSetup(FALSE)
    <3>1. InBand' = InBand /\ ~muddled
      BY <2>1, <2>2 DEF EnterSetup, Resume, InBand, InTrs
    <3> QED
      BY <2>2, <3>1 DEF EnterSetup, BandMarks
  <2>3. CASE Leave(Override("TRS_SETUP")) /\ Override("TRS_SETUP") # "TRS_SETUP"
    BY <2>3, LeavesNoBand DEF Override, BandMarks
  <2> QED
    BY <1>15, <2>2, <2>3 DEF Open
<1>16. ASSUME ScanDue PROVE BandMarks'
  <2> SUFFICES ASSUME ~muddled'
               PROVE  WellFormedBands(InBand', drain' \o queue', bandOpen')
    BY DEF BandMarks
  <2>1. state = "ONLINE" /\ pc = "app"
    BY <1>16 DEF ScanDue, Idle, IInv, PhaseInv
  <2>2. CASE EnterSetup(TRUE)
    <3>1. InBand' = InBand /\ ~muddled
      BY <2>1, <2>2 DEF EnterSetup, Resume, InBand, InTrs
    <3> QED
      BY <2>2, <3>1 DEF EnterSetup, BandMarks
  <2>3. CASE Leave(Override("TRS_SETUP")) /\ Override("TRS_SETUP") # "TRS_SETUP"
    BY <2>3, LeavesNoBand DEF Override, BandMarks
  <2> QED
    BY <1>16, <2>2, <2>3 DEF ScanDue
<1>17. ASSUME Adopt PROVE BandMarks'
  BY <1>17 DEF Adopt, BandMarks, InBand, InTrs, link, band, reading, IInv,
     PhaseInv, TypeOK, SessionOK, SessionType
<1>18. ASSUME Stop PROVE BandMarks'
  BY <1>18 DEF Stop, BandMarks, InBand, InTrs, band, probing, reading, IInv,
     TypeOK, SessionOK, SessionType
<1>19. ASSUME IdlePass PROVE BandMarks'
  <2> SUFFICES ASSUME ~muddled'
               PROVE  WellFormedBands(InBand', drain' \o queue', bandOpen')
    BY DEF BandMarks
  <2>1. CASE Override(state) = state
    BY <1>19, <2>1 DEF IdlePass, Leave, Resume, Idle, InBand, InTrs, BandMarks, IInv,
       SessionInv, TypeOK, SessionOK, SessionType
  <2>2. CASE Override(state) # state
    BY <1>19, <2>2, LeavesNoBand DEF IdlePass, Override, BandMarks
  <2> QED
    BY <2>1, <2>2
<1>20. ASSUME Redial PROVE BandMarks'
  BY <1>20, LeavesNoBand DEF Redial, BandMarks
<1>21. ASSUME Connect("ONLINE") PROVE BandMarks'
  BY <1>21 DEF BandMarks, InBand, InTrs, Connect, Idle, band, probing
<1>22. ASSUME Answered PROVE BandMarks'
  <2>1. PICK r : Ended(r)
    BY <1>22 DEF Answered
  <2> QED
    BY <1>22, <2>1, EndedKeepsBand DEF Answered, OnWire
<1>23. ASSUME Declined PROVE BandMarks'
  <2>1. PICK r : Ended(r)
    BY <1>23 DEF Declined
  <2> QED
    BY <1>23, <2>1, EndedKeepsBand DEF Declined, OnWire
<1>24. ASSUME Lost PROVE BandMarks'
  <2>1. PICK r : Ended(r)
    BY <1>24 DEF Lost
  <2> QED
    BY <1>24, <2>1, EndedKeepsBand DEF Lost, OnWire
<1>25. ASSUME BusyThroughout PROVE BandMarks'
  <2>1. PICK r : Ended(r)
    BY <1>25 DEF BusyThroughout
  <2> QED
    BY <1>25, <2>1, EndedKeepsBand DEF BusyThroughout, OnWire
<1>26. ASSUME OutOfStep PROVE BandMarks'
  <2>1. PICK r : Ended(r)
    BY <1>26 DEF OutOfStep
  <2> QED
    BY <1>26, <2>1, EndedKeepsBand DEF OutOfStep, OnWire
<1>27. ASSUME ReaderRestarts PROVE BandMarks'
  BY <1>27 DEF ReaderRestarts, BandMarks, InBand, InTrs, Spend, link, band,
     probing
<1>28. ASSUME Unreachable PROVE BandMarks'
  BY <1>28 DEF Unreachable, BandMarks, InBand, InTrs, Spend, Idle, band,
     probing
<1>29. ASSUME NEW w \in Waits, WaitOver(w) PROVE BandMarks'
  BY <1>29 DEF WaitOver, BandMarks, InBand, InTrs, link, band, reading
<1>30. CASE UNCHANGED vars
  BY <1>30 DEF vars, link, band, probing, reading, BandMarks, InBand, InTrs
<1> QED
  BY <1>1, <1>2, <1>3, <1>4, <1>5, <1>6, <1>7, <1>8, <1>9, <1>10, <1>11,
     <1>12, <1>13, <1>14, <1>15, <1>16, <1>17, <1>18, <1>19, <1>20, <1>21,
     <1>22, <1>23, <1>24, <1>25, <1>26, <1>27, <1>28, <1>29, <1>30 DEF Next,
     Api, Refresh, Line

\* Whatever is submitted, flushed, adopted, stopped, refused or cut, the flag
\* that admits commands describes the tail of a queue of well-formed bands.
THEOREM BandsStayWellFormed == Spec => []BandMarks
<1>1. Init => BandMarks
  <2>1. Init => InBand = FALSE /\ bandOpen = FALSE /\ drain \o queue = <<>>
    BY DEF Init, InBand, InTrs
  <2> QED
    BY <2>1, NoBands DEF BandMarks
<1>2. IInv /\ BandMarks /\ [Next]_vars => BandMarks'
  BY StepBandMarks
<1> QED
  BY <1>1, <1>2, Invariance, PTL DEF Spec

-----------------------------------------------------------------------------
(* The reader's mode *)

\* A reader out of sequence has to reconnect, which takes it to mode 00.
Restored == reader.mode = 0 \/ ~reader.synced

\* What the library makes of a reply to a mode-set it does not fail: an ACK of
\* mode 00, or anything but an ACK or MODE01 to mode 01, means mode 00.
Obeys00 == reply \in {"ACK"} \cup (Xrd \ {"ERROR"})
Declines01 == reply \in Xrd \ {"ERROR", "MODE01"}

ModeInv ==
    /\ state = "ONLINE" \/ pc \in {"flushing", "flushed"} => Restored \/ stuck
    /\ pc = "settled" /\ cmd = "SET00" /\ Obeys00 => Restored
    /\ pc = "settled" /\ cmd = "SET01" /\ Declines01 => Restored

\* A card session is only closed in mode 00, or with the failure noted.
LEMMA ClosedRestored ==
  ASSUME IInv, ModeInv, pc = "settled", InTrs, Decided.step = "DONE"
  PROVE  Restored \/ (session.step = "TEARDOWN" /\ Failed)
<1>1. session.step \in {"SET_MODE", "XMIT", "DISCONNECT_CARD", "TEARDOWN"}
  BY DEF IInv, SessionInv, TypeOK, SessionOK, SessionType, Steps
<1>2. session.step \in DOMAIN StepCommand => cmd = StepCommand[session.step]
  BY DEF IInv, PhaseInv, SessionInv
<1>3. CASE Failed
  <2>1. AdvancedOnError.step = "DONE"
    BY <1>3 DEF Decided
  <2>2. session.step = "TEARDOWN"
    BY <1>1, <2>1 DEF AdvancedOnError, AfterError
  <2> QED
    BY <1>3, <2>2
<1>4. CASE ~Failed
  <2>1. Advanced.step = "DONE"
    BY <1>4 DEF Decided
  <2>2. CASE session.step = "SET_MODE"
    <3>1. cmd = "SET01"
      BY <1>2, <2>2 DEF StepCommand
    <3>2. ~cp_cmd_failure_is_soft
      BY <2>2, <3>1 DEF cp_cmd_failure_is_soft, cp_cmd_is_app_owned
    <3>3. reply \in {"ACK"} \cup (Xrd \ {"ERROR"})
      BY <1>4, <3>1, <3>2 DEF Failed, cp_check_online_response, Xwr
    <3>4. reply \notin {"ACK", "MODE01"}
      BY <2>1, <2>2 DEF Advanced
    <3> QED
      BY <3>1, <3>3, <3>4 DEF ModeInv, Declines01
  <2>3. CASE session.step = "TEARDOWN"
    <3>1. cmd = "SET00"
      BY <1>2, <2>3 DEF StepCommand
    <3>2. ~cp_cmd_failure_is_soft
      BY <2>3, <3>1 DEF cp_cmd_failure_is_soft, cp_cmd_is_app_owned
    <3>3. reply \in {"ACK"} \cup (Xrd \ {"ERROR"})
      BY <1>4, <3>1, <3>2 DEF Failed, cp_check_online_response, Xwr
    <3> QED
      BY <3>1, <3>3 DEF ModeInv, Obeys00
  <2>4. session.step \in {"SET_MODE", "TEARDOWN"}
    BY <1>1, <2>1 DEF Advanced
  <2> QED
    BY <2>2, <2>3, <2>4
<1> QED
  BY <1>3, <1>4

\* An exchange ends with a reply that tells of the mode it leaves the reader in.
LEMMA EndedModeInv ==
  ASSUME IInv, ModeInv, pc = "app", NEW r, Ended(r),
         cmd \notin {"SET00", "SET01"} /\ Restored => Restored',
         cmd = "SET00" /\ r \in {"ACK"} \cup (Xrd \ {"ERROR"}) => Restored',
         cmd = "SET01" /\ r \in Xrd \ {"ERROR", "MODE01"} => Restored'
  PROVE  ModeInv'
<1>1. reply' = r /\ stuck' = stuck /\ state' = state /\ cmd' = cmd /\ pc' = "settled"
  BY DEF Ended
<1>2. state = "ONLINE" => cmd \notin {"SET00", "SET01"}
  BY DEF IInv, SessionInv
<1> QED
  BY <1>1, <1>2 DEF ModeInv, Obeys00, Declines01

\* No step leaves a reader of an online CP in mode 01 unnoticed, unless it answers
\* SET_MODE 00 with the mode it stays in.
LEMMA StepModeInv ==
  ASSUME "keep" \notin Faults
  PROVE  IInv /\ ModeInv /\ [Next]_vars => ModeInv'
<1> SUFFICES ASSUME IInv, ModeInv, [Next]_vars PROVE ModeInv'
  OBVIOUS
<1>1. ASSUME NEW c \in Cmds, osdp_cp_submit_command(c) PROVE ModeInv'
  BY <1>1 DEF osdp_cp_submit_command, IInv, PhaseInv, SessionInv, ModeInv,
     Restored, Obeys00, Declines01, link, probing, reading
<1>2. ASSUME osdp_cp_flush_commands PROVE ModeInv'
  BY <1>2 DEF osdp_cp_flush_commands, IInv, PhaseInv, SessionInv, ModeInv,
     Restored, Obeys00, Declines01, link, probing, reading
<1>3. ASSUME osdp_cp_trs_scan_enable PROVE ModeInv'
  BY <1>3 DEF osdp_cp_trs_scan_enable, IInv, PhaseInv, SessionInv, ModeInv,
     Restored, Obeys00, Declines01, link, band, reading
<1>4. ASSUME osdp_cp_trs_scan_disable PROVE ModeInv'
  BY <1>4 DEF osdp_cp_trs_scan_disable, IInv, PhaseInv, SessionInv, ModeInv,
     Restored, Obeys00, Declines01, link, band, reading
<1>5. ASSUME NEW r \in {"DISABLE", "ENABLE"}, Lifecycle(r) PROVE ModeInv'
  BY <1>5 DEF Lifecycle, IInv, PhaseInv, SessionInv, ModeInv, Restored,
     Obeys00, Declines01, band, probing, reading
<1>6. ASSUME OnlineDequeue PROVE ModeInv'
  BY <1>6 DEF OnlineDequeue, IInv, PhaseInv, SessionInv, ModeInv, Restored,
     Obeys00, Declines01, Discard, Dequeue, Idle, link, probing, reading
<1>7. ASSUME OnlinePoll PROVE ModeInv'
  BY <1>7 DEF OnlinePoll, IInv, PhaseInv, SessionInv, ModeInv, Restored,
     Obeys00, Declines01, Issue, Idle, band, reading
<1>8. ASSUME SessionDequeue PROVE ModeInv'
  BY <1>8 DEF SessionDequeue, IInv, PhaseInv, SessionInv, ModeInv, Restored,
     Obeys00, Declines01, Discard, Dequeue, Idle, link, probing, reading
<1>9. ASSUME SessionIdle PROVE ModeInv'
  BY <1>9 DEF SessionIdle, IInv, PhaseInv, SessionInv, ModeInv, Restored,
     Obeys00, Declines01, Issue, Idle, band, reading
<1>10. ASSUME SessionStep PROVE ModeInv'
  BY <1>10 DEF SessionStep, IInv, PhaseInv, SessionInv, ModeInv, Restored,
     Obeys00, Declines01, Issue, Idle, StepCommand, band, reading
<1>11. ASSUME NotBuilt PROVE ModeInv'
  <2>1. pc = "app" /\ Ended("SILENCE") /\ "SILENCE" \notin {"ACK"} \cup Xrd
    BY <1>11 DEF NotBuilt, OnWire, Xrd
  <2>2. cmd \notin {"SET00", "SET01"} /\ Restored => Restored'
    BY <1>11 DEF NotBuilt, Restored
  <2> QED
    BY <2>1, <2>2, EndedModeInv
<1>12. ASSUME Settle PROVE ModeInv'
  <2>1. pc = "settled" /\ reader' = reader
    BY <1>12 DEF Settle
  <2>2. CASE InTrs /\ Decided.step # "DONE" /\ EnterRun(Decided)
    BY <2>1, <2>2 DEF EnterRun, Resume, ModeInv, InTrs
  <2>3. CASE /\ InTrs /\ Decided.step = "DONE" /\ EnterOnline(Decided)
             /\ stuck' = (session.step = "TEARDOWN" /\ Failed)
    <3>1. Restored \/ (session.step = "TEARDOWN" /\ Failed)
      BY <2>1, <2>3, ClosedRestored
    <3>2. Restored' \/ stuck'
      BY <2>1, <2>3, <3>1 DEF Restored
    <3> QED
      BY <2>3, <3>2 DEF EnterOnline, ModeInv
  <2>4. CASE ~InTrs /\ Resume /\ stuck' = stuck /\ state' = state
    BY <2>1, <2>4 DEF Resume, ModeInv, Restored
  <2>5. ASSUME NEW n \in Outside, Leave(n) PROVE ModeInv'
    BY <2>5 DEF Leave, Resume, Outside, ModeInv
  <2> QED
    BY <1>12, <2>2, <2>3, <2>4, <2>5, SettleCases
<1>13. ASSUME FlushStep PROVE ModeInv'
  BY <1>13 DEF FlushStep, IInv, PhaseInv, SessionInv, ModeInv, Restored,
     Obeys00, Declines01, link, probing, reading
<1>14. ASSUME FlushDone PROVE ModeInv'
  BY <1>14 DEF FlushDone, ModeInv, Restored, reading
<1>15. ASSUME Open PROVE ModeInv'
  <2>1. CASE EnterSetup(FALSE)
    BY <2>1 DEF EnterSetup, Resume, ModeInv
  <2>2. CASE Leave(Override("TRS_SETUP")) /\ Override("TRS_SETUP") # "TRS_SETUP"
    BY <2>2 DEF Leave, Resume, Override, ModeInv
  <2> QED
    BY <1>15, <2>1, <2>2 DEF Open
<1>16. ASSUME ScanDue PROVE ModeInv'
  <2>1. CASE EnterSetup(TRUE)
    BY <2>1 DEF EnterSetup, Resume, ModeInv
  <2>2. CASE Leave(Override("TRS_SETUP")) /\ Override("TRS_SETUP") # "TRS_SETUP"
    BY <2>2 DEF Leave, Resume, Override, ModeInv
  <2> QED
    BY <1>16, <2>1, <2>2 DEF ScanDue
<1>17. ASSUME Adopt PROVE ModeInv'
  BY <1>17 DEF Adopt, IInv, PhaseInv, SessionInv, ModeInv, Restored, Obeys00,
     Declines01, link, band, reading
<1>18. ASSUME Stop PROVE ModeInv'
  BY <1>18 DEF Stop, IInv, PhaseInv, SessionInv, ModeInv, Restored, Obeys00,
     Declines01, band, probing, reading
<1>19. ASSUME IdlePass PROVE ModeInv'
  BY <1>19 DEF IdlePass, IInv, PhaseInv, SessionInv, ModeInv, Restored,
     Obeys00, Declines01, Leave, Resume, Idle, reading, Override
<1>20. ASSUME Redial PROVE ModeInv'
  BY <1>20 DEF Redial, IInv, PhaseInv, SessionInv, ModeInv, Restored, Obeys00,
     Declines01, Leave, Resume, Idle, reading
<1>21. ASSUME Connect("ONLINE") PROVE ModeInv'
  BY <1>21 DEF IInv, PhaseInv, SessionInv, ModeInv, Restored, Obeys00,
     Declines01, Connect, Idle, band, probing, osdp_trs_pd_reset
<1>22. ASSUME Answered PROVE ModeInv'
  <2>1. PICK r \in IF reader.synced THEN Accepts(cmd) ELSE {"NAK_LINK"} :
          /\ Ended(r)
          /\ reader' = IF reader.synced
                       THEN [reader EXCEPT !.mode = ModeAfter(cmd)] ELSE reader
    BY <1>22 DEF Answered
  <2>2. pc = "app" /\ reader \in [mode : {0, 1}, synced : BOOLEAN]
    BY <1>22 DEF Answered, OnWire, IInv, TypeOK, ReaderOK
  <2>3. cmd \notin {"SET00", "SET01"} /\ Restored => Restored'
    BY <2>1, <2>2 DEF Restored, ModeAfter
  <2>4. cmd = "SET00" => Restored'
    BY <2>1, <2>2 DEF Restored, ModeAfter
  <2>5. cmd = "SET01" => r \notin Xrd
    BY <2>1, <2>2 DEF Accepts, Xrd
  <2> QED
    BY <2>1, <2>2, <2>3, <2>4, <2>5, EndedModeInv
<1>23. ASSUME Declined PROVE ModeInv'
  <2>1. PICK r \in Declines(cmd) : Ended(r)
    BY <1>23 DEF Declined
  <2>2. /\ pc = "app" /\ reader' = reader
        /\ reader \in [mode : {0, 1}, synced : BOOLEAN]
    BY <1>23 DEF Declined, OnWire, IInv, TypeOK, ReaderOK
  <2>3. Restored' = Restored
    BY <2>2 DEF Restored
  <2>4. cmd = "SET00" => r \in {"NAK", "ERROR"}
    BY <2>1 DEF Declines
  <2>5. cmd = "SET01" /\ r \in Xrd \ {"ERROR", "MODE01"} => Restored
    BY <2>1, <2>2 DEF Declines, ModeReport, Xrd, Restored
  <2> QED
    BY <2>1, <2>2, <2>3, <2>4, <2>5, EndedModeInv DEF Xrd
<1>24. ASSUME Lost PROVE ModeInv'
  <2>1. pc = "app" /\ Ended("SILENCE") /\ "SILENCE" \notin {"ACK"} \cup Xrd
    BY <1>24 DEF Lost, OnWire, Xrd
  <2>2. cmd \notin {"SET00", "SET01"} /\ Restored => Restored'
    BY <1>24 DEF Lost, Restored, ModeAfter, IInv, TypeOK, ReaderOK
  <2> QED
    BY <2>1, <2>2, EndedModeInv
<1>25. ASSUME BusyThroughout PROVE ModeInv'
  <2>1. pc = "app" /\ Ended("BUSY") /\ "BUSY" \notin {"ACK"} \cup Xrd
    BY <1>25 DEF BusyThroughout, OnWire, Xrd
  <2>2. cmd \notin {"SET00", "SET01"} /\ Restored => Restored'
    BY <1>25 DEF BusyThroughout, Restored
  <2> QED
    BY <2>1, <2>2, EndedModeInv
<1>26. ASSUME OutOfStep PROVE ModeInv'
  <2>1. pc = "app" /\ Ended("NAK_LINK") /\ "NAK_LINK" \notin {"ACK"} \cup Xrd
    BY <1>26 DEF OutOfStep, OnWire, Xrd
  <2>2. cmd \notin {"SET00", "SET01"} /\ Restored => Restored'
    BY <1>26 DEF OutOfStep, Restored
  <2> QED
    BY <2>1, <2>2, EndedModeInv
<1>27. ASSUME ReaderRestarts PROVE ModeInv'
  BY <1>27 DEF ReaderRestarts, IInv, PhaseInv, SessionInv, ModeInv, Restored,
     Obeys00, Declines01, Spend, link, band, probing
<1>28. ASSUME Unreachable PROVE ModeInv'
  BY <1>28 DEF Unreachable, IInv, PhaseInv, SessionInv, ModeInv, Restored,
     Obeys00, Declines01, Spend, Idle, band, probing
<1>29. ASSUME NEW w \in Waits, WaitOver(w) PROVE ModeInv'
  BY <1>29 DEF WaitOver, IInv, PhaseInv, SessionInv, ModeInv, Restored,
     Obeys00, Declines01, link, band, reading
<1>30. CASE UNCHANGED vars
  BY <1>30 DEF vars, link, band, probing, reading, IInv, PhaseInv, SessionInv,
     ModeInv, Restored, Obeys00, Declines01
<1> QED
  BY <1>1, <1>2, <1>3, <1>4, <1>5, <1>6, <1>7, <1>8, <1>9, <1>10, <1>11,
     <1>12, <1>13, <1>14, <1>15, <1>16, <1>17, <1>18, <1>19, <1>20, <1>21,
     <1>22, <1>23, <1>24, <1>25, <1>26, <1>27, <1>28, <1>29, <1>30 DEF Next,
     Api, Refresh, Line

\* A session that ends on line has left the reader in mode 00, or the CP has
\* seen the restore fail: whatever is lost, refused, restarted or cut, as long
\* as a reader that stays in mode 01 does not answer SET_MODE 00 by reporting
\* that as success.
THEOREM ModeIsRestored ==
  ASSUME "keep" \notin Faults
  PROVE  Spec => []ReaderRestored
<1>1. Init => ModeInv
  BY DEF Init, ModeInv
<1>2. IInv /\ ModeInv /\ [Next]_vars => ModeInv'
  BY StepModeInv
<1>3. ModeInv => ReaderRestored
  BY DEF ModeInv, Restored, ReaderRestored
<1> QED
  BY <1>1, <1>2, <1>3, Invariance, PTL DEF Spec

==============================================================================
