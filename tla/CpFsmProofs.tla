---------------------------- MODULE CpFsmProofs ----------------------------
(* Theorems about CpFsm, for every set of commands, every retry budget and
   every choice of options and faults.                                       *)
EXTENDS CpFsm, SequenceTheorems, TLAPS

-----------------------------------------------------------------------------
(* The inductive invariant behind the safety properties. *)

Down == {"OFFLINE", "DISABLED"}

\* Where the exchange FSM can be at each label of state_update().
PhaseInv ==
    /\ pc = "app" => phy \notin {"DONE", "ERR"}
    /\ pc = "exchanged" => phy \in {"DONE", "ERR"}
    /\ pc \in {"settled", "entering"} => phy = "IDLE"
    /\ phy # "IDLE" => state \notin Down
    /\ active # NoCmd => state = "ONLINE" /\ phy # "IDLE"
    /\ pc = "entering" => next \in Down /\ state # "DISABLED"

\* A request of the session outlives neither the pass nor the session.
RequestInv ==
    /\ "RESTART_SC" \in request =>
         pc = "settled" /\ state = "ONLINE" /\ ~scActive
    /\ "LINK_RESET" \in request =>
         pc \in {"exchanged", "settled"} /\ state \notin Down
    /\ "ENABLE" \in request => state = "DISABLED"

\* A session lives from SC_SCRYPT to the end of ONLINE or SET_SCBK; one that is
\* lost in ONLINE has already doomed the visit.
SessionInv ==
    /\ scActive => state \in {"ONLINE", "SET_SCBK"}
    /\ pc = "entering" => ~scActive
    /\ established => ~useScbkd
    /\ state = "ONLINE" /\ scActive => ~useScbkd
    /\ state = "ONLINE" =>
         \/ scActive = onlineSecure
         \/ pc = "exchanged" /\ phy = "ERR" /\ reply = "NAK_LOCAL"
         \/ pc = "settled" /\ (err \/ "RESTART_SC" \in request)
         \/ pc = "entering"

IInv == TypeOK /\ PhaseInv /\ RequestInv /\ SessionInv

-----------------------------------------------------------------------------
(* Facts about the helpers *)

\* The transition tables of state_update() only name protocol states.
LEMMA NextStateType ==
  ASSUME TypeOK, NEW elapsed \in BOOLEAN
  PROVE  get_next_state(elapsed) \in States
  BY DEF TypeOK, ControlOK, States, get_next_state, get_next_ok_state,
         get_next_err_state, AfterDwell, WithoutSc

\* state_get_cmd() names a command in every state but ONLINE.
LEMMA HandshakeCmdType ==
  ASSUME ControlOK, state # "ONLINE"
  PROVE  HandshakeCmd[state] \in CmdIds
  BY DEF ControlOK, States, CmdIds, CmdKinds, HandshakeCmd

-----------------------------------------------------------------------------
(* Type correctness *)

\* osdp_cp_setup() starts every PD in a well-typed state.
LEMMA InitTypeOK == Init => TypeOK
<1> SUFFICES ASSUME Init PROVE TypeOK
  OBVIOUS
<1>1. ControlOK
  BY DEF Init, ControlOK, States, Requests
<1>2. ExchangeOK
  <2>1. cmd \in CmdIds /\ reply \in ReplyIds
    BY DEF Init, CmdIds, ReplyIds
  <2>2. phy \in PhyStates /\ retry \in 0..MaxRetries
    BY OptionsAssumption DEF Init, PhyStates
  <2>3. crc \in [use : BOOLEAN, declared : BOOLEAN]
    BY DEF Init
  <2> QED
    BY <2>1, <2>2, <2>3 DEF Init, ExchangeOK
<1>3. SecurityOK
  BY OptionsAssumption DEF Init, SecurityOK
<1>4. CommandsOK
  BY CmdsAssumption DEF Init, CommandsOK
<1> QED
  BY <1>1, <1>2, <1>3, <1>4 DEF TypeOK

\* Every API call, phy step and state_update() pass keeps every variable in its
\* type.
LEMMA StepTypeOK == TypeOK /\ [Next]_vars => TypeOK'
<1> SUFFICES ASSUME TypeOK, [Next]_vars PROVE TypeOK'
  OBVIOUS
<1> USE DEF TypeOK
<1>1. ASSUME NEW c \in Cmds, osdp_cp_submit_command(c) PROVE TypeOK'
  BY <1>1 DEF osdp_cp_submit_command, ControlOK, ExchangeOK, SecurityOK,
     CommandsOK, commands, exchange, security, control
<1>2. ASSUME osdp_cp_flush_commands PROVE TypeOK'
  BY <1>2 DEF osdp_cp_flush_commands, ControlOK, ExchangeOK, SecurityOK,
     CommandsOK, exchange, security, control
<1>3. ASSUME osdp_cp_disable_pd PROVE TypeOK'
  BY <1>3 DEF osdp_cp_disable_pd, ControlOK, ExchangeOK, SecurityOK,
     CommandsOK, exchange, security, commands, Requests
<1>4. ASSUME osdp_cp_enable_pd PROVE TypeOK'
  BY <1>4 DEF osdp_cp_enable_pd, ControlOK, ExchangeOK, SecurityOK,
     CommandsOK, exchange, security, commands, Requests
<1>5. ASSUME osdp_cp_modify_flag PROVE TypeOK'
  BY <1>5 DEF osdp_cp_modify_flag, ControlOK, ExchangeOK, SecurityOK,
     CommandsOK, exchange, commands, control
<1>6. ASSUME PhyWaitOver PROVE TypeOK'
  <2>1. ControlOK'
    BY <1>6 DEF PhyWaitOver, ControlOK, Yield
  <2>2. ExchangeOK'
    BY <1>6 DEF PhyWaitOver, ExchangeOK, PhyStates, Yield
  <2>3. SecurityOK' /\ CommandsOK'
    BY <1>6 DEF PhyWaitOver, SecurityOK, CommandsOK, security, commands
  <2> QED
    BY <2>1, <2>2, <2>3
<1>7. ASSUME PhyBuild PROVE TypeOK'
  <2>1. ControlOK'
    BY <1>7 DEF PhyBuild, ControlOK, PhySend, Ended, Yield
  <2>2. ExchangeOK'
    BY <1>7 DEF PhyBuild, ExchangeOK, PhyStates, PhySend, ReplyAfterSend,
       Ended, Yield,
       PacketAddress, BroadcastFlagAfterInit, ReplyIds
  <2>3. SecurityOK' /\ CommandsOK'
    BY <1>7 DEF PhyBuild, SecurityOK, CommandsOK, security, commands
  <2> QED
    BY <2>1, <2>2, <2>3
<1>8. ASSUME PhySendWait PROVE TypeOK'
  <2>1. ControlOK'
    BY <1>8 DEF PhySendWait, ControlOK, PhySend, Ended, Yield
  <2>2. ExchangeOK'
    BY <1>8 DEF PhySendWait, ExchangeOK, PhyStates, PhySend, ReplyAfterSend,
       Ended, Yield,
       ReplyIds
  <2>3. SecurityOK' /\ CommandsOK'
    BY <1>8 DEF PhySendWait, SecurityOK, CommandsOK, security, commands
  <2> QED
    BY <2>1, <2>2, <2>3
<1>9. ASSUME PhyTimeout PROVE TypeOK'
  <2>1. ControlOK'
    BY <1>9 DEF PhyTimeout, ControlOK, RetryOr, PhyError, Ended, Yield
  <2>2. ExchangeOK'
    BY <1>9, OptionsAssumption DEF PhyTimeout, ExchangeOK, PhyStates,
       RetryOr, PhyError, Ended, Yield, MayRetry, Spent
  <2>3. SecurityOK' /\ CommandsOK'
    BY <1>9 DEF PhyTimeout, SecurityOK, CommandsOK, security, commands
  <2> QED
    BY <2>1, <2>2, <2>3
<1>10. ASSUME PhyBusy PROVE TypeOK'
  <2>1. ControlOK'
    BY <1>10 DEF PhyBusy, ControlOK, RetryOr, PhyDone, Ended, Yield
  <2>2. ExchangeOK'
    BY <1>10, OptionsAssumption DEF PhyBusy, ExchangeOK, PhyStates, RetryOr,
       PhyDone, Ended, Yield, MayRetry, Spent, ReplyIds
  <2>3. SecurityOK' /\ CommandsOK'
    BY <1>10 DEF PhyBusy, SecurityOK, CommandsOK, security, commands
  <2> QED
    BY <2>1, <2>2, <2>3
<1>11. ASSUME PhySeqMismatch PROVE TypeOK'
  <2>1. ControlOK'
    BY <1>11 DEF PhySeqMismatch, ControlOK, PhyDone, Ended, Requests
  <2>2. ExchangeOK'
    BY <1>11, OptionsAssumption DEF PhySeqMismatch, ExchangeOK, PhyStates,
       PhyDone, Ended, ReplyIds, Naks
  <2>3. SecurityOK' /\ CommandsOK'
    BY <1>11 DEF PhySeqMismatch, SecurityOK, CommandsOK, security, commands
  <2> QED
    BY <2>1, <2>2, <2>3
<1>12. ASSUME PhyBadFrame PROVE TypeOK'
  <2>1. ControlOK'
    BY <1>12 DEF PhyBadFrame, ControlOK, PhyError, Ended
  <2>2. ExchangeOK'
    BY <1>12 DEF PhyBadFrame, ExchangeOK, PhyStates, PhyError, Ended
  <2>3. SecurityOK' /\ CommandsOK'
    BY <1>12 DEF PhyBadFrame, SecurityOK, CommandsOK, security, commands
  <2> QED
    BY <2>1, <2>2, <2>3
<1>13. ASSUME PhySecurityRefusal PROVE TypeOK'
  <2>1. ControlOK'
    BY <1>13 DEF PhySecurityRefusal, ControlOK, PhyError, Ended
  <2>2. ExchangeOK'
    BY <1>13 DEF PhySecurityRefusal, ExchangeOK, PhyStates, PhyError, Ended,
       ReplyIds, Naks
  <2>3. SecurityOK' /\ CommandsOK'
    BY <1>13 DEF PhySecurityRefusal, SecurityOK, CommandsOK, commands
  <2> QED
    BY <2>1, <2>2, <2>3
<1>14. ASSUME PhyUnknownReply PROVE TypeOK'
  <2>1. ControlOK'
    BY <1>14 DEF PhyUnknownReply, ControlOK, PhyDone, PhyError, Ended
  <2>2. ExchangeOK'
    BY <1>14, OptionsAssumption DEF PhyUnknownReply, ExchangeOK, PhyStates,
       PhyDone, PhyError, Ended, ReplyIds, WireReplies
  <2>3. SecurityOK' /\ CommandsOK'
    BY <1>14 DEF PhyUnknownReply, SecurityOK, CommandsOK, security, commands
  <2> QED
    BY <2>1, <2>2, <2>3
<1>15. ASSUME PhyNakCheck PROVE TypeOK'
  <2>1. ControlOK'
    BY <1>15 DEF PhyNakCheck, ControlOK, RetryOr, PhyDone, Ended, Yield
  <2>2. crc' \in [use : BOOLEAN, declared : BOOLEAN]
    BY <1>15 DEF PhyNakCheck, ExchangeOK
  <2>3. ExchangeOK'
    BY <1>15, OptionsAssumption, <2>2 DEF PhyNakCheck, ExchangeOK,
       PhyStates, RetryOr, PhyDone, Ended, Yield, MayRetry, Spent, ReplyIds,
       Naks
  <2>4. SecurityOK' /\ CommandsOK'
    BY <1>15 DEF PhyNakCheck, SecurityOK, CommandsOK, security, commands
  <2> QED
    BY <2>1, <2>2, <2>3, <2>4
<1>16. ASSUME NEW r \in WireReplies, PhyReply(r) PROVE TypeOK'
  <2>1. ControlOK'
    BY <1>16 DEF PhyReply, ControlOK, PhyDone, Ended
  <2>2. ExchangeOK'
    BY <1>16, OptionsAssumption DEF PhyReply, ExchangeOK, PhyStates,
       PhyDone, Ended, ReplyIds
  <2>3. SecurityOK' /\ CommandsOK'
    BY <1>16 DEF PhyReply, SecurityOK, CommandsOK, commands
  <2> QED
    BY <2>1, <2>2, <2>3
<1>17. ASSUME NEW r \in WireReplies, PhyDecodeFailure(r) PROVE TypeOK'
  <2>1. ControlOK'
    BY <1>17 DEF PhyDecodeFailure, ControlOK, PhyError, Ended
  <2>2. ExchangeOK'
    BY <1>17 DEF PhyDecodeFailure, ExchangeOK, PhyStates, PhyError, Ended,
       ReplyIds
  <2>3. SecurityOK' /\ CommandsOK'
    BY <1>17 DEF PhyDecodeFailure, SecurityOK, CommandsOK, security,
       commands
  <2> QED
    BY <2>1, <2>2, <2>3
<1>18. ASSUME IdleHandshake PROVE TypeOK'
  <2>1. ControlOK'
    BY <1>18 DEF IdleHandshake, ControlOK, control, Kick, NoCommand
  <2>2. ExchangeOK'
    BY <1>18, HandshakeCmdType DEF IdleHandshake, ExchangeOK, PhyStates,
       CmdIds, Kick, NoCommand
  <2>3. SecurityOK' /\ CommandsOK'
    BY <1>18 DEF IdleHandshake, SecurityOK, CommandsOK, security, commands
  <2> QED
    BY <2>1, <2>2, <2>3
<1>19. ASSUME IdleDequeue PROVE TypeOK'
  <2>1. ControlOK'
    BY <1>19 DEF IdleDequeue, ControlOK, control, Kick, NoCommand
  <2>2. Kind[Head(queue)] \in CmdIds
    BY <1>19, CmdsAssumption DEF IdleDequeue, CommandsOK, CmdIds
  <2>3. ExchangeOK'
    BY <1>19, <2>2 DEF IdleDequeue, ExchangeOK, PhyStates, CmdIds, Kick,
       NoCommand
  <2>4. SecurityOK'
    BY <1>19 DEF IdleDequeue, SecurityOK, security
  <2>5. CommandsOK'
    BY <1>19, CmdsAssumption DEF IdleDequeue, CommandsOK, Kick, NoCommand
  <2> QED
    BY <2>1, <2>2, <2>3, <2>4, <2>5
<1>20. ASSUME IdlePoll PROVE TypeOK'
  <2>1. ControlOK'
    BY <1>20 DEF IdlePoll, ControlOK, control, Kick, NoCommand
  <2>2. ExchangeOK'
    BY <1>20 DEF IdlePoll, ExchangeOK, PhyStates, CmdIds, Kick, NoCommand
  <2>3. SecurityOK' /\ CommandsOK'
    BY <1>20 DEF IdlePoll, SecurityOK, CommandsOK, security, commands
  <2> QED
    BY <2>1, <2>2, <2>3
<1>21. ASSUME Settle PROVE TypeOK'
  <2>1. ControlOK'
    BY <1>21 DEF Settle, ControlOK, Requests, KeysetComplete
  <2>2. ExchangeOK'
    BY <1>21 DEF Settle, ExchangeOK, PhyStates
  <2>3. active # NoCmd => KeyOf[active] \in Keys
    BY <1>21, CmdsAssumption DEF Settle, CommandsOK
  <2>4. scbk' \in Keys
    BY <1>21, <2>3 DEF Settle, SecurityOK, KeysetComplete, HoldsKeyset
  <2>5. useScbkd' \in BOOLEAN /\ scActive' \in BOOLEAN
    BY <1>21 DEF Settle, SecurityOK, KeysetComplete
  <2>6. SecurityOK'
    BY <1>21, <2>4, <2>5 DEF Settle, SecurityOK
  <2>7. CommandsOK'
    BY <1>21 DEF Settle, CommandsOK, CompleteActive
  <2> QED
    BY <2>1, <2>2, <2>3, <2>4, <2>5, <2>6, <2>7
<1>22. ASSUME LinkReset PROVE TypeOK'
  <2>1. ControlOK'
    BY <1>22, OptionsAssumption DEF LinkReset, ControlOK, States, Requests,
       ChangeState, StopsSession, Lifecycle
  <2>2. ExchangeOK'
    BY <1>22, OptionsAssumption DEF LinkReset, ExchangeOK,
       RetryAfterEntering
  <2>3. SecurityOK'
    BY <1>22 DEF LinkReset, SecurityOK, ChangeState
  <2>4. CommandsOK'
    BY <1>22 DEF LinkReset, CommandsOK, ChangeState
  <2> QED
    BY <2>1, <2>2, <2>3, <2>4
<1>23. ASSUME NEW b \in BOOLEAN, Advance(b) PROVE TypeOK'
  <2>1. ControlOK'
    BY <1>23, OptionsAssumption, NextStateType DEF Advance, ControlOK,
       States, Requests, ChangeState, StopsSession, Lifecycle
  <2>2. ExchangeOK'
    BY <1>23, OptionsAssumption DEF Advance, ExchangeOK, RetryAfterEntering
  <2>3. SecurityOK'
    BY <1>23 DEF Advance, SecurityOK, ChangeState, ScActiveAfter,
       UseScbkdAfter, EstablishedAfter
  <2>4. CommandsOK'
    BY <1>23 DEF Advance, CommandsOK, ChangeState
  <2> QED
    BY <2>1, <2>2, <2>3, <2>4
<1>24. ASSUME EnterState PROVE TypeOK'
  BY <1>24 DEF EnterState, ControlOK, ExchangeOK, SecurityOK, CommandsOK,
     exchange, security, commands
<1>25. CASE UNCHANGED vars
  BY <1>25 DEF vars, exchange, security, commands, control, ControlOK,
     ExchangeOK, SecurityOK, CommandsOK
<1> QED
  BY <1>1, <1>2, <1>3, <1>4, <1>5, <1>6, <1>7, <1>8, <1>9, <1>10, <1>11,
     <1>12, <1>13, <1>14, <1>15, <1>16, <1>17, <1>18, <1>19, <1>20, <1>21,
     <1>22, <1>23, <1>24, <1>25 DEF Next, Api, osdp_cp_refresh, CpSteps,
     Transmits, PdAnswers

\* Every variable of the CP's state machine for a PD keeps to its type, and the
\* retry counter to its budget, for every number of commands and retries.
THEOREM TypeCorrect == Spec => []TypeOK
<1>1. Init => TypeOK
  BY InitTypeOK
<1>2. TypeOK /\ [Next]_vars => TypeOK'
  BY StepTypeOK
<1> QED
  BY <1>1, <1>2, PTL DEF Spec

-----------------------------------------------------------------------------
(* The inductive invariant *)

\* osdp_cp_setup() establishes the invariant.
LEMMA InitIInv == Init => IInv
<1> SUFFICES ASSUME Init PROVE IInv
  OBVIOUS
<1>1. TypeOK
  BY InitTypeOK
<1>2. PhaseInv
  BY CmdsAssumption DEF Init, PhaseInv, Down
<1>3. RequestInv /\ SessionInv
  BY DEF Init, RequestInv, SessionInv
<1> QED
  BY <1>1, <1>2, <1>3 DEF IInv


\* The exchange FSM and state_update() stay in phase.
LEMMA StepPhaseInv == IInv /\ [Next]_vars => PhaseInv'
<1> SUFFICES ASSUME IInv, [Next]_vars PROVE PhaseInv'
  OBVIOUS
<1>1. ASSUME NEW c \in Cmds, osdp_cp_submit_command(c) PROVE PhaseInv'
  BY <1>1 DEF osdp_cp_submit_command, IInv, PhaseInv, exchange, security,
     control
<1>2. ASSUME osdp_cp_flush_commands PROVE PhaseInv'
  BY <1>2 DEF osdp_cp_flush_commands, IInv, PhaseInv, exchange, security,
     control
<1>3. ASSUME osdp_cp_disable_pd PROVE PhaseInv'
  BY <1>3 DEF osdp_cp_disable_pd, IInv, PhaseInv, exchange, security,
     commands
<1>4. ASSUME osdp_cp_enable_pd PROVE PhaseInv'
  BY <1>4 DEF osdp_cp_enable_pd, IInv, PhaseInv, exchange, security,
     commands
<1>5. ASSUME osdp_cp_modify_flag PROVE PhaseInv'
  BY <1>5 DEF osdp_cp_modify_flag, IInv, PhaseInv, exchange, commands,
     control
<1>6. ASSUME PhyWaitOver PROVE PhaseInv'
  BY <1>6 DEF PhyWaitOver, IInv, PhaseInv, Yield, commands
<1>7. ASSUME PhyBuild PROVE PhaseInv'
  BY <1>7 DEF PhyBuild, IInv, PhaseInv, PhySend, Ended, Yield, commands
<1>8. ASSUME PhySendWait PROVE PhaseInv'
  BY <1>8 DEF PhySendWait, IInv, PhaseInv, PhySend, Ended, Yield, commands
<1>9. ASSUME PhyTimeout PROVE PhaseInv'
  BY <1>9 DEF PhyTimeout, IInv, PhaseInv, RetryOr, PhyError, Ended, Yield,
     commands
<1>10. ASSUME PhyBusy PROVE PhaseInv'
  BY <1>10 DEF PhyBusy, IInv, PhaseInv, RetryOr, PhyDone, Ended, Yield,
     commands
<1>11. ASSUME PhySeqMismatch PROVE PhaseInv'
  BY <1>11 DEF PhySeqMismatch, IInv, PhaseInv, PhyDone, Ended, commands
<1>12. ASSUME PhyBadFrame PROVE PhaseInv'
  BY <1>12 DEF PhyBadFrame, IInv, PhaseInv, PhyError, Ended, commands
<1>13. ASSUME PhySecurityRefusal PROVE PhaseInv'
  BY <1>13 DEF PhySecurityRefusal, IInv, PhaseInv, PhyError, Ended, commands
<1>14. ASSUME PhyUnknownReply PROVE PhaseInv'
  BY <1>14 DEF PhyUnknownReply, IInv, PhaseInv, PhyDone, PhyError, Ended,
     commands
<1>15. ASSUME PhyNakCheck PROVE PhaseInv'
  BY <1>15 DEF PhyNakCheck, IInv, PhaseInv, RetryOr, PhyDone, Ended, Yield,
     commands
<1>16. ASSUME NEW r \in WireReplies, PhyReply(r) PROVE PhaseInv'
  BY <1>16 DEF PhyReply, IInv, PhaseInv, PhyDone, Ended, commands
<1>17. ASSUME NEW r \in WireReplies, PhyDecodeFailure(r) PROVE PhaseInv'
  BY <1>17 DEF PhyDecodeFailure, IInv, PhaseInv, PhyError, Ended, commands
<1>18. ASSUME IdleHandshake PROVE PhaseInv'
  BY <1>18 DEF IdleHandshake, IInv, PhaseInv, Kick, NoCommand, control,
     commands, Down, HandshakeCmd
<1>19. ASSUME IdleDequeue PROVE PhaseInv'
  BY <1>19 DEF IdleDequeue, IInv, PhaseInv, Kick, NoCommand, control,
     commands, Down
<1>20. ASSUME IdlePoll PROVE PhaseInv'
  BY <1>20 DEF IdlePoll, IInv, PhaseInv, Kick, NoCommand, control, commands,
     Down
<1>21. ASSUME Settle PROVE PhaseInv'
  BY <1>21 DEF Settle, IInv, PhaseInv
<1>22. ASSUME LinkReset PROVE PhaseInv'
  BY <1>22 DEF LinkReset, IInv, PhaseInv, ChangeState, StopsSession,
     Lifecycle, RequestInv, Down
<1>23. ASSUME NEW b \in BOOLEAN, Advance(b) PROVE PhaseInv'
  BY <1>23 DEF Advance, IInv, PhaseInv, ChangeState, StopsSession,
     Lifecycle, RequestInv, Down, get_next_state, get_next_ok_state,
     get_next_err_state, AfterDwell, WithoutSc
<1>24. ASSUME EnterState PROVE PhaseInv'
  BY <1>24 DEF EnterState, IInv, PhaseInv, exchange, security, commands,
     RequestInv, Down
<1>25. CASE UNCHANGED vars
  BY <1>25 DEF IInv, PhaseInv, vars, exchange, security, commands, control
<1> QED
  BY <1>1, <1>2, <1>3, <1>4, <1>5, <1>6, <1>7, <1>8, <1>9, <1>10, <1>11,
     <1>12, <1>13, <1>14, <1>15, <1>16, <1>17, <1>18, <1>19, <1>20, <1>21,
     <1>22, <1>23, <1>24, <1>25 DEF Next, Api, osdp_cp_refresh, CpSteps,
     Transmits, PdAnswers

\* Requests are consumed by the pass, or die with the session they belong to.
LEMMA StepRequestInv == IInv /\ [Next]_vars => RequestInv'
<1> SUFFICES ASSUME IInv, [Next]_vars PROVE RequestInv'
  OBVIOUS
<1>1. ASSUME NEW c \in Cmds, osdp_cp_submit_command(c) PROVE RequestInv'
  BY <1>1 DEF osdp_cp_submit_command, IInv, RequestInv, exchange, security,
     control
<1>2. ASSUME osdp_cp_flush_commands PROVE RequestInv'
  BY <1>2 DEF osdp_cp_flush_commands, IInv, RequestInv, exchange, security,
     control
<1>3. ASSUME osdp_cp_disable_pd PROVE RequestInv'
  BY <1>3 DEF osdp_cp_disable_pd, IInv, RequestInv, exchange, security,
     commands
<1>4. ASSUME osdp_cp_enable_pd PROVE RequestInv'
  BY <1>4 DEF osdp_cp_enable_pd, IInv, RequestInv, exchange, security,
     commands
<1>5. ASSUME osdp_cp_modify_flag PROVE RequestInv'
  BY <1>5 DEF osdp_cp_modify_flag, IInv, RequestInv, exchange, commands,
     control
<1>6. ASSUME PhyWaitOver PROVE RequestInv'
  BY <1>6 DEF PhyWaitOver, IInv, RequestInv, Yield, security, PhaseInv
<1>7. ASSUME PhyBuild PROVE RequestInv'
  BY <1>7 DEF PhyBuild, IInv, RequestInv, PhySend, Ended, Yield, security,
     PhaseInv
<1>8. ASSUME PhySendWait PROVE RequestInv'
  BY <1>8 DEF PhySendWait, IInv, RequestInv, PhySend, Ended, Yield,
     security, PhaseInv
<1>9. ASSUME PhyTimeout PROVE RequestInv'
  BY <1>9 DEF PhyTimeout, IInv, RequestInv, RetryOr, PhyError, Ended, Yield,
     security, PhaseInv
<1>10. ASSUME PhyBusy PROVE RequestInv'
  BY <1>10 DEF PhyBusy, IInv, RequestInv, RetryOr, PhyDone, Ended, Yield,
     security, PhaseInv
<1>11. ASSUME PhySeqMismatch PROVE RequestInv'
  BY <1>11 DEF PhySeqMismatch, IInv, RequestInv, PhyDone, Ended, security,
     PhaseInv, Down
<1>12. ASSUME PhyBadFrame PROVE RequestInv'
  BY <1>12 DEF PhyBadFrame, IInv, RequestInv, PhyError, Ended, security,
     PhaseInv
<1>13. ASSUME PhySecurityRefusal PROVE RequestInv'
  BY <1>13 DEF PhySecurityRefusal, IInv, RequestInv, PhyError, Ended,
     security, PhaseInv
<1>14. ASSUME PhyUnknownReply PROVE RequestInv'
  BY <1>14 DEF PhyUnknownReply, IInv, RequestInv, PhyDone, PhyError, Ended,
     security, PhaseInv
<1>15. ASSUME PhyNakCheck PROVE RequestInv'
  BY <1>15 DEF PhyNakCheck, IInv, RequestInv, RetryOr, PhyDone, Ended,
     Yield, security, PhaseInv
<1>16. ASSUME NEW r \in WireReplies, PhyReply(r) PROVE RequestInv'
  BY <1>16 DEF PhyReply, IInv, RequestInv, PhyDone, Ended, security,
     PhaseInv
<1>17. ASSUME NEW r \in WireReplies, PhyDecodeFailure(r) PROVE RequestInv'
  BY <1>17 DEF PhyDecodeFailure, IInv, RequestInv, PhyError, Ended,
     security, PhaseInv
<1>18. ASSUME IdleHandshake PROVE RequestInv'
  BY <1>18 DEF IdleHandshake, IInv, RequestInv, Kick, NoCommand, control,
     security, HandshakeCmd, Down, PhaseInv
<1>19. ASSUME IdleDequeue PROVE RequestInv'
  BY <1>19 DEF IdleDequeue, IInv, RequestInv, Kick, NoCommand, control,
     security, PhaseInv
<1>20. ASSUME IdlePoll PROVE RequestInv'
  BY <1>20 DEF IdlePoll, IInv, RequestInv, Kick, NoCommand, control,
     security, PhaseInv
<1>21. ASSUME Settle PROVE RequestInv'
  BY <1>21 DEF Settle, IInv, RequestInv, KeysetComplete, KeysetAcked,
     cp_is_online, PhaseInv
<1>22. ASSUME LinkReset PROVE RequestInv'
  BY <1>22 DEF LinkReset, IInv, RequestInv, ChangeState, StopsSession,
     Lifecycle, Down, PhaseInv
<1>23. ASSUME NEW b \in BOOLEAN, Advance(b) PROVE RequestInv'
  BY <1>23 DEF Advance, IInv, RequestInv, ChangeState, StopsSession,
     Lifecycle, Down, PhaseInv, get_next_state, get_next_ok_state,
     get_next_err_state, AfterDwell, WithoutSc
<1>24. ASSUME EnterState PROVE RequestInv'
  BY <1>24 DEF EnterState, IInv, RequestInv, exchange, security, commands,
     PhaseInv, Down
<1>25. CASE UNCHANGED vars
  BY <1>25 DEF IInv, RequestInv, vars, exchange, security, commands, control
<1> QED
  BY <1>1, <1>2, <1>3, <1>4, <1>5, <1>6, <1>7, <1>8, <1>9, <1>10, <1>11,
     <1>12, <1>13, <1>14, <1>15, <1>16, <1>17, <1>18, <1>19, <1>20, <1>21,
     <1>22, <1>23, <1>24, <1>25 DEF Next, Api, osdp_cp_refresh, CpSteps,
     Transmits, PdAnswers

\* The transition tables, their effects and cp_state_change() together keep the
\* session and the state consistent: the heart of the argument.
LEMMA AdvanceSession ==
  ASSUME IInv, NEW b \in BOOLEAN, Advance(b)
  PROVE  SessionInv'
<1> DEFINE n == get_next_state(b)
<1> DEFINE online == state = "ONLINE" \/ n = "ONLINE"
<1> DEFINE restart == online /\ "RESTART_SC" \in request
<1> DEFINE chosen == Lifecycle(IF restart THEN "SC_CHLNG" ELSE n)
<1> DEFINE taken == {"DISABLE", "ENABLE"} \cup (IF online THEN {"RESTART_SC"} ELSE {})
<1>1. /\ pc = "settled"
      /\ ChangeState(chosen, ScActiveAfter, request \ taken)
      /\ useScbkd' = UseScbkdAfter(n)
      /\ established' = EstablishedAfter(n)
  BY DEF Advance
<1>2. n = "SC_CHLNG" /\ state = "SC_CHLNG" /\ err => ~established
  BY DEF get_next_state, get_next_err_state, MayFallBackToScbkd, WithoutSc
<1>3. state = "SC_SCRYPT" /\ ~err /\ n # "SET_SCBK" => ~useScbkd
  BY DEF get_next_state, get_next_ok_state
<1>4. established' => ~useScbkd'
  BY <1>1, <1>2, <1>3 DEF IInv, SessionInv, EstablishedAfter, UseScbkdAfter
<1>5. CASE StopsSession(chosen)
  <2>1. pc' = "entering" /\ state' = state /\ ~scActive'
    BY <1>1, <1>5 DEF ChangeState
  <2> QED
    BY <2>1, <1>4 DEF SessionInv
<1>6. CASE ~StopsSession(chosen)
  <2>1. /\ pc' = "app" /\ state' = chosen /\ scActive' = ScActiveAfter
        /\ onlineSecure' = IF chosen = "ONLINE" /\ state # "ONLINE"
                           THEN ScActiveAfter ELSE onlineSecure
    BY <1>1, <1>6 DEF ChangeState
  <2>2. ASSUME state = "SC_SCRYPT", ~err
        PROVE  state' = n /\ n \in {"ONLINE", "SET_SCBK"}
    <3>1. n \in {"ONLINE", "SET_SCBK"}
      BY <2>2 DEF get_next_state, get_next_ok_state
    <3>2. "RESTART_SC" \notin request /\ "ENABLE" \notin request
      BY <2>2 DEF IInv, RequestInv
    <3> QED
      BY <3>1, <3>2, <2>1, <2>2, <1>6 DEF Lifecycle, StopsSession
  <2>3. ASSUME state = "ONLINE", state' = "ONLINE"
        PROVE  ~err /\ "RESTART_SC" \notin request
    <3>1. "ENABLE" \notin request
      BY <2>3 DEF IInv, RequestInv
    <3>2. ~restart /\ n = "ONLINE"
      BY <3>1, <2>1, <2>3 DEF Lifecycle
    <3> QED
      BY <3>2, <2>3 DEF get_next_state, get_next_err_state
  <2>4. ASSUME scActive, state # "SET_SCBK"
        PROVE  state = "ONLINE" /\ state' = "ONLINE"
    <3>1. state = "ONLINE" /\ "RESTART_SC" \notin request
             /\ "ENABLE" \notin request
      BY <2>4 DEF IInv, SessionInv, RequestInv
    <3>2. n \in {"ONLINE", "OFFLINE"}
      BY <3>1, <2>4 DEF get_next_state, get_next_ok_state, get_next_err_state
    <3> QED
      BY <3>1, <3>2, <2>1, <1>6 DEF Lifecycle, StopsSession
  <2>5. scActive' => state' \in {"ONLINE", "SET_SCBK"}
    BY <2>1, <2>2, <2>4 DEF ScActiveAfter
  <2>6. state' = "ONLINE" /\ scActive' => ~useScbkd'
    <3>1. SUFFICES ASSUME state' = "ONLINE", ScActiveAfter PROVE ~useScbkd'
      BY <2>1
    <3>2. CASE state = "SC_SCRYPT" /\ ~err
      BY <3>1, <3>2, <2>2, <1>1, <1>3 DEF UseScbkdAfter
    <3>3. CASE scActive /\ state # "SET_SCBK"
      BY <3>3, <2>4, <1>1 DEF UseScbkdAfter, IInv, SessionInv
    <3> QED
      BY <3>1, <3>2, <3>3 DEF ScActiveAfter
  <2>7. state' = "ONLINE" => scActive' = onlineSecure'
    <3>1. CASE state # "ONLINE"
      BY <3>1, <2>1
    <3>2. CASE state = "ONLINE"
      <4>1. SUFFICES ASSUME state' = "ONLINE" PROVE scActive' = onlineSecure'
        OBVIOUS
      <4>2. scActive = onlineSecure
        BY <4>1, <3>2, <2>3, <1>1 DEF IInv, SessionInv
      <4>3. ScActiveAfter = scActive
        BY <3>2 DEF ScActiveAfter, IInv, TypeOK, SecurityOK
      <4> QED
        BY <4>2, <4>3, <3>2, <2>1
    <3> QED
      BY <3>1, <3>2
  <2> QED
    BY <2>1, <2>5, <2>6, <2>7, <1>4 DEF SessionInv
<1> QED
  BY <1>5, <1>6

\* A session is neither lost nor gained behind the application's back.
LEMMA StepSessionInv == IInv /\ [Next]_vars => SessionInv'
<1> SUFFICES ASSUME IInv, [Next]_vars PROVE SessionInv'
  OBVIOUS
<1>1. ASSUME NEW c \in Cmds, osdp_cp_submit_command(c) PROVE SessionInv'
  BY <1>1 DEF osdp_cp_submit_command, IInv, SessionInv, exchange, security,
     control
<1>2. ASSUME osdp_cp_flush_commands PROVE SessionInv'
  BY <1>2 DEF osdp_cp_flush_commands, IInv, SessionInv, exchange, security,
     control
<1>3. ASSUME osdp_cp_disable_pd PROVE SessionInv'
  BY <1>3 DEF osdp_cp_disable_pd, IInv, SessionInv, exchange, security,
     commands
<1>4. ASSUME osdp_cp_enable_pd PROVE SessionInv'
  BY <1>4 DEF osdp_cp_enable_pd, IInv, SessionInv, exchange, security,
     commands
<1>5. ASSUME osdp_cp_modify_flag PROVE SessionInv'
  BY <1>5 DEF osdp_cp_modify_flag, IInv, SessionInv, exchange, commands,
     control
<1>6. ASSUME PhyWaitOver PROVE SessionInv'
  BY <1>6 DEF PhyWaitOver, IInv, SessionInv, Yield, security, PhaseInv
<1>7. ASSUME PhyBuild PROVE SessionInv'
  BY <1>7 DEF PhyBuild, IInv, SessionInv, PhySend, Ended, Yield, security,
     PhaseInv
<1>8. ASSUME PhySendWait PROVE SessionInv'
  BY <1>8 DEF PhySendWait, IInv, SessionInv, PhySend, Ended, Yield,
     security, PhaseInv
<1>9. ASSUME PhyTimeout PROVE SessionInv'
  BY <1>9 DEF PhyTimeout, IInv, SessionInv, RetryOr, PhyError, Ended, Yield,
     security, PhaseInv
<1>10. ASSUME PhyBusy PROVE SessionInv'
  BY <1>10 DEF PhyBusy, IInv, SessionInv, RetryOr, PhyDone, Ended, Yield,
     security, PhaseInv
<1>11. ASSUME PhySeqMismatch PROVE SessionInv'
  BY <1>11 DEF PhySeqMismatch, IInv, SessionInv, PhyDone, Ended, security,
     PhaseInv
<1>12. ASSUME PhyBadFrame PROVE SessionInv'
  BY <1>12 DEF PhyBadFrame, IInv, SessionInv, PhyError, Ended, security,
     PhaseInv
<1>13. ASSUME PhySecurityRefusal PROVE SessionInv'
  <2>1. scActive' => scActive
    BY <1>13 DEF PhySecurityRefusal, IInv, TypeOK, SecurityOK
  <2>2. /\ pc' = "exchanged" /\ phy' = "ERR" /\ reply' = "NAK_LOCAL"
        /\ UNCHANGED <<state, useScbkd, established>>
        /\ scActive' \in BOOLEAN
    BY <1>13 DEF PhySecurityRefusal, PhyError, Ended, IInv, TypeOK,
       SecurityOK
  <2> QED
    BY <2>1, <2>2 DEF IInv, SessionInv
<1>14. ASSUME PhyUnknownReply PROVE SessionInv'
  BY <1>14 DEF PhyUnknownReply, IInv, SessionInv, PhyDone, PhyError, Ended,
     security, PhaseInv
<1>15. ASSUME PhyNakCheck PROVE SessionInv'
  BY <1>15 DEF PhyNakCheck, IInv, SessionInv, RetryOr, PhyDone, Ended,
     Yield, security, PhaseInv
<1>16. ASSUME NEW r \in WireReplies, PhyReply(r) PROVE SessionInv'
  BY <1>16 DEF PhyReply, IInv, SessionInv, PhyDone, Ended, security,
     PhaseInv
<1>17. ASSUME NEW r \in WireReplies, PhyDecodeFailure(r) PROVE SessionInv'
  BY <1>17 DEF PhyDecodeFailure, IInv, SessionInv, PhyError, Ended,
     security, PhaseInv
<1>18. ASSUME IdleHandshake PROVE SessionInv'
  BY <1>18 DEF IdleHandshake, IInv, SessionInv, Kick, NoCommand, control,
     security, HandshakeCmd, Down, PhaseInv
<1>19. ASSUME IdleDequeue PROVE SessionInv'
  BY <1>19 DEF IdleDequeue, IInv, SessionInv, Kick, NoCommand, control,
     security, PhaseInv
<1>20. ASSUME IdlePoll PROVE SessionInv'
  BY <1>20 DEF IdlePoll, IInv, SessionInv, Kick, NoCommand, control,
     security, PhaseInv
<1>21. ASSUME Settle PROVE SessionInv'
  BY <1>21 DEF Settle, IInv, SessionInv, KeysetComplete, KeysetAcked,
     cp_is_online, PhaseInv, state_check_reply, cp_check_online_response,
     cp_cmd_failure_is_soft, Naks
<1>22. ASSUME LinkReset PROVE SessionInv'
  BY <1>22 DEF LinkReset, IInv, SessionInv, ChangeState, StopsSession,
     Lifecycle, RequestInv, Down, PhaseInv
<1>23. ASSUME NEW b \in BOOLEAN, Advance(b) PROVE SessionInv'
  BY <1>23, AdvanceSession
<1>24. ASSUME EnterState PROVE SessionInv'
  BY <1>24 DEF EnterState, IInv, SessionInv, exchange, security, commands,
     PhaseInv, RequestInv, Down
<1>25. CASE UNCHANGED vars
  BY <1>25 DEF IInv, SessionInv, vars, exchange, security, commands, control
<1> QED
  BY <1>1, <1>2, <1>3, <1>4, <1>5, <1>6, <1>7, <1>8, <1>9, <1>10, <1>11,
     <1>12, <1>13, <1>14, <1>15, <1>16, <1>17, <1>18, <1>19, <1>20, <1>21,
     <1>22, <1>23, <1>24, <1>25 DEF Next, Api, osdp_cp_refresh, CpSteps,
     Transmits, PdAnswers

\* The invariant holds in every state a CP can reach.
LEMMA Invariance == Spec => []IInv
<1>1. Init => IInv
  BY InitIInv
<1>2. IInv /\ [Next]_vars => IInv'
  BY StepTypeOK, StepPhaseInv, StepRequestInv, StepSessionInv DEF IInv
<1> QED
  BY <1>1, <1>2, PTL DEF Spec

-----------------------------------------------------------------------------
(* The safety properties *)

\* A PD is never polled in plain text after a session it came online with.
THEOREM DowngradeIsVisible == Spec => []NoSilentDowngrade
<1>1. IInv => NoSilentDowngrade
  BY DEF IInv, SessionInv, NoSilentDowngrade
<1> QED
  BY <1>1, Invariance, PTL

\* SCBK-D is out of reach once the PD's own key has worked, and never carries
\* ONLINE traffic.
THEOREM DefaultKeyIsConfined == Spec => []DefaultKeyConfined
<1>1. IInv => DefaultKeyConfined
  BY DEF IInv, SessionInv, DefaultKeyConfined
<1> QED
  BY <1>1, Invariance, PTL

\* OFFLINE and DISABLED keep nothing of the session they ended.
THEOREM DownIsQuiet == Spec => []QuietWhenDown
<1>1. IInv => QuietWhenDown
  BY DEF IInv, PhaseInv, RequestInv, SessionInv, QuietWhenDown, Down
<1> QED
  BY <1>1, Invariance, PTL

\* With ENFORCE_SECURE latched, a PD comes online over a secure channel or not
\* at all.
THEOREM EnforceIsHonoured == Spec => EnforceEntersSecure
<1> DEFINE A == state # "ONLINE" /\ state' = "ONLINE" /\ enforce => scActive'
<1>1. ASSUME IInv, NEW b \in BOOLEAN, Advance(b) PROVE A
  <2> DEFINE n == get_next_state(b)
  <2> DEFINE online == state = "ONLINE" \/ n = "ONLINE"
  <2> DEFINE restart == online /\ "RESTART_SC" \in request
  <2> DEFINE chosen == Lifecycle(IF restart THEN "SC_CHLNG" ELSE n)
  <2> DEFINE taken == {"DISABLE", "ENABLE"} \cup
                      (IF online THEN {"RESTART_SC"} ELSE {})
  <2> SUFFICES ASSUME state # "ONLINE", state' = "ONLINE", enforce
               PROVE  scActive'
    OBVIOUS
  <2>1. ChangeState(chosen, ScActiveAfter, request \ taken)
    BY <1>1 DEF Advance
  <2>2. chosen = "ONLINE" /\ scActive' = ScActiveAfter
    BY <2>1 DEF ChangeState
  <2>3. n = "ONLINE"
    BY <2>2 DEF Lifecycle
  <2>4. state = "SC_SCRYPT" /\ ~err
    BY <1>1, <2>3 DEF IInv, TypeOK, ControlOK, States, get_next_state,
       get_next_ok_state, get_next_err_state, AfterDwell, WithoutSc
  <2> QED
    BY <2>2, <2>4 DEF ScActiveAfter
<1>2. ASSUME IInv, EnterState PROVE A
  BY <1>2 DEF EnterState, IInv, PhaseInv, Down
<1>3. ASSUME IInv, LinkReset PROVE A
  BY <1>3 DEF LinkReset, ChangeState, Lifecycle
<1>4. ASSUME [Next]_vars,
             ~(\E b \in BOOLEAN : Advance(b)), ~EnterState, ~LinkReset
      PROVE  state' = state
  <2>1. ASSUME NEW c \in Cmds, osdp_cp_submit_command(c) PROVE state' = state
    BY <2>1 DEF osdp_cp_submit_command, control
  <2>2. ASSUME osdp_cp_flush_commands PROVE state' = state
    BY <2>2 DEF osdp_cp_flush_commands, control
  <2>3. ASSUME osdp_cp_disable_pd PROVE state' = state
    BY <2>3 DEF osdp_cp_disable_pd
  <2>4. ASSUME osdp_cp_enable_pd PROVE state' = state
    BY <2>4 DEF osdp_cp_enable_pd
  <2>5. ASSUME osdp_cp_modify_flag PROVE state' = state
    BY <2>5 DEF osdp_cp_modify_flag, control
  <2>6. ASSUME PhyWaitOver PROVE state' = state
    BY <2>6 DEF PhyWaitOver, Yield
  <2>7. ASSUME PhyBuild PROVE state' = state
    BY <2>7 DEF PhyBuild, PhySend, Ended, Yield
  <2>8. ASSUME PhySendWait PROVE state' = state
    BY <2>8 DEF PhySendWait, PhySend, Ended, Yield
  <2>9. ASSUME PhyTimeout PROVE state' = state
    BY <2>9 DEF PhyTimeout, RetryOr, PhyError, Ended, Yield
  <2>10. ASSUME PhyBusy PROVE state' = state
    BY <2>10 DEF PhyBusy, RetryOr, PhyDone, Ended, Yield
  <2>11. ASSUME PhySeqMismatch PROVE state' = state
    BY <2>11 DEF PhySeqMismatch, PhyDone, Ended
  <2>12. ASSUME PhyBadFrame PROVE state' = state
    BY <2>12 DEF PhyBadFrame, PhyError, Ended
  <2>13. ASSUME PhySecurityRefusal PROVE state' = state
    BY <2>13 DEF PhySecurityRefusal, PhyError, Ended
  <2>14. ASSUME PhyUnknownReply PROVE state' = state
    BY <2>14 DEF PhyUnknownReply, PhyDone, PhyError, Ended
  <2>15. ASSUME PhyNakCheck PROVE state' = state
    BY <2>15 DEF PhyNakCheck, RetryOr, PhyDone, Ended, Yield
  <2>16. ASSUME NEW r \in WireReplies, PhyReply(r) PROVE state' = state
    BY <2>16 DEF PhyReply, PhyDone, Ended
  <2>17. ASSUME NEW r \in WireReplies, PhyDecodeFailure(r) PROVE state' = state
    BY <2>17 DEF PhyDecodeFailure, PhyError, Ended
  <2>18. ASSUME IdleHandshake PROVE state' = state
    BY <2>18 DEF IdleHandshake, Kick, NoCommand, control
  <2>19. ASSUME IdleDequeue PROVE state' = state
    BY <2>19 DEF IdleDequeue, Kick, NoCommand, control
  <2>20. ASSUME IdlePoll PROVE state' = state
    BY <2>20 DEF IdlePoll, Kick, NoCommand, control
  <2>21. ASSUME Settle PROVE state' = state
    BY <2>21 DEF Settle
  <2> QED
    BY <1>4, <2>1, <2>2, <2>3, <2>4, <2>5, <2>6, <2>7, <2>8, <2>9, <2>10,
       <2>11, <2>12, <2>13, <2>14, <2>15, <2>16, <2>17, <2>18, <2>19, <2>20,
       <2>21 DEF Next, Api, osdp_cp_refresh, CpSteps, Transmits, PdAnswers,
       vars, control
<1>5. IInv /\ [Next]_vars => A
  BY <1>1, <1>2, <1>3, <1>4
<1>6. IInv /\ [Next]_vars => [A]_vars
  BY <1>5
<1> QED
  BY <1>6, Invariance, PTL DEF Spec, EnforceEntersSecure


-----------------------------------------------------------------------------
(* The queue, a sequence without duplicates: enqueue appends, dequeue takes
   the head.                                                               *)

\* enqueue adds one object at the end of the queue.
LEMMA AppendLemma ==
  ASSUME NEW S, NEW q \in Seq(S), NEW x \in S
  PROVE  /\ Range(Append(q, x)) = Range(q) \cup {x}
         /\ IsInjective(q) /\ x \notin Range(q) => IsInjective(Append(q, x))
<1>1. /\ DOMAIN q = 1..Len(q) /\ DOMAIN Append(q, x) = 1..(Len(q) + 1)
      /\ Len(q) \in Nat /\ Append(q, x)[Len(q) + 1] = x
      /\ \A i \in 1..Len(q) : Append(q, x)[i] = q[i]
  OBVIOUS
<1> QED
  BY <1>1 DEF Range, IsInjective

\* dequeue takes the first object out of the queue.
LEMMA TailLemma ==
  ASSUME NEW S, NEW q \in Seq(S), q # <<>>, IsInjective(q)
  PROVE  /\ Head(q) \in S
         /\ Head(q) \notin Range(Tail(q))
         /\ Range(q) = Range(Tail(q)) \cup {Head(q)}
         /\ IsInjective(Tail(q))
<1>1. /\ DOMAIN q = 1..Len(q) /\ DOMAIN Tail(q) = 1..(Len(q) - 1)
      /\ Len(q) \in Nat /\ Len(q) > 0 /\ Head(q) = q[1] /\ Head(q) \in S
      /\ \A i \in 1..(Len(q) - 1) : Tail(q)[i] = q[i + 1]
  OBVIOUS
<1>2. Range(q) = Range(<<Head(q)>>) \cup Range(Tail(q))
  <2>1. q = <<Head(q)>> \o Tail(q) /\ <<Head(q)>> \in Seq(S) /\ Tail(q) \in Seq(S)
    BY <1>1
  <2> QED
    BY <2>1, RangeConcatenation
<1>3. Head(q) \notin Range(Tail(q)) /\ IsInjective(Tail(q))
  BY <1>1 DEF Range, IsInjective
<1>4. Range(<<Head(q)>>) = {Head(q)}
  BY DEF Range
<1> QED
  BY <1>1, <1>2, <1>3, <1>4

-----------------------------------------------------------------------------
(* Exactly-once completion *)

\* Submission, dequeue, flush, completion and failure hand a command over
\* between application and library, and nothing else touches it.
LEMMA StepOwnership == IInv /\ Ownership /\ [Next]_vars => Ownership'
<1> SUFFICES ASSUME IInv, Ownership, [Next]_vars PROVE Ownership'
  OBVIOUS
<1> USE DEF IInv
<1>1. ASSUME NEW c \in Cmds, osdp_cp_submit_command(c) PROVE Ownership'
  <2>1. /\ queue \in Seq(Cmds) /\ owner \in [Cmds -> {"app", "lib"}]
        /\ owner[c] = "app" /\ queue' = Append(queue, c)
        /\ owner' = [owner EXCEPT ![c] = "lib"] /\ active' = active
    BY <1>1 DEF TypeOK, CommandsOK, osdp_cp_submit_command
  <2>2. c \notin Range(queue) /\ c # active
    BY <2>1 DEF Ownership
  <2>3. Range(queue') = Range(queue) \cup {c} /\ IsInjective(queue')
    BY <2>1, <2>2, AppendLemma DEF Ownership
  <2> QED
    BY <2>1, <2>2, <2>3 DEF Ownership
<1>2. ASSUME osdp_cp_flush_commands PROVE Ownership'
  <2>1. Range(<<>>) = {} /\ IsInjective(<<>>)
    BY DEF Range, IsInjective
  <2> QED
    BY <1>2, <2>1 DEF Ownership, osdp_cp_flush_commands, Drained, TypeOK, CommandsOK
<1>3. ASSUME osdp_cp_disable_pd PROVE Ownership'
  BY <1>3 DEF osdp_cp_disable_pd, Ownership, commands
<1>4. ASSUME osdp_cp_enable_pd PROVE Ownership'
  BY <1>4 DEF osdp_cp_enable_pd, Ownership, commands
<1>5. ASSUME osdp_cp_modify_flag PROVE Ownership'
  BY <1>5 DEF osdp_cp_modify_flag, Ownership, commands
<1>6. ASSUME PhyWaitOver PROVE Ownership'
  BY <1>6 DEF PhyWaitOver, Ownership, commands
<1>7. ASSUME PhyBuild PROVE Ownership'
  BY <1>7 DEF PhyBuild, Ownership, commands
<1>8. ASSUME PhySendWait PROVE Ownership'
  BY <1>8 DEF PhySendWait, Ownership, commands
<1>9. ASSUME PhyTimeout PROVE Ownership'
  BY <1>9 DEF PhyTimeout, Ownership, commands
<1>10. ASSUME PhyBusy PROVE Ownership'
  BY <1>10 DEF PhyBusy, Ownership, commands
<1>11. ASSUME PhySeqMismatch PROVE Ownership'
  BY <1>11 DEF PhySeqMismatch, Ownership, commands
<1>12. ASSUME PhyBadFrame PROVE Ownership'
  BY <1>12 DEF PhyBadFrame, Ownership, commands
<1>13. ASSUME PhySecurityRefusal PROVE Ownership'
  BY <1>13 DEF PhySecurityRefusal, Ownership, commands
<1>14. ASSUME PhyUnknownReply PROVE Ownership'
  BY <1>14 DEF PhyUnknownReply, Ownership, commands
<1>15. ASSUME PhyNakCheck PROVE Ownership'
  BY <1>15 DEF PhyNakCheck, Ownership, commands
<1>16. ASSUME NEW r \in WireReplies, PhyReply(r) PROVE Ownership'
  BY <1>16 DEF PhyReply, Ownership, commands
<1>17. ASSUME NEW r \in WireReplies, PhyDecodeFailure(r) PROVE Ownership'
  BY <1>17 DEF PhyDecodeFailure, Ownership, commands
<1>18. ASSUME IdleHandshake PROVE Ownership'
  BY <1>18 DEF IdleHandshake, Ownership, commands
<1>19. ASSUME IdleDequeue PROVE Ownership'
  <2> DEFINE c == Head(queue)
  <2>1. queue \in Seq(Cmds) /\ queue # <<>> /\ IsInjective(queue)
          /\ queue' = Tail(queue)
    BY <1>19 DEF TypeOK, CommandsOK, Ownership, IdleDequeue
  <2>2. /\ c \in Cmds
        /\ c \notin Range(queue')
        /\ Range(queue) = Range(queue') \cup {c}
        /\ IsInjective(queue')
    BY <2>1, TailLemma
  <2>3. active = NoCmd
    BY <1>19 DEF IdleDequeue, PhaseInv
  <2>4. CASE active' = c /\ owner' = owner
    BY <2>2, <2>3, <2>4, CmdsAssumption DEF Ownership
  <2>5. CASE owner' = [owner EXCEPT ![c] = "app"] /\ active' = active
    BY <2>2, <2>3, <2>5, CmdsAssumption DEF Ownership, TypeOK, CommandsOK
  <2> QED
    BY <1>19, <2>4, <2>5 DEF IdleDequeue
<1>20. ASSUME IdlePoll PROVE Ownership'
  BY <1>20 DEF IdlePoll, Ownership, commands
<1>21. ASSUME Settle PROVE Ownership'
  <2>1. queue' = queue /\ active' = NoCmd
    BY <1>21 DEF Settle
  <2>2. CASE active = NoCmd
    BY <1>21, <2>1, <2>2 DEF Settle, CompleteActive, Ownership
  <2>3. CASE active # NoCmd
    <3>1. /\ active \in Cmds /\ owner \in [Cmds -> {"app", "lib"}]
          /\ owner' = [owner EXCEPT ![active] = "app"]
      BY <1>21, <2>3 DEF Settle, CompleteActive, TypeOK, CommandsOK
    <3>2. NoCmd \notin Range(queue) /\ NoCmd \notin Cmds
      BY CmdsAssumption DEF TypeOK, CommandsOK, Range
    <3> QED
      BY <2>1, <3>1, <3>2 DEF Ownership
  <2> QED
    BY <2>2, <2>3
<1>22. ASSUME LinkReset PROVE Ownership'
  BY <1>22 DEF LinkReset, Ownership, ChangeState
<1>23. ASSUME NEW b \in BOOLEAN, Advance(b) PROVE Ownership'
  BY <1>23 DEF Advance, Ownership, ChangeState
<1>24. ASSUME EnterState PROVE Ownership'
  BY <1>24 DEF EnterState, Ownership, commands
<1>25. CASE UNCHANGED vars
  BY <1>25 DEF Ownership, vars, commands
<1> QED
  BY <1>1, <1>2, <1>3, <1>4, <1>5, <1>6, <1>7, <1>8, <1>9, <1>10, <1>11,
     <1>12, <1>13, <1>14, <1>15, <1>16, <1>17, <1>18, <1>19, <1>20, <1>21,
     <1>22, <1>23, <1>24, <1>25 DEF Next, Api, osdp_cp_refresh, CpSteps,
     Transmits, PdAnswers

\* Every command accepted by osdp_cp_submit_command() is handed back exactly
\* once, whatever mix of failures, flushes and lifecycle calls it meets.
THEOREM ExactlyOnce == Spec => []Ownership
<1>1. Init => Ownership
  BY CmdsAssumption DEF Init, Ownership, Range, IsInjective
<1>2. IInv /\ Ownership /\ [Next]_vars => Ownership'
  BY StepOwnership
<1> QED
  BY <1>1, <1>2, Invariance, PTL DEF Spec

-----------------------------------------------------------------------------
(* Replies, completions and addresses *)

\* The application does not flag a KEYSET as a broadcast: one that its session
\* does not survive is dropped before it is built and leaves the flag behind.
NoBroadcastKeyset == \A c \in Broadcast : Kind[c] # "KEYSET"

\* The flag of a packet is up from the dequeue to the build.
BroadcastInv ==
    /\ bcast => phy = "SEND_CMD" /\ active \in Broadcast
    /\ phy # "IDLE" /\ wire = "bcast" => active \in Broadcast

\* What cp_phy_state_update() leaves in reply_id.  An exchange that is DONE
\* without a valid reply holds none that an application's command accepts; one
\* in ERR may hold a stale or a malformed one when something can fail.
ReplyInv ==
    /\ active # NoCmd => cmd = Kind[active]
    /\ active # NoCmd /\ pc = "app" /\ cmd = "KEYSET" => scActive
    /\ phy = "REPLY_WAIT" => reply = "INVALID"
    /\ pc = "exchanged" /\ active # NoCmd /\ ~answered
         /\ (phy = "DONE" \/ Faults = {}) => reply \notin {"ACK", "REPORT"}

\* A status is reported once per pass, and an OK without a valid reply is one
\* of an exchange that failed hard.
OutcomeInv ==
    /\ outcome # "none" => pc = "settled"
    /\ outcome = "OK" /\ ~answered => err /\ Faults # {}


\* A broadcast flag is raised by the dequeue of a command that asked for it and
\* spent by the first packet built, which carries that command.
LEMMA StepBroadcastInv ==
  NoBroadcastKeyset /\ IInv /\ BroadcastInv /\ [Next]_vars => BroadcastInv'
<1> SUFFICES ASSUME NoBroadcastKeyset, IInv, BroadcastInv, [Next]_vars PROVE BroadcastInv'
  OBVIOUS
<1>1. ASSUME NEW c \in Cmds, osdp_cp_submit_command(c) PROVE BroadcastInv'
  BY <1>1 DEF osdp_cp_submit_command, BroadcastInv, IInv, PhaseInv, security,
     exchange, control
<1>2. ASSUME osdp_cp_flush_commands PROVE BroadcastInv'
  BY <1>2 DEF osdp_cp_flush_commands, BroadcastInv, IInv, PhaseInv, security,
     exchange, control
<1>3. ASSUME osdp_cp_disable_pd PROVE BroadcastInv'
  BY <1>3 DEF osdp_cp_disable_pd, BroadcastInv, IInv, PhaseInv, security,
     exchange, commands
<1>4. ASSUME osdp_cp_enable_pd PROVE BroadcastInv'
  BY <1>4 DEF osdp_cp_enable_pd, BroadcastInv, IInv, PhaseInv, security,
     exchange, commands
<1>5. ASSUME osdp_cp_modify_flag PROVE BroadcastInv'
  BY <1>5 DEF osdp_cp_modify_flag, BroadcastInv, IInv, PhaseInv, exchange,
     commands, control
<1>6. ASSUME PhyWaitOver PROVE BroadcastInv'
  BY <1>6 DEF PhyWaitOver, BroadcastInv, IInv, PhaseInv, Yield, security,
     commands
<1>7. ASSUME PhyBuild PROVE BroadcastInv'
  BY <1>7 DEF PhyBuild, BroadcastInv, IInv, PhaseInv, PhySend, ReplyAfterSend,
     Ended, Yield, security, commands, BuildMayFail, BuildMaySucceed,
     PacketAddress, BroadcastFlagAfterInit
<1>8. ASSUME PhySendWait PROVE BroadcastInv'
  BY <1>8 DEF PhySendWait, BroadcastInv, IInv, PhaseInv, PhySend,
     ReplyAfterSend, Ended, Yield, security, commands
<1>9. ASSUME PhyTimeout PROVE BroadcastInv'
  BY <1>9 DEF PhyTimeout, BroadcastInv, IInv, PhaseInv, RetryOr, PhyError,
     Ended, Yield, security, commands
<1>10. ASSUME PhyBusy PROVE BroadcastInv'
  BY <1>10 DEF PhyBusy, BroadcastInv, IInv, PhaseInv, RetryOr, PhyDone, Ended,
     Yield, security, commands
<1>11. ASSUME PhySeqMismatch PROVE BroadcastInv'
  BY <1>11 DEF PhySeqMismatch, BroadcastInv, IInv, PhaseInv, PhyDone, Ended,
     security, commands
<1>12. ASSUME PhyBadFrame PROVE BroadcastInv'
  BY <1>12 DEF PhyBadFrame, BroadcastInv, IInv, PhaseInv, PhyError, Ended,
     security, commands
<1>13. ASSUME PhySecurityRefusal PROVE BroadcastInv'
  BY <1>13 DEF PhySecurityRefusal, BroadcastInv, IInv, PhaseInv, PhyError,
     Ended, commands
<1>14. ASSUME PhyUnknownReply PROVE BroadcastInv'
  BY <1>14 DEF PhyUnknownReply, BroadcastInv, IInv, PhaseInv, PhyDone,
     PhyError, Ended, security, commands
<1>15. ASSUME PhyNakCheck PROVE BroadcastInv'
  BY <1>15 DEF PhyNakCheck, BroadcastInv, IInv, PhaseInv, RetryOr, PhyDone,
     Ended, Yield, security, commands
<1>16. ASSUME NEW r \in WireReplies, PhyReply(r) PROVE BroadcastInv'
  BY <1>16 DEF PhyReply, BroadcastInv, IInv, PhaseInv, PhyDone, Ended,
     commands
<1>17. ASSUME NEW r \in WireReplies, PhyDecodeFailure(r) PROVE BroadcastInv'
  BY <1>17 DEF PhyDecodeFailure, BroadcastInv, IInv, PhaseInv, PhyError,
     Ended, InOrder, security, commands
<1>18. ASSUME IdleHandshake PROVE BroadcastInv'
  BY <1>18, CmdsAssumption DEF IdleHandshake, BroadcastInv, IInv, PhaseInv,
     Kick, NoCommand, control, security, commands
<1>19. ASSUME IdleDequeue PROVE BroadcastInv'
  BY <1>19, CmdsAssumption DEF IdleDequeue, BroadcastInv, IInv, PhaseInv,
     Kick, NoCommand, control, security, Translates, NoBroadcastKeyset
<1>20. ASSUME IdlePoll PROVE BroadcastInv'
  BY <1>20, CmdsAssumption DEF IdlePoll, BroadcastInv, IInv, PhaseInv, Kick,
     NoCommand, control, security, commands
<1>21. ASSUME Settle PROVE BroadcastInv'
  BY <1>21 DEF Settle, BroadcastInv, IInv, PhaseInv, KeysetComplete,
     CompleteActive
<1>22. ASSUME LinkReset PROVE BroadcastInv'
  BY <1>22 DEF LinkReset, BroadcastInv, IInv, PhaseInv, ChangeState
<1>23. ASSUME NEW b \in BOOLEAN, Advance(b) PROVE BroadcastInv'
  BY <1>23 DEF Advance, BroadcastInv, IInv, PhaseInv, ChangeState
<1>24. ASSUME EnterState PROVE BroadcastInv'
  BY <1>24 DEF EnterState, BroadcastInv, IInv, PhaseInv, exchange, security,
     commands
<1>25. CASE UNCHANGED vars
  BY <1>25 DEF vars, exchange, security, commands, control, BroadcastInv,
     IInv, PhaseInv
<1> QED
  BY <1>1, <1>2, <1>3, <1>4, <1>5, <1>6, <1>7, <1>8, <1>9, <1>10, <1>11,
     <1>12, <1>13, <1>14, <1>15, <1>16, <1>17, <1>18, <1>19, <1>20, <1>21,
     <1>22, <1>23, <1>24, <1>25 DEF Next, Api, osdp_cp_refresh, CpSteps,
     Transmits, PdAnswers

\* A reply id is either cleared by the send or stored with the reply it belongs
\* to.
LEMMA StepReplyInv ==
  IInv /\ ReplyInv /\ [Next]_vars => ReplyInv'
<1> SUFFICES ASSUME IInv, ReplyInv, [Next]_vars PROVE ReplyInv'
  OBVIOUS
<1>1. ASSUME NEW c \in Cmds, osdp_cp_submit_command(c) PROVE ReplyInv'
  BY <1>1 DEF osdp_cp_submit_command, ReplyInv, IInv, PhaseInv, security,
     exchange, control
<1>2. ASSUME osdp_cp_flush_commands PROVE ReplyInv'
  BY <1>2 DEF osdp_cp_flush_commands, ReplyInv, IInv, PhaseInv, security,
     exchange, control
<1>3. ASSUME osdp_cp_disable_pd PROVE ReplyInv'
  BY <1>3 DEF osdp_cp_disable_pd, ReplyInv, IInv, PhaseInv, security,
     exchange, commands
<1>4. ASSUME osdp_cp_enable_pd PROVE ReplyInv'
  BY <1>4 DEF osdp_cp_enable_pd, ReplyInv, IInv, PhaseInv, security, exchange,
     commands
<1>5. ASSUME osdp_cp_modify_flag PROVE ReplyInv'
  BY <1>5 DEF osdp_cp_modify_flag, ReplyInv, IInv, PhaseInv, exchange,
     commands, control
<1>6. ASSUME PhyWaitOver PROVE ReplyInv'
  BY <1>6 DEF PhyWaitOver, ReplyInv, IInv, PhaseInv, Yield, security, commands
<1>7. ASSUME PhyBuild PROVE ReplyInv'
  BY <1>7 DEF PhyBuild, ReplyInv, IInv, PhaseInv, PhySend, ReplyAfterSend,
     Ended, Yield, security, commands, BuildMayFail, BuildMaySucceed,
     PacketAddress, BroadcastFlagAfterInit
<1>8. ASSUME PhySendWait PROVE ReplyInv'
  BY <1>8 DEF PhySendWait, ReplyInv, IInv, PhaseInv, PhySend, ReplyAfterSend,
     Ended, Yield, security, commands
<1>9. ASSUME PhyTimeout PROVE ReplyInv'
  BY <1>9 DEF PhyTimeout, ReplyInv, IInv, PhaseInv, RetryOr, PhyError, Ended,
     Yield, security, commands
<1>10. ASSUME PhyBusy PROVE ReplyInv'
  BY <1>10 DEF PhyBusy, ReplyInv, IInv, PhaseInv, RetryOr, PhyDone, Ended,
     Yield, security, commands
<1>11. ASSUME PhySeqMismatch PROVE ReplyInv'
  BY <1>11 DEF PhySeqMismatch, ReplyInv, IInv, PhaseInv, PhyDone, Ended,
     security, commands
<1>12. ASSUME PhyBadFrame PROVE ReplyInv'
  BY <1>12 DEF PhyBadFrame, ReplyInv, IInv, PhaseInv, PhyError, Ended,
     security, commands
<1>13. ASSUME PhySecurityRefusal PROVE ReplyInv'
  BY <1>13 DEF PhySecurityRefusal, ReplyInv, IInv, PhaseInv, PhyError, Ended,
     commands
<1>14. ASSUME PhyUnknownReply PROVE ReplyInv'
  BY <1>14, CmdsAssumption DEF PhyUnknownReply, ReplyInv, IInv, PhaseInv,
     PhyDone, PhyError, Ended, security, commands, CmdKinds, TypeOK,
     CommandsOK
<1>15. ASSUME PhyNakCheck PROVE ReplyInv'
  BY <1>15 DEF PhyNakCheck, ReplyInv, IInv, PhaseInv, RetryOr, PhyDone, Ended,
     Yield, security, commands
<1>16. ASSUME NEW r \in WireReplies, PhyReply(r) PROVE ReplyInv'
  BY <1>16 DEF PhyReply, ReplyInv, IInv, PhaseInv, PhyDone, Ended, commands
<1>17. ASSUME NEW r \in WireReplies, PhyDecodeFailure(r) PROVE ReplyInv'
  BY <1>17 DEF PhyDecodeFailure, ReplyInv, IInv, PhaseInv, PhyError, Ended,
     InOrder, security, commands
<1>18. ASSUME IdleHandshake PROVE ReplyInv'
  BY <1>18, CmdsAssumption DEF IdleHandshake, ReplyInv, IInv, PhaseInv, Kick,
     NoCommand, control, security, commands
<1>19. ASSUME IdleDequeue PROVE ReplyInv'
  BY <1>19 DEF IdleDequeue, ReplyInv, IInv, PhaseInv, Kick, NoCommand,
     control, security, Translates
<1>20. ASSUME IdlePoll PROVE ReplyInv'
  BY <1>20, CmdsAssumption DEF IdlePoll, ReplyInv, IInv, PhaseInv, Kick,
     NoCommand, control, security, commands
<1>21. ASSUME Settle PROVE ReplyInv'
  BY <1>21 DEF Settle, ReplyInv, IInv, PhaseInv, KeysetComplete,
     CompleteActive
<1>22. ASSUME LinkReset PROVE ReplyInv'
  BY <1>22 DEF LinkReset, ReplyInv, IInv, PhaseInv, ChangeState, StopsSession
<1>23. ASSUME NEW b \in BOOLEAN, Advance(b) PROVE ReplyInv'
  BY <1>23 DEF Advance, ReplyInv, IInv, PhaseInv, ChangeState, StopsSession
<1>24. ASSUME EnterState PROVE ReplyInv'
  BY <1>24 DEF EnterState, ReplyInv, IInv, PhaseInv, exchange, security,
     commands
<1>25. CASE UNCHANGED vars
  BY <1>25 DEF vars, exchange, security, commands, control, ReplyInv, IInv,
     PhaseInv
<1> QED
  BY <1>1, <1>2, <1>3, <1>4, <1>5, <1>6, <1>7, <1>8, <1>9, <1>10, <1>11,
     <1>12, <1>13, <1>14, <1>15, <1>16, <1>17, <1>18, <1>19, <1>20, <1>21,
     <1>22, <1>23, <1>24, <1>25 DEF Next, Api, osdp_cp_refresh, CpSteps,
     Transmits, PdAnswers

\* The verdict of Settle is that of the reply, and lasts until the next state is
\* chosen.
LEMMA StepOutcomeInv ==
  IInv /\ ReplyInv /\ OutcomeInv /\ [Next]_vars => OutcomeInv'
<1> SUFFICES ASSUME IInv, ReplyInv, OutcomeInv, [Next]_vars PROVE OutcomeInv'
  OBVIOUS
<1>1. ASSUME NEW c \in Cmds, osdp_cp_submit_command(c) PROVE OutcomeInv'
  BY <1>1 DEF osdp_cp_submit_command, OutcomeInv, IInv, PhaseInv, security,
     exchange, control
<1>2. ASSUME osdp_cp_flush_commands PROVE OutcomeInv'
  BY <1>2 DEF osdp_cp_flush_commands, OutcomeInv, IInv, PhaseInv, security,
     exchange, control
<1>3. ASSUME osdp_cp_disable_pd PROVE OutcomeInv'
  BY <1>3 DEF osdp_cp_disable_pd, OutcomeInv, IInv, PhaseInv, security,
     exchange, commands
<1>4. ASSUME osdp_cp_enable_pd PROVE OutcomeInv'
  BY <1>4 DEF osdp_cp_enable_pd, OutcomeInv, IInv, PhaseInv, security,
     exchange, commands
<1>5. ASSUME osdp_cp_modify_flag PROVE OutcomeInv'
  BY <1>5 DEF osdp_cp_modify_flag, OutcomeInv, IInv, PhaseInv, exchange,
     commands, control
<1>6. ASSUME PhyWaitOver PROVE OutcomeInv'
  BY <1>6 DEF PhyWaitOver, OutcomeInv, IInv, PhaseInv, Yield, security,
     commands
<1>7. ASSUME PhyBuild PROVE OutcomeInv'
  BY <1>7 DEF PhyBuild, OutcomeInv, IInv, PhaseInv, PhySend, ReplyAfterSend,
     Ended, Yield, security, commands, BuildMayFail, BuildMaySucceed,
     PacketAddress, BroadcastFlagAfterInit
<1>8. ASSUME PhySendWait PROVE OutcomeInv'
  BY <1>8 DEF PhySendWait, OutcomeInv, IInv, PhaseInv, PhySend,
     ReplyAfterSend, Ended, Yield, security, commands
<1>9. ASSUME PhyTimeout PROVE OutcomeInv'
  BY <1>9 DEF PhyTimeout, OutcomeInv, IInv, PhaseInv, RetryOr, PhyError,
     Ended, Yield, security, commands
<1>10. ASSUME PhyBusy PROVE OutcomeInv'
  BY <1>10 DEF PhyBusy, OutcomeInv, IInv, PhaseInv, RetryOr, PhyDone, Ended,
     Yield, security, commands
<1>11. ASSUME PhySeqMismatch PROVE OutcomeInv'
  BY <1>11 DEF PhySeqMismatch, OutcomeInv, IInv, PhaseInv, PhyDone, Ended,
     security, commands
<1>12. ASSUME PhyBadFrame PROVE OutcomeInv'
  BY <1>12 DEF PhyBadFrame, OutcomeInv, IInv, PhaseInv, PhyError, Ended,
     security, commands
<1>13. ASSUME PhySecurityRefusal PROVE OutcomeInv'
  BY <1>13 DEF PhySecurityRefusal, OutcomeInv, IInv, PhaseInv, PhyError,
     Ended, commands
<1>14. ASSUME PhyUnknownReply PROVE OutcomeInv'
  BY <1>14 DEF PhyUnknownReply, OutcomeInv, IInv, PhaseInv, PhyDone, PhyError,
     Ended, security, commands
<1>15. ASSUME PhyNakCheck PROVE OutcomeInv'
  BY <1>15 DEF PhyNakCheck, OutcomeInv, IInv, PhaseInv, RetryOr, PhyDone,
     Ended, Yield, security, commands
<1>16. ASSUME NEW r \in WireReplies, PhyReply(r) PROVE OutcomeInv'
  BY <1>16 DEF PhyReply, OutcomeInv, IInv, PhaseInv, PhyDone, Ended, commands
<1>17. ASSUME NEW r \in WireReplies, PhyDecodeFailure(r) PROVE OutcomeInv'
  BY <1>17 DEF PhyDecodeFailure, OutcomeInv, IInv, PhaseInv, PhyError, Ended,
     InOrder, security, commands
<1>18. ASSUME IdleHandshake PROVE OutcomeInv'
  BY <1>18 DEF IdleHandshake, OutcomeInv, IInv, PhaseInv, Kick, NoCommand,
     control, security, commands
<1>19. ASSUME IdleDequeue PROVE OutcomeInv'
  BY <1>19 DEF IdleDequeue, OutcomeInv, IInv, PhaseInv, Kick, NoCommand,
     control, security, Translates
<1>20. ASSUME IdlePoll PROVE OutcomeInv'
  BY <1>20 DEF IdlePoll, OutcomeInv, IInv, PhaseInv, Kick, NoCommand, control,
     security, commands
<1>21. ASSUME Settle PROVE OutcomeInv'
  BY <1>21, CmdsAssumption DEF Settle, OutcomeInv, IInv, PhaseInv,
     KeysetComplete, CompleteActive, ReplyInv, state_check_reply,
     cp_check_online_response, cp_cmd_failure_is_soft, CmdKinds, Naks, TypeOK,
     CommandsOK, ControlOK
<1>22. ASSUME LinkReset PROVE OutcomeInv'
  BY <1>22 DEF LinkReset, OutcomeInv, IInv, PhaseInv, ChangeState
<1>23. ASSUME NEW b \in BOOLEAN, Advance(b) PROVE OutcomeInv'
  BY <1>23 DEF Advance, OutcomeInv, IInv, PhaseInv, ChangeState
<1>24. ASSUME EnterState PROVE OutcomeInv'
  BY <1>24 DEF EnterState, OutcomeInv, IInv, PhaseInv, exchange, security,
     commands
<1>25. CASE UNCHANGED vars
  BY <1>25 DEF vars, exchange, security, commands, control, OutcomeInv, IInv,
     PhaseInv
<1> QED
  BY <1>1, <1>2, <1>3, <1>4, <1>5, <1>6, <1>7, <1>8, <1>9, <1>10, <1>11,
     <1>12, <1>13, <1>14, <1>15, <1>16, <1>17, <1>18, <1>19, <1>20, <1>21,
     <1>22, <1>23, <1>24, <1>25 DEF Next, Api, osdp_cp_refresh, CpSteps,
     Transmits, PdAnswers

\* The invariants of replies and completions hold in every reachable state.
LEMMA CompletionInvariance == Spec => [](ReplyInv /\ OutcomeInv)
<1>1. Init => ReplyInv /\ OutcomeInv
  BY DEF Init, ReplyInv, OutcomeInv
<1>2. IInv /\ ReplyInv /\ OutcomeInv /\ [Next]_vars => (ReplyInv /\ OutcomeInv)'
  BY StepReplyInv, StepOutcomeInv
<1> QED
  BY <1>1, <1>2, Invariance, PTL DEF Spec

\* The broadcast flag of one packet never leaks into the next, for
\* applications that do not broadcast keysets.
THEOREM BroadcastStaysPut == NoBroadcastKeyset => (Spec => []NoStrayBroadcast)
<1> SUFFICES ASSUME NoBroadcastKeyset PROVE Spec => []NoStrayBroadcast
  OBVIOUS
<1>1. Init => BroadcastInv
  BY DEF Init, BroadcastInv
<1>2. IInv /\ BroadcastInv /\ [Next]_vars => BroadcastInv'
  BY StepBroadcastInv
<1>3. BroadcastInv => NoStrayBroadcast
  BY DEF BroadcastInv, NoStrayBroadcast
<1> QED
  BY <1>1, <1>2, <1>3, Invariance, PTL DEF Spec

\* When every packet is built and sent and every reply is well formed, a
\* command completes OK only on a valid reply to it.
THEOREM OkIsAnswered == Faults = {} => (Spec => []OkMeansAnswered)
<1> SUFFICES ASSUME Faults = {} PROVE Spec => []OkMeansAnswered
  OBVIOUS
<1>1. ReplyInv /\ OutcomeInv => OkMeansAnswered
  BY DEF OutcomeInv, OkMeansAnswered
<1> QED
  BY <1>1, CompletionInvariance, PTL

\* Whatever fails, an OK that no reply stands behind costs the PD the link:
\* the exchange ended in ERR, so the same pass leaves ONLINE.
FalseOkFailsLink == outcome = "OK" /\ ~answered => err

\* The damage a stale reply id can do (finding OkMeansAnswered) is confined to
\* the one command in flight when the link fails.
THEOREM FalseOkIsConfined == Spec => []FalseOkFailsLink
<1>1. ReplyInv /\ OutcomeInv => FalseOkFailsLink
  BY DEF OutcomeInv, FalseOkFailsLink
<1> QED
  BY <1>1, CompletionInvariance, PTL

\* When every packet is built and sent and every reply is well formed, the CP
\* commits a new SCBK only on the PD's own answer to the KEYSET.
THEOREM KeyCommitsOnlyOnReply == Faults = {} => (Spec => KeyCommitsOnReply)
<1> SUFFICES ASSUME Faults = {} PROVE Spec => KeyCommitsOnReply
  OBVIOUS
<1>1. ASSUME IInv, ReplyInv, Settle PROVE scbk' # scbk => answered
  BY <1>1 DEF Settle, KeysetComplete, KeysetAcked, HoldsKeyset, ReplyInv
<1>2. ASSUME [Next]_vars, ~Settle PROVE scbk' = scbk
  <2>1. ASSUME NEW c \in Cmds, osdp_cp_submit_command(c) PROVE scbk' = scbk
    BY <2>1 DEF osdp_cp_submit_command, security
  <2>2. ASSUME osdp_cp_flush_commands PROVE scbk' = scbk
    BY <2>2 DEF osdp_cp_flush_commands, security
  <2>3. ASSUME osdp_cp_disable_pd PROVE scbk' = scbk
    BY <2>3 DEF osdp_cp_disable_pd, security
  <2>4. ASSUME osdp_cp_enable_pd PROVE scbk' = scbk
    BY <2>4 DEF osdp_cp_enable_pd, security
  <2>5. ASSUME osdp_cp_modify_flag PROVE scbk' = scbk
    BY <2>5 DEF osdp_cp_modify_flag
  <2>6. ASSUME PhyWaitOver PROVE scbk' = scbk
    BY <2>6 DEF PhyWaitOver, security
  <2>7. ASSUME PhyBuild PROVE scbk' = scbk
    BY <2>7 DEF PhyBuild, security
  <2>8. ASSUME PhySendWait PROVE scbk' = scbk
    BY <2>8 DEF PhySendWait, security
  <2>9. ASSUME PhyTimeout PROVE scbk' = scbk
    BY <2>9 DEF PhyTimeout, security
  <2>10. ASSUME PhyBusy PROVE scbk' = scbk
    BY <2>10 DEF PhyBusy, security
  <2>11. ASSUME PhySeqMismatch PROVE scbk' = scbk
    BY <2>11 DEF PhySeqMismatch, security
  <2>12. ASSUME PhyBadFrame PROVE scbk' = scbk
    BY <2>12 DEF PhyBadFrame, security
  <2>13. ASSUME PhySecurityRefusal PROVE scbk' = scbk
    BY <2>13 DEF PhySecurityRefusal
  <2>14. ASSUME PhyUnknownReply PROVE scbk' = scbk
    BY <2>14 DEF PhyUnknownReply, security
  <2>15. ASSUME PhyNakCheck PROVE scbk' = scbk
    BY <2>15 DEF PhyNakCheck, security
  <2>16. ASSUME NEW r \in WireReplies, PhyReply(r) PROVE scbk' = scbk
    BY <2>16 DEF PhyReply
  <2>17. ASSUME NEW r \in WireReplies, PhyDecodeFailure(r) PROVE scbk' = scbk
    BY <2>17 DEF PhyDecodeFailure, security
  <2>18. ASSUME IdleHandshake PROVE scbk' = scbk
    BY <2>18 DEF IdleHandshake, security
  <2>19. ASSUME IdleDequeue PROVE scbk' = scbk
    BY <2>19 DEF IdleDequeue, security
  <2>20. ASSUME IdlePoll PROVE scbk' = scbk
    BY <2>20 DEF IdlePoll, security
  <2>21. ASSUME LinkReset PROVE scbk' = scbk
    BY <2>21 DEF LinkReset
  <2>22. ASSUME NEW b \in BOOLEAN, Advance(b) PROVE scbk' = scbk
    BY <2>22 DEF Advance
  <2>23. ASSUME EnterState PROVE scbk' = scbk
    BY <2>23 DEF EnterState, security
  <2> QED
    BY <1>2, <2>1, <2>2, <2>3, <2>4, <2>5, <2>6, <2>7, <2>8, <2>9, <2>10,
       <2>11, <2>12, <2>13, <2>14, <2>15, <2>16, <2>17, <2>18, <2>19, <2>20,
       <2>21, <2>22, <2>23 DEF Next, Api, osdp_cp_refresh, CpSteps, Transmits,
       PdAnswers, vars, security
<1>3. IInv /\ ReplyInv /\ [Next]_vars => [scbk' # scbk => answered]_vars
  BY <1>1, <1>2
<1> QED
  BY <1>3, Invariance, CompletionInvariance, PTL DEF Spec, KeyCommitsOnReply
=============================================================================
