----------------------------- MODULE CosmProofs -----------------------------
(***************************************************************************)
(* Proofs about Cosm: for any number of threads, connections and commands  *)
(* the state flow and cosm_set_command() never lose or mix up a command.   *)
(***************************************************************************)
EXTENDS Cosm, TLAPS

\* A leaf that names no back end is tried with SMT, again when its translation
\* runs out of time, and then with Zenon.
USE SMTT(60), SMTT(61), SMTT(62), SMTT(63), ZenonT(60)

USE DEF Thread, Session

(* The tables cosm_states[] and cosm_commands[]: a temporal state is never  *)
(* stable, a target always is, and only the two event commands, which abort *)
(* the current one, have no temporal state.                                 *)
LEMMA Tables ==
    ASSUME NEW c \in Command
    PROVE  /\ temporal_state(c) \in Temporal \cup {"UNKNOWN"}
           /\ target_state(c) \in Stable
           /\ c \notin Aborting => temporal_state(c) # "UNKNOWN"
           /\ c # "NONE"
BY DEF Command, Visible, FromCard, Events, Forced, Aborting, temporal_state,
       target_state, Resets, Shutdowns, Temporal, Stable

(* A command is refused in every temporal state.                            *)
LEMMA Allowed ==
    ASSUME NEW s \in State, NEW c \in Command, is_command_allowed(s, c)
    PROVE  /\ s \in Stable \cup {"UNKNOWN"}
           /\ c \in {"BOOT", "BOOT_FIRMWARE"} => s = "READY"
           /\ c = "SHUTDOWN" => s \in {"READY", "ONLINE"}
BY DEF is_command_allowed, State, Stable, Temporal, FromCard

(* The reset that cosm_driver_probe() issues establishes the invariant.     *)
LEMMA InitInv == Init => IInv
<1> SUFFICES ASSUME Init PROVE IInv
    OBVIOUS
<1> USE ThreadAssumption, BoundAssumption DEF Init
<1>1. PICK p \in Callers :
         /\ mutex = p
         /\ tpc = [t \in Thread |-> IF t = p THEN "wait" ELSE "idle"]
         /\ tcmd = [t \in Thread |-> "RESET"]
    OBVIOUS
<1>2. "RESET" \in Command /\ "RESET" # "NONE" /\ "RESET" \notin Aborting
    BY DEF Command, Visible, Forced, Events, FromCard, Aborting
<1>3. TypeOK
  <2>1. locked = (state \notin {"READY", "SHUTDOWN", "ERROR"})
      BY ZenonT(60)
  <2>2. /\ mutex \in Thread \cup {None}
        /\ tpc \in [Thread -> {"idle", "check", "cancel", "wait"}]
        /\ tcmd \in [Thread -> Command]
      BY <1>1, <1>2
  <2>3. newepd \in 0..MaxSession /\ epd \in 0..MaxSession /\ sess \in 0..MaxSession
      OBVIOUS
  <2> QED
      BY ZenonT(60), <1>2, <2>1, <2>2, <2>3 DEF TypeOK, State, Stable
<1>4. MutexInv /\ AbortInv
    BY ZenonT(60), <1>1, <1>2 DEF MutexInv, AbortInv
<1>5. FlowInv /\ StateInv
    BY <1>1, <1>2 DEF FlowInv, StateInv, Started
<1>6. AllowInv
    BY ZenonT(60), <1>1, <1>2 DEF AllowInv, is_command_allowed
<1>7. WaitInv
    BY ZenonT(60), <1>1, <1>2 DEF WaitInv, Started
<1>8. SessionInv /\ OneSession
    BY DEF SessionInv, OneSession
<1> QED
    BY <1>3, <1>4, <1>5, <1>6, <1>7, <1>8 DEF IInv

(***************************************************************************)
(* cosm_set_command() preserves the invariant                              *)
(***************************************************************************)
(* Entering it: a forced command raises the abort flag and goes straight to *)
(* cancel_work_sync(), any other has yet to be admitted.                    *)
LEMMA SetCommandInv ==
    ASSUME IInv, NEW t \in Thread, NEW c \in Command, set_command(t, c),
           tpc[t] = "idle", work' \in {"idle", "queued", "poll", "call", "exit"},
           IF t = Scif THEN tpc'[Scif] # "idle" => work' = "call" ELSE work' = work,
           work' # "idle" <=> work # "idle"
    PROVE  IInv'
<1> USE ThreadAssumption
<1>1. /\ TypeOK /\ MutexInv /\ AbortInv /\ FlowInv /\ StateInv /\ AllowInv
      /\ WaitInv /\ SessionInv /\ OneSession
    BY DEF IInv
<1>2. /\ mutex = None /\ tcmd' = [tcmd EXCEPT ![t] = c]
      /\ \/ UNCHANGED <<mutex, tpc, abort>>
         \/ /\ mutex' = t
            /\ tpc' = [tpc EXCEPT ![t] = IF c \in Aborting THEN "cancel"
                                                           ELSE "check"]
            /\ abort' = (c \in Aborting \/ abort)
    BY DEF set_command
<1>3. /\ UNCHANGED <<id, received_online, changed>>
      /\ UNCHANGED <<state, previous_state, locked, execute_on_ready>>
      /\ UNCHANGED <<flow, flow_cmd, flow_state>>
      /\ UNCHANGED <<server, newepd, epd, backlog, sess, scif>>
    BY DEF set_command, state_vars, flow_vars, server_vars, card_vars
<1>4. ~abort /\ \A u \in Thread : tpc[u] = "idle"
    BY <1>1, <1>2 DEF TypeOK, MutexInv, AbortInv
<1>5. abort' => c \in Aborting /\ mutex' = t /\ tpc'[t] = "cancel"
    BY ZenonT(60), <1>1, <1>2, <1>4 DEF TypeOK
<1>6. \A u \in Thread : tpc'[u] # "idle" => u = t /\ mutex' = t
    BY <1>1, <1>2, <1>4 DEF TypeOK
<1>7. \/ tpc'[t] \in {"idle", "check"}
      \/ c \in Aborting /\ tpc'[t] = "cancel" /\ abort'
    BY ZenonT(60), <1>1, <1>2, <1>4 DEF TypeOK
<1>8. tcmd'[t] = c
    BY <1>1, <1>2 DEF TypeOK
<1>9. TypeOK'
  <2>1. abort' \in BOOLEAN
      BY ZenonT(60), <1>1, <1>2 DEF TypeOK
  <2>2. mutex' \in Thread \cup {None} /\ tcmd' \in [Thread -> Command]
      BY <1>1, <1>2 DEF TypeOK
  <2>3. tpc' \in [Thread -> {"idle", "check", "cancel", "wait"}]
      BY <1>1, <1>2 DEF TypeOK
  <2> QED
      BY <1>1, <1>3, <2>1, <2>2, <2>3 DEF TypeOK
<1>10. MutexInv'
    BY <1>1, <1>4, <1>6 DEF MutexInv
<1>11. AbortInv'
    BY <1>5, <1>6, <1>7, <1>8 DEF AbortInv
<1>12. FlowInv'
    BY <1>1, <1>3, <1>4 DEF FlowInv
<1>13. StateInv'
    BY <1>1, <1>3 DEF StateInv, Started
<1>14. AllowInv'
    BY <1>1, <1>3, <1>6, <1>7, <1>8 DEF AllowInv
<1>15. WaitInv'
    BY <1>1, <1>3, <1>6, <1>7 DEF WaitInv, Started
<1>16. SessionInv' /\ OneSession'
    BY <1>1, <1>3 DEF SessionInv, OneSession
<1> QED
    BY <1>9, <1>10, <1>11, <1>12, <1>13, <1>14, <1>15, <1>16 DEF IInv

(* Leaving it: nobody is inside it any more.                                *)
LEMMA ReturnInv ==
    ASSUME IInv, NEW t \in Thread, tpc[t] \in {"check", "wait"}, Return(t),
           UNCHANGED <<id, abort, received_online, tcmd>>,
           UNCHANGED <<state, previous_state, locked, execute_on_ready>>,
           UNCHANGED <<flow, flow_cmd, flow_state>>,
           UNCHANGED <<server, newepd, epd, backlog, sess, scif>>,
           changed' \in Nat, changed' <= changed
    PROVE  IInv'
<1> USE ThreadAssumption
<1>1. /\ TypeOK /\ MutexInv /\ AbortInv /\ FlowInv /\ StateInv /\ AllowInv
      /\ WaitInv /\ SessionInv /\ OneSession
    BY DEF IInv
<1>2. /\ mutex = t /\ mutex' = None /\ tpc' = [tpc EXCEPT ![t] = "idle"]
      /\ t = Scif => work = "call" /\ work' \in {"poll", "exit"}
      /\ t # Scif => work' = work
    BY <1>1 DEF Return, MutexInv
<1>3. ~abort /\ \A u \in Thread : tpc'[u] = "idle"
    BY <1>1, <1>2 DEF TypeOK, MutexInv, AbortInv
<1>4. TypeOK'
  <2>1. tpc' \in [Thread -> {"idle", "check", "cancel", "wait"}]
      BY <1>1, <1>2 DEF TypeOK
  <2>2. work' \in {"idle", "queued", "poll", "call", "exit"}
      BY <1>1, <1>2 DEF TypeOK
  <2> QED
      BY <1>1, <1>2, <2>1, <2>2 DEF TypeOK
<1>5. MutexInv' /\ AbortInv'
    BY <1>3 DEF MutexInv, AbortInv
<1>6. FlowInv'
    BY <1>1 DEF FlowInv
<1>7. StateInv'
    BY <1>1 DEF StateInv, Started
<1>8. AllowInv'
    BY <1>1, <1>3 DEF AllowInv
<1>9. WaitInv'
    BY <1>1, <1>3 DEF WaitInv, Started, TypeOK
<1>10. SessionInv' /\ OneSession'
    BY <1>1, <1>2 DEF SessionInv, OneSession
<1> QED
    BY <1>4, <1>5, <1>6, <1>7, <1>8, <1>9, <1>10 DEF IInv

(* The steps in between.                                                    *)
LEMMA AdmitInv ==
    ASSUME IInv, NEW t \in Thread, admit(t)
    PROVE  IInv'
<1> USE ThreadAssumption
<1>1. /\ TypeOK /\ MutexInv /\ AbortInv /\ FlowInv /\ StateInv /\ AllowInv
      /\ WaitInv /\ SessionInv /\ OneSession
    BY DEF IInv
<1>2. /\ tpc[t] = "check"
      /\ UNCHANGED <<id, abort, received_online, changed, tcmd>>
      /\ UNCHANGED <<state, previous_state, locked, execute_on_ready>>
      /\ UNCHANGED <<flow, flow_cmd, flow_state>>
      /\ UNCHANGED <<server, newepd, epd, backlog, sess, scif>>
    BY DEF admit, command_vars, state_vars, flow_vars, server_vars, card_vars
<1>3. CASE Return(t)
    BY <1>1, <1>2, <1>3, ReturnInv DEF TypeOK
<1>4. CASE /\ id = "NONE" /\ is_command_allowed(state, tcmd[t])
           /\ tpc' = [tpc EXCEPT ![t] = "cancel"] /\ UNCHANGED <<mutex, work>>
  <2>1. mutex = t /\ ~abort /\ tcmd[t] \in Command
      BY <1>1, <1>2 DEF TypeOK, MutexInv, AbortInv
  <2>2. \A u \in Thread : u # t => tpc[u] = "idle" /\ tpc'[u] = "idle"
      BY <1>1, <1>4, <2>1 DEF TypeOK, MutexInv
  <2>3. tpc'[t] = "cancel"
      BY <1>1, <1>4 DEF TypeOK
  <2>4. tcmd[t] \notin Aborting
      BY <1>4 DEF is_command_allowed, Aborting, Forced, Events, FromCard
  <2>5. tpc' \in [Thread -> {"idle", "check", "cancel", "wait"}]
      BY <1>1, <1>4 DEF TypeOK
  <2>6. TypeOK'
      BY <1>1, <1>2, <1>4, <2>5 DEF TypeOK
  <2>7. MutexInv' /\ AbortInv'
      BY <1>1, <1>2, <1>4, <2>1, <2>2, <2>3, <2>4 DEF MutexInv, AbortInv
  <2>8. FlowInv' /\ StateInv'
      BY <1>1, <1>2 DEF FlowInv, StateInv, Started
  <2>9. AllowInv'
      BY <1>1, <1>2, <1>4, <2>2 DEF AllowInv
  <2>10. WaitInv'
      BY <1>1, <1>2, <2>2, <2>3 DEF WaitInv, Started
  <2>11. SessionInv' /\ OneSession'
      BY <1>1, <1>2, <1>4 DEF SessionInv, OneSession
  <2> QED
      BY <2>6, <2>7, <2>8, <2>9, <2>10, <2>11 DEF IInv
<1> QED
    BY <1>3, <1>4 DEF admit

LEMMA ExecCommandInv ==
    ASSUME IInv, NEW t \in Thread, exec_command(t)
    PROVE  IInv'
<1> USE ThreadAssumption
<1>1. /\ TypeOK /\ MutexInv /\ AbortInv /\ FlowInv /\ StateInv /\ AllowInv
      /\ WaitInv /\ SessionInv /\ OneSession
    BY DEF IInv
<1>2. /\ tpc[t] = "cancel" /\ id' = tcmd[t] /\ abort' = FALSE
      /\ received_online' = FALSE /\ changed' = 0 /\ flow' = "queued"
      /\ tpc' = [tpc EXCEPT ![t] = "wait"]
    BY DEF exec_command
<1>3. /\ UNCHANGED <<mutex, tcmd, flow_cmd, flow_state, work, sess, scif>>
      /\ UNCHANGED <<state, previous_state, locked, execute_on_ready>>
      /\ UNCHANGED <<server, newepd, epd, backlog>>
    BY DEF exec_command, state_vars, work_vars, server_vars, card_vars
<1>4. mutex = t /\ tcmd[t] \in Command /\ tcmd[t] # "NONE"
    BY <1>1, <1>2, Tables DEF TypeOK, MutexInv
<1>5. /\ tpc'[t] = "wait"
      /\ \A u \in Thread : u # t => tpc[u] = "idle" /\ tpc'[u] = "idle"
    BY <1>1, <1>2, <1>4 DEF TypeOK, MutexInv
<1>6. TypeOK'
  <2>1. tpc' \in [Thread -> {"idle", "check", "cancel", "wait"}]
      BY <1>1, <1>2 DEF TypeOK
  <2> QED
      BY ZenonT(60), <1>1, <1>2, <1>3, <1>4, <2>1 DEF TypeOK
<1>7. MutexInv' /\ AbortInv'
    BY <1>1, <1>2, <1>3, <1>4, <1>5 DEF MutexInv, AbortInv
<1>8. FlowInv' /\ StateInv'
    BY <1>2, <1>4 DEF FlowInv, StateInv, Started
<1>9. AllowInv'
    BY <1>1, <1>2, <1>3, <1>5 DEF AllowInv
<1>10. WaitInv'
    BY <1>2, <1>3, <1>5 DEF WaitInv, Started
<1>11. SessionInv' /\ OneSession'
    BY <1>1, <1>3 DEF SessionInv, OneSession
<1> QED
    BY <1>6, <1>7, <1>8, <1>9, <1>10, <1>11 DEF IInv

(***************************************************************************)
(* cosm_state_flow() preserves the invariant                               *)
(***************************************************************************)
(* The hardware operations and the poll: the flow goes on to the poll, to a *)
(* final state, or away if it has been aborted.                             *)
LEMMA FlowMoveInv ==
    ASSUME IInv, flow \in {"invoke", "poll"},
           \/ flow' = "poll" /\ UNCHANGED flow_state
           \/ flow' = "switch" /\ flow_state' \in {target_state(id), "ERROR"}
           \/ flow' = "idle" /\ abort /\ UNCHANGED flow_state,
           UNCHANGED <<id, abort, received_online, changed, flow_cmd>>,
           UNCHANGED <<state, previous_state, locked, mutex, tpc, tcmd>>,
           UNCHANGED <<work, server, newepd, epd, sess>>,
           execute_on_ready' \in {"NONE", "BOOT"}, scif' \in BOOLEAN,
           backlog' \in Seq(Session)
    PROVE  IInv'
<1>1. /\ TypeOK /\ MutexInv /\ AbortInv /\ FlowInv /\ StateInv /\ AllowInv
      /\ WaitInv /\ SessionInv /\ OneSession
    BY DEF IInv
<1>2. id \in Command /\ target_state(id) \in Stable /\ "ERROR" \in Stable
  <2>1. id \in Command
      BY <1>1 DEF FlowInv, TypeOK
  <2> QED
      BY <2>1, Tables DEF Stable
<1>3. TypeOK'
  <2>1. flow_state' \in Stable /\ flow' \in {"poll", "switch", "idle"}
      BY <1>1, <1>2 DEF TypeOK
  <2> QED
      BY <1>1, <2>1 DEF TypeOK
<1>4. MutexInv' /\ AbortInv'
    BY <1>1 DEF MutexInv, AbortInv
<1>5. FlowInv'
    BY <1>1 DEF FlowInv
<1>6. StateInv'
    BY <1>1 DEF StateInv, Started
<1>7. AllowInv'
    BY <1>1 DEF AllowInv
<1>8. WaitInv'
    BY <1>1 DEF WaitInv, Started
<1>9. SessionInv' /\ OneSession'
    BY <1>1 DEF SessionInv, OneSession
<1> QED
    BY <1>3, <1>4, <1>5, <1>6, <1>7, <1>8, <1>9 DEF IInv

(* cosm_stop() and what leaves sessions alone keep the backlog a sequence.  *)
LEMMA Backlog ==
    ASSUME IInv, cosm_stop \/ UNCHANGED <<backlog, scif>>
    PROVE  backlog' \in Seq(Session) /\ scif' \in BOOLEAN
<1>1. backlog \in Seq(Session) /\ scif \in BOOLEAN
    BY DEF IInv, SessionInv, TypeOK
<1>2. CASE cosm_stop
  <2>1. backlog' = <<>> /\ scif' = FALSE
      BY <1>2 DEF cosm_stop
  <2>2. <<>> \in Seq(Session)
      OBVIOUS
  <2>3. scif' \in BOOLEAN
      BY ZenonT(60), <2>1
  <2> QED
      BY <2>1, <2>2, <2>3
<1>3. CASE UNCHANGED <<backlog, scif>>
    BY <1>1, <1>3
<1> QED
    BY <1>2, <1>3

LEMMA InvokeInv ==
    ASSUME IInv, cosm_boot \/ cosm_reset \/ cosm_shutdown \/ cosm_force
    PROVE  IInv'
<1>1. flow = "invoke" /\ UNCHANGED invoke_unchanged
    BY DEF cosm_boot, cosm_reset, cosm_shutdown, cosm_force, invoke
<1>2. /\ UNCHANGED <<id, abort, received_online, changed, flow_cmd>>
      /\ UNCHANGED <<state, previous_state, locked, mutex, tpc, tcmd>>
      /\ UNCHANGED <<work, server, newepd, epd, sess, execute_on_ready>>
    BY <1>1 DEF invoke_unchanged, command_vars, state_vars, thread_vars,
                work_vars, server_vars
<1>3. execute_on_ready' \in {"NONE", "BOOT"} /\ scif \in BOOLEAN
    BY <1>2 DEF IInv, TypeOK
<1>4. Invoked \/ InvokeFailed
    BY DEF cosm_boot, cosm_reset, cosm_shutdown, cosm_force
<1>5. \/ flow' = "poll" /\ UNCHANGED flow_state
      \/ flow' = "switch" /\ flow_state' \in {target_state(id), "ERROR"}
    BY <1>4 DEF Invoked, InvokeFailed
<1>6. backlog' \in Seq(Session) /\ scif' \in BOOLEAN
  <2>1. CASE cosm_boot
    <3>1. backlog' = backlog /\ (scif' = TRUE \/ scif' = scif)
        BY <2>1 DEF cosm_boot
    <3> QED
        BY ZenonT(60), <3>1, <1>3 DEF IInv, SessionInv
  <2>2. CASE cosm_reset \/ cosm_shutdown \/ cosm_force
    <3>1. cosm_stop \/ UNCHANGED <<backlog, scif>>
        BY <2>2 DEF cosm_reset, cosm_shutdown, cosm_force, Ask
    <3> QED
        BY <3>1, Backlog
  <2> QED
      BY <2>1, <2>2
<1> QED
    BY <1>1, <1>2, <1>3, <1>5, <1>6, FlowMoveInv

LEMMA PollInv ==
    ASSUME IInv, flow_complete \/ flow_timeout \/ flow_abort
    PROVE  IInv'
<1>1. flow = "poll" /\ UNCHANGED poll_unchanged
    BY DEF flow_complete, flow_timeout, flow_abort
<1>2. /\ UNCHANGED <<id, abort, received_online, changed, flow_cmd>>
      /\ UNCHANGED <<state, previous_state, locked, mutex, tpc, tcmd>>
      /\ UNCHANGED <<work, server, newepd, epd, sess>>
    BY <1>1 DEF poll_unchanged, command_vars, thread_vars, work_vars, server_vars
<1>3. execute_on_ready' \in {"NONE", "BOOT"}
    BY DEF flow_complete, flow_timeout, flow_abort, IInv, TypeOK
<1>4. flow_cmd = id
    BY <1>1 DEF IInv, FlowInv
<1>5. \/ flow' = "switch" /\ flow_state' \in {target_state(id), "ERROR"}
      \/ flow' = "idle" /\ abort /\ UNCHANGED flow_state
    BY <1>4 DEF flow_complete, flow_timeout, flow_abort
<1>6. backlog' \in Seq(Session) /\ scif' \in BOOLEAN
  <2>1. cosm_stop \/ UNCHANGED <<backlog, scif>>
      BY DEF flow_complete, flow_timeout, flow_abort
  <2> QED
      BY <2>1, Backlog
<1> QED
    BY <1>1, <1>2, <1>3, <1>5, <1>6, FlowMoveInv

(* A change of the state, as TypeOK needs it.                               *)
LEMMA SwitchType ==
    ASSUME TypeOK, NEW s \in State, cosm_switch_to_state(s)
    PROVE  /\ state' \in State /\ previous_state' \in State
           /\ locked' = (state' \notin {"READY", "SHUTDOWN", "ERROR"})
           /\ execute_on_ready' \in {"NONE", "BOOT"}
           /\ changed' \in Nat
           /\ state' = s /\ previous_state' = state
BY DEF TypeOK, cosm_switch_to_state

LEMMA FlowStartInv ==
    ASSUME IInv, flow_start
    PROVE  IInv'
<1>1. /\ TypeOK /\ MutexInv /\ AbortInv /\ FlowInv /\ StateInv /\ AllowInv
      /\ WaitInv /\ SessionInv /\ OneSession
    BY DEF IInv
<1>2. /\ flow = "queued" /\ flow_cmd' = id
      /\ \/ /\ temporal_state(id) # "UNKNOWN"
            /\ cosm_switch_to_state(temporal_state(id))
         \/ /\ temporal_state(id) = "UNKNOWN"
            /\ UNCHANGED <<state_vars, changed>>
      /\ flow' \in {"invoke", "poll"}
      /\ flow' = "invoke" => HasInvoke(id)
    BY DEF flow_start
<1>3. /\ UNCHANGED <<id, abort, received_online, mutex, tpc, tcmd, flow_state>>
      /\ UNCHANGED <<work, server, newepd, epd, backlog, sess, scif>>
    BY DEF flow_start, thread_vars, work_vars, server_vars, card_vars
<1>4. id \in Command /\ id # "NONE" /\ changed = 0
    BY <1>1, <1>2 DEF FlowInv, TypeOK, WaitInv
<1>5. temporal_state(id) \in State
    BY <1>4, Tables DEF State
<1>6. /\ state' \in State /\ previous_state' \in State
      /\ locked' = (state' \notin {"READY", "SHUTDOWN", "ERROR"})
      /\ execute_on_ready' \in {"NONE", "BOOT"}
      /\ changed' \in Nat
      /\ \/ state' = temporal_state(id) /\ previous_state' = state
         \/ temporal_state(id) = "UNKNOWN" /\ changed' = 0
  <2>1. CASE cosm_switch_to_state(temporal_state(id))
      BY <1>1, <1>5, <2>1, SwitchType
  <2>2. CASE temporal_state(id) = "UNKNOWN" /\ UNCHANGED <<state_vars, changed>>
    <3>1. UNCHANGED <<state, previous_state, locked, execute_on_ready, changed>>
        BY <2>2 DEF state_vars
    <3> QED
        BY <1>1, <1>4, <2>2, <3>1 DEF TypeOK
  <2> QED
      BY <1>2, <2>1, <2>2
<1>7. TypeOK'
    BY <1>1, <1>2, <1>3, <1>4, <1>6 DEF TypeOK
<1>8. MutexInv' /\ AbortInv'
    BY <1>1, <1>3 DEF MutexInv, AbortInv
<1>9. FlowInv'
    BY <1>2, <1>3, <1>4 DEF FlowInv
<1>10. StateInv'
    BY <1>2, <1>3, <1>4, <1>6 DEF StateInv, Started
<1>11. AllowInv'
  <2>1. flow' = "invoke" /\ id \notin Aborting => previous_state' = state
      BY <1>4, <1>6, Tables
  <2>2. \A t \in Thread : tpc[t] = "cancel" => tcmd[t] \in Aborting
      BY <1>1, <1>4 DEF AllowInv
  <2> QED
      BY <1>1, <1>2, <1>3, <2>1, <2>2 DEF AllowInv
<1>12. WaitInv'
  <2>1. \A t \in Thread : tpc[t] = "wait" => id = tcmd[t]
      BY <1>1, <1>4 DEF WaitInv
  <2>2. temporal_state(id) = "UNKNOWN" => changed' = 0
    <3>1. temporal_state(id) = "UNKNOWN" => UNCHANGED <<state_vars, changed>>
        BY <1>2
    <3> QED
        BY <1>4, <3>1
  <2> QED
      BY <1>2, <1>3, <2>1, <2>2 DEF WaitInv, Started
<1>13. SessionInv' /\ OneSession'
    BY <1>1, <1>3 DEF SessionInv, OneSession
<1> QED
    BY <1>7, <1>8, <1>9, <1>10, <1>11, <1>12, <1>13 DEF IInv

LEMMA FlowSwitchInv ==
    ASSUME IInv, flow_switch
    PROVE  IInv'
<1>1. /\ TypeOK /\ MutexInv /\ AbortInv /\ FlowInv /\ StateInv /\ AllowInv
      /\ WaitInv /\ SessionInv /\ OneSession
    BY DEF IInv
<1>2. flow = "switch" /\ flow' = "clear" /\ cosm_switch_to_state(flow_state)
    BY DEF flow_switch
<1>3. /\ UNCHANGED <<id, abort, received_online, mutex, tpc, tcmd>>
      /\ UNCHANGED <<flow_cmd, flow_state>>
      /\ UNCHANGED <<work, server, newepd, epd, backlog, sess, scif>>
    BY DEF flow_switch, thread_vars, work_vars, server_vars, card_vars
<1>4. id # "NONE" /\ flow_state \in State
    BY <1>1, <1>2 DEF FlowInv, TypeOK, State
<1>5. /\ state' \in State /\ previous_state' \in State
      /\ locked' = (state' \notin {"READY", "SHUTDOWN", "ERROR"})
      /\ execute_on_ready' \in {"NONE", "BOOT"}
      /\ changed' \in Nat
      /\ state' = flow_state
    BY <1>1, <1>2, <1>4, SwitchType
<1>6. TypeOK'
    BY <1>1, <1>2, <1>3, <1>5 DEF TypeOK
<1>7. MutexInv' /\ AbortInv'
    BY ZenonT(60), <1>1, <1>3 DEF MutexInv, AbortInv
<1>8. FlowInv' /\ StateInv'
    BY <1>1, <1>2, <1>3, <1>4, <1>5 DEF FlowInv, StateInv, Started
<1>9. AllowInv'
    BY ZenonT(60), <1>1, <1>2, <1>3, <1>4 DEF AllowInv
<1>10. WaitInv'
    BY ZenonT(60), <1>1, <1>2, <1>3, <1>4 DEF WaitInv, Started
<1>11. SessionInv' /\ OneSession'
    BY <1>1, <1>3 DEF SessionInv, OneSession
<1> QED
    BY <1>6, <1>7, <1>8, <1>9, <1>10, <1>11 DEF IInv

LEMMA FlowClearInv ==
    ASSUME IInv, flow_clear
    PROVE  IInv'
<1>1. /\ TypeOK /\ MutexInv /\ AbortInv /\ FlowInv /\ StateInv /\ AllowInv
      /\ WaitInv /\ SessionInv /\ OneSession
    BY DEF IInv
<1>2. flow = "clear" /\ flow' = "idle" /\ id' = "NONE"
    BY DEF flow_clear
<1>3. /\ UNCHANGED <<abort, received_online, changed, mutex, tpc, tcmd>>
      /\ UNCHANGED <<state, previous_state, locked, execute_on_ready>>
      /\ UNCHANGED <<flow_cmd, flow_state>>
      /\ UNCHANGED <<work, server, newepd, epd, backlog, sess, scif>>
    BY DEF flow_clear, state_vars, thread_vars, work_vars, server_vars, card_vars
<1>4. /\ id # "NONE" /\ state = flow_state /\ flow_state \in Stable
      /\ flow_state \in {target_state(id), "ERROR"}
    BY <1>1, <1>2 DEF FlowInv, StateInv, TypeOK
<1>5. TypeOK'
    BY <1>1, <1>2, <1>3 DEF TypeOK
<1>6. MutexInv' /\ AbortInv'
    BY ZenonT(60), <1>1, <1>3 DEF MutexInv, AbortInv
<1>7. FlowInv' /\ StateInv'
    BY <1>2, <1>3, <1>4 DEF FlowInv, StateInv, Started
<1>8. AllowInv'
    BY <1>1, <1>2, <1>3, <1>4 DEF AllowInv
<1>9. WaitInv'
    BY <1>1, <1>2, <1>3, <1>4 DEF WaitInv, Started
<1>10. SessionInv' /\ OneSession'
    BY <1>1, <1>3 DEF SessionInv, OneSession
<1> QED
    BY <1>5, <1>6, <1>7, <1>8, <1>9, <1>10 DEF IInv

(***************************************************************************)
(* The work item, the server and the card                                  *)
(***************************************************************************)
(* A step that leaves the commands, the state and the flow alone preserves  *)
(* the invariant if it keeps the places of the work item and of the server  *)
(* in order.  It may choose the command that the work item is to issue.     *)
LEMMA OutsideInv ==
    ASSUME IInv,
           UNCHANGED <<id, abort, changed, flow, flow_cmd, flow_state>>,
           UNCHANGED <<state, previous_state, locked, execute_on_ready>>,
           UNCHANGED <<mutex, tpc>>,
           \/ UNCHANGED tcmd
           \/ /\ work = "poll"
              /\ \E c \in Command : tcmd' = [tcmd EXCEPT ![Scif] = c],
           UNCHANGED work \/ work # "call",
           work' \in {"idle", "queued", "poll", "call", "exit"},
           server' \in {"accept", "flush", "assign"},
           received_online' \in BOOLEAN, scif' \in BOOLEAN,
           newepd' \in 0..MaxSession, epd' \in 0..MaxSession,
           sess' \in 0..MaxSession, SessionInv', OneSession'
    PROVE  IInv'
<1> USE ThreadAssumption
<1>1. /\ TypeOK /\ MutexInv /\ AbortInv /\ FlowInv /\ StateInv /\ AllowInv
      /\ WaitInv
    BY DEF IInv
<1>2. /\ tcmd' \in [Thread -> Command]
      /\ \A t \in Thread : tpc[t] # "idle" => tcmd'[t] = tcmd[t]
  <2>1. CASE UNCHANGED tcmd
      BY <1>1, <2>1 DEF TypeOK
  <2>2. CASE /\ work = "poll"
             /\ \E c \in Command : tcmd' = [tcmd EXCEPT ![Scif] = c]
    <3>1. PICK c \in Command : tcmd' = [tcmd EXCEPT ![Scif] = c]
        BY ZenonT(60), <2>2
    <3>2. tpc[Scif] = "idle"
        BY <1>1, <2>2 DEF MutexInv
    <3> QED
        BY <1>1, <3>1, <3>2 DEF TypeOK
  <2> QED
      BY <2>1, <2>2
<1>3. TypeOK'
    BY <1>1, <1>2 DEF TypeOK
<1>4. MutexInv'
    BY <1>1 DEF MutexInv
<1>5. AbortInv'
    BY <1>1, <1>2 DEF AbortInv
<1>6. FlowInv' /\ StateInv'
    BY <1>1 DEF FlowInv, StateInv, Started
<1>7. AllowInv'
    BY <1>1, <1>2 DEF AllowInv
<1>8. WaitInv'
    BY <1>1, <1>2 DEF WaitInv, Started
<1> QED
    BY <1>3, <1>4, <1>5, <1>6, <1>7, <1>8 DEF IInv

LEMMA WorkInv ==
    ASSUME IInv,
           work_start \/ work_recv \/ work_hang \/ work_hup \/ work_exit
    PROVE  IInv'
<1>1. UNCHANGED work_unchanged /\ UNCHANGED <<id, abort, changed, mutex, tpc>>
    BY DEF work_start, work_recv, work_hang, work_hup, work_exit, command_vars,
           thread_vars
<1>2. /\ UNCHANGED <<flow, flow_cmd, flow_state, sess, scif, backlog>>
      /\ UNCHANGED <<state, previous_state, locked, execute_on_ready>>
      /\ UNCHANGED <<server, newepd>>
    BY <1>1 DEF work_unchanged, state_vars, flow_vars
<1>3. TypeOK /\ SessionInv /\ OneSession
    BY DEF IInv
<1>4. /\ work \in {"queued", "poll", "exit"}
      /\ received_online' \in BOOLEAN
    BY ZenonT(60), <1>3
       DEF work_start, work_recv, work_hang, work_hup, work_exit,
                command_vars, TypeOK
<1>5. \/ UNCHANGED tcmd
      \/ /\ work = "poll"
         /\ \E c \in Command : tcmd' = [tcmd EXCEPT ![Scif] = c]
  <2>1. "HANDLE_HANG" \in Command /\ \A s : Handler(s) \in Command
      BY DEF Handler, Command, FromCard, Events
  <2> QED
      BY <2>1 DEF work_start, work_recv, work_hang, work_hup, work_exit,
                  thread_vars
<1>6. \/ epd' = epd /\ work' \in {"poll", "call", "exit"}
      \/ epd' = 0 /\ work' = "idle"
    BY DEF work_start, work_recv, work_hang, work_hup, work_exit
<1>7. epd' \in 0..MaxSession /\ OneSession' /\ SessionInv'
  <2>1. epd \in 0..MaxSession /\ 0 \in 0..MaxSession
      BY <1>3, BoundAssumption DEF TypeOK
  <2>2. OneSession'
      BY <1>2, <1>3, <1>4, <1>6 DEF OneSession
  <2>3. SessionInv'
      BY <1>2, <1>3, <1>4, <1>6 DEF SessionInv
  <2> QED
      BY <1>6, <2>1, <2>2, <2>3
<1> QED
    BY <1>1, <1>2, <1>3, <1>4, <1>5, <1>6, <1>7, OutsideInv DEF TypeOK

LEMMA ServerInv ==
    ASSUME IInv, Server
    PROVE  IInv'
<1>1. UNCHANGED server_unchanged
    BY DEF Server, server_accept, server_flush, server_assign
<1>2. /\ UNCHANGED <<id, abort, received_online, changed, mutex, tpc, tcmd>>
      /\ UNCHANGED <<flow, flow_cmd, flow_state, sess, scif>>
      /\ UNCHANGED <<state, previous_state, locked, execute_on_ready>>
    BY <1>1 DEF server_unchanged, command_vars, state_vars, thread_vars, flow_vars
<1>3. TypeOK /\ SessionInv /\ OneSession
    BY DEF IInv
<1>4. CASE server_accept
  <2>1. /\ Head(backlog) \in Session /\ Tail(backlog) \in Seq(Session)
        /\ Head(backlog) \in 0..MaxSession
      BY <1>3, <1>4, BoundAssumption DEF server_accept, SessionInv
  <2>2. /\ newepd' = Head(backlog) /\ backlog' = Tail(backlog)
        /\ server' = "flush" /\ UNCHANGED <<epd, work>>
      BY <1>4 DEF server_accept
  <2>3. SessionInv' /\ OneSession'
      BY <1>3, <2>1, <2>2 DEF SessionInv, OneSession
  <2> QED
      BY <1>2, <1>3, <2>1, <2>2, <2>3, OutsideInv DEF TypeOK
<1>5. CASE server_flush
  <2>1. /\ server = "flush" /\ work = "idle" /\ server' = "assign"
        /\ UNCHANGED <<newepd, epd, work, backlog>>
      BY <1>5 DEF server_flush
  <2>2. SessionInv' /\ OneSession'
      BY <1>3, <2>1 DEF SessionInv, OneSession
  <2> QED
      BY <1>2, <1>3, <2>1, <2>2, OutsideInv DEF TypeOK
<1>6. CASE server_assign
  <2>1. /\ server = "assign" /\ epd = 0
        /\ epd' = newepd /\ work' = "queued"
        /\ newepd' = 0 /\ server' = "accept" /\ UNCHANGED backlog
      BY <1>3, <1>6 DEF server_assign, OneSession
  <2>2. newepd \in Session /\ newepd # 0 /\ 0 \in 0..MaxSession /\ work = "idle"
      BY <1>3, <2>1, BoundAssumption DEF SessionInv, OneSession
  <2>3. SessionInv' /\ OneSession'
      BY <1>3, <2>1, <2>2 DEF SessionInv, OneSession
  <2> QED
      BY <1>2, <1>3, <2>1, <2>2, <2>3, OutsideInv DEF TypeOK
<1> QED
    BY <1>4, <1>5, <1>6 DEF Server

LEMMA CardInv ==
    ASSUME IInv, Card
    PROVE  IInv'
<1>1. UNCHANGED card_unchanged /\ UNCHANGED scif
    BY ZenonT(60)
       DEF Card, cosm_scif_connect, cosm_client_send_online, cosm_reboot_event,
           card_panic_event, card_crash, card_down, card_firmware
<1>2. /\ UNCHANGED <<id, abort, received_online, changed, mutex, tpc, tcmd>>
      /\ UNCHANGED <<flow, flow_cmd, flow_state, work, server, newepd, epd>>
      /\ UNCHANGED <<state, previous_state, locked, execute_on_ready>>
    BY <1>1 DEF card_unchanged, command_vars, state_vars, thread_vars, flow_vars,
                work_vars, server_vars
<1>3. TypeOK /\ SessionInv /\ OneSession
    BY DEF IInv
<1>4. sess' \in 0..MaxSession /\ backlog' \in Seq(Session)
  <2>1. CASE cosm_scif_connect
    <3>1. sess < MaxSession /\ sess' = sess + 1 /\ backlog' = Append(backlog, sess + 1)
        BY <2>1 DEF cosm_scif_connect
    <3>2. sess + 1 \in Session /\ sess + 1 \in 0..MaxSession
        BY <1>3, <3>1, BoundAssumption DEF TypeOK
    <3>3. Append(backlog, sess + 1) \in Seq(Session)
        BY <1>3, <3>2 DEF SessionInv
    <3> QED
        BY <3>1, <3>2, <3>3
  <2>2. CASE ~cosm_scif_connect
    <3>1. UNCHANGED <<sess, backlog>>
        BY ZenonT(60), <2>2
           DEF Card, cosm_client_send_online, cosm_reboot_event,
                    card_panic_event, card_crash, card_down, card_firmware
    <3> QED
        BY <1>3, <3>1 DEF TypeOK, SessionInv
  <2> QED
      BY <2>1, <2>2
<1>5. SessionInv' /\ OneSession'
    BY <1>2, <1>3, <1>4 DEF SessionInv, OneSession
<1> QED
    BY <1>1, <1>2, <1>3, <1>4, <1>5, OutsideInv DEF TypeOK

(***************************************************************************)
(* Every step preserves the invariant                                      *)
(***************************************************************************)
LEMMA NextInv == IInv /\ [Next]_vars => IInv'
<1> SUFFICES ASSUME IInv, [Next]_vars PROVE IInv'
    OBVIOUS
<1> USE ThreadAssumption
<1>1. TypeOK /\ MutexInv
    BY DEF IInv
<1>2. ASSUME NEW t \in Callers, NEW c \in UserCommands, state_store(t, c)
      PROVE  IInv'
  <2>1. t \in Thread /\ t # Scif /\ c \in Command
      BY CommandAssumption DEF Command
  <2>2. set_command(t, c) /\ UNCHANGED work
      BY <1>2 DEF state_store
  <2>3. tpc[t] = "idle"
      BY <1>1, <2>1, <2>2 DEF set_command, MutexInv
  <2> QED
      BY <1>1, <2>1, <2>2, <2>3, SetCommandInv DEF TypeOK
<1>3. ASSUME NEW t \in Thread, command_started(t) \/ command_interrupted(t)
      PROVE  IInv'
  <2>1. /\ tpc[t] = "wait" /\ Return(t)
        /\ UNCHANGED <<id, abort, received_online, tcmd>>
        /\ UNCHANGED <<state, previous_state, locked, execute_on_ready>>
        /\ UNCHANGED <<flow, flow_cmd, flow_state>>
        /\ UNCHANGED <<server, newepd, epd, backlog, sess, scif>>
      BY <1>3 DEF command_started, command_interrupted, command_vars, state_vars,
                  flow_vars, server_vars, card_vars
  <2>2. changed' \in Nat /\ changed' <= changed
      BY <1>1, <1>3 DEF command_started, command_interrupted, command_vars, TypeOK
  <2> QED
      BY <2>1, <2>2, ReturnInv
<1>4. ASSUME NEW t \in Thread, Calling(t)
      PROVE  IInv'
    BY <1>3, <1>4, AdmitInv, ExecCommandInv DEF Calling
<1>5. CASE Flow
    BY <1>5, FlowStartInv, InvokeInv, PollInv, FlowSwitchInv, FlowClearInv
    DEF Flow
<1>6. CASE work_call
  <2>1. /\ Scif \in Thread /\ tcmd[Scif] \in Command /\ tpc[Scif] = "idle"
        /\ set_command(Scif, tcmd[Scif])
        /\ work = "call" /\ work' \in {"poll", "call"}
        /\ tpc'[Scif] # "idle" => work' = "call"
      BY <1>1, <1>6 DEF work_call, TypeOK
  <2> QED
      BY <2>1, SetCommandInv
<1>7. CASE Work \/ work_hang
    BY <1>6, <1>7, WorkInv DEF Work
<1>8. CASE UNCHANGED vars
  <2>1. /\ UNCHANGED <<id, abort, received_online, changed, mutex, tpc, tcmd>>
        /\ UNCHANGED <<flow, flow_cmd, flow_state, work, server, newepd, epd>>
        /\ UNCHANGED <<state, previous_state, locked, execute_on_ready>>
        /\ UNCHANGED <<sess, scif, backlog>>
      BY <1>8 DEF vars, command_vars, state_vars, thread_vars, flow_vars,
                  work_vars, server_vars, card_vars
  <2>2. SessionInv' /\ OneSession'
      BY <2>1 DEF IInv, SessionInv, OneSession
  <2> QED
      BY <1>1, <2>1, <2>2, OutsideInv DEF TypeOK
<1> QED
    BY <1>2, <1>3, <1>4, <1>5, <1>7, <1>8, ServerInv, CardInv DEF Next

(***************************************************************************)
(* The theorems                                                            *)
(***************************************************************************)
(* The invariant holds in every reachable state.                            *)
THEOREM Invariance == Spec => []IInv
BY InitInv, NextInv, PTL DEF Spec

(* Variables keep their types, and the module is locked exactly while the   *)
(* card is neither READY, SHUTDOWN nor in ERROR (cosm_switch_to_state()).   *)
THEOREM TypeCorrect == Spec => []TypeOK
<1>1. IInv => TypeOK
    BY DEF IInv
<1> QED
    BY <1>1, Invariance, PTL

(* Between commands the card is in a stable state, whatever was aborted,    *)
(* interrupted or timed out before (cosm_state_flow()).                     *)
THEOREM Stability == Spec => []StableWhenIdle
<1>1. IInv => StableWhenIdle
    BY DEF IInv, StateInv, StableWhenIdle
<1> QED
    BY <1>1, Invariance, PTL

(* No command is lost: one that is stored has a flow, or is about to be     *)
(* replaced by the command that aborted it (cosm_set_command()).            *)
THEOREM NoLostCommand == Spec => []CommandHasFlow
<1>1. IInv => CommandHasFlow
  <2> SUFFICES ASSUME IInv, id # "NONE", flow # "queued",
                      ~(flow # "idle" /\ flow_cmd = id)
               PROVE  abort /\ \E t \in Thread : tpc[t] = "cancel"
      BY DEF CommandHasFlow
  <2>1. flow = "idle" /\ abort
      BY DEF IInv, FlowInv
  <2>2. mutex \in Thread /\ tpc[mutex] = "cancel"
      BY <2>1 DEF IInv, AbortInv, TypeOK
  <2> QED
      BY <2>1, <2>2
<1> QED
    BY <1>1, Invariance, PTL

(* None of the WARN_ON()s of the state flow and of the hardware operations  *)
(* fires (cosm_state_flow(), cosm_boot(), cosm_shutdown()).                 *)
THEOREM Warnings == Spec => []NoWarning
<1>1. IInv => NoWarning
  <2> SUFFICES ASSUME IInv PROVE NoWarning
      OBVIOUS
  <2>1. flow = "queued" => id # "NONE"
      BY DEF IInv, FlowInv
  <2>2. ASSUME flow = "invoke", flow_cmd \in {"BOOT", "BOOT_FIRMWARE", "SHUTDOWN"}
        PROVE  /\ flow_cmd \in Command /\ previous_state \in State
               /\ is_command_allowed(previous_state, flow_cmd)
    <3>1. flow_cmd = id /\ flow_cmd \in Command /\ previous_state \in State
        BY <2>2 DEF IInv, FlowInv, TypeOK
    <3>2. flow_cmd \notin Aborting
        BY <2>2 DEF Aborting, Forced, Events
    <3> QED
        BY ZenonT(60), <2>2, <3>1, <3>2 DEF IInv, AllowInv
  <2>3. invoke({"BOOT", "BOOT_FIRMWARE"}) => previous_state = "READY"
      BY <2>2, Allowed DEF invoke
  <2>4. invoke({"SHUTDOWN"}) => previous_state \in {"READY", "ONLINE"}
      BY <2>2, Allowed DEF invoke
  <2> QED
      BY <2>1, <2>3, <2>4 DEF NoWarning
<1> QED
    BY <1>1, Invariance, PTL

(* Who is told that a command has started sees a state of that very command *)
(* (cosm_set_command() and the completion state_changed).                   *)
THEOREM StartSeen == Spec => []StartedOnReturn
<1>1. IInv => StartedOnReturn
  <2> SUFFICES ASSUME IInv, NEW t \in Thread, tpc[t] = "wait", changed > 0
               PROVE  state \in {temporal_state(tcmd[t]), target_state(tcmd[t]),
                                  "ERROR"}
      BY DEF StartedOnReturn
  <2>1. ~abort
      BY DEF IInv, MutexInv, AbortInv
  <2>2. CASE id = "NONE"
      BY <2>2, Tables DEF IInv, WaitInv, TypeOK
  <2>3. CASE id # "NONE"
    <3>1. id = tcmd[t] /\ flow # "idle"
        BY <2>1, <2>3 DEF IInv, WaitInv, FlowInv
    <3>2. flow # "queued"
        BY DEF IInv, WaitInv
    <3>3. CASE Started
        BY <3>1, <3>3 DEF IInv, WaitInv, StateInv
    <3>4. CASE flow = "clear"
        BY <3>1, <3>4 DEF IInv, StateInv
    <3> QED
        BY <3>1, <3>2, <3>3, <3>4 DEF IInv, TypeOK, Started
  <2> QED
      BY <2>2, <2>3
<1> QED
    BY <1>1, Invariance, PTL

(* A device has one session at a time (cosm_scif_server() flushes the work  *)
(* item before it assigns a session).                                       *)
THEOREM Sessions == Spec => []OneSession
<1>1. IInv => OneSession
    BY DEF IInv
<1> QED
    BY <1>1, Invariance, PTL
(***************************************************************************)
(* The card's notices                                                      *)
(***************************************************************************)
Msg == [state : {"NONE", "ONLINE", "RESETTING", "SHUTTING_DOWN", "ERROR"},
        asked : BOOLEAN, boot : Nat]
Conn == [msgs : Seq(Msg), dead : BOOLEAN, accepted : BOOLEAN, boot : Nat,
         request : {"NONE", "REBOOT", "SHUTDOWN"}]

CardType == boot \in Nat /\ conn \in [Session -> Conn] /\ msg \in Msg

(* Neither online nor about to be: no boot has been started that could get  *)
(* there.                                                                   *)
Down == /\ state # "ONLINE"
        /\ flow = "poll" => flow_cmd # "BOOT"
        /\ flow = "switch" => flow_state # "ONLINE"

(* Who was asked in this boot, or has answered, is not online any more.     *)
Quiet(m) == m.boot <= boot /\ (m.asked /\ m.boot = boot => Down)
QuietSession(c) ==
    /\ c.boot <= boot /\ (c.request # "NONE" /\ c.boot = boot => Down)
    /\ \A i \in DOMAIN c.msgs : Quiet(c.msgs[i])

(* Sessions come into use in their order.                                   *)
OrderInv ==
    /\ epd <= sess /\ newepd <= sess
    /\ \A i \in DOMAIN backlog : backlog[i] <= sess
    /\ \A s \in Session : s > sess => conn[s].request = "NONE"
    /\ os = "up" => sess \in Session /\ conn[sess].boot = boot

EchoInv == /\ CardType /\ OrderInv /\ Quiet(msg)
           /\ \A s \in Session : QuietSession(conn[s])

(* What an update of a session keeps.                                       *)
LEMMA ConnUpdate ==
    ASSUME NEW c \in Conn, NEW d \in BOOLEAN
    PROVE  /\ [c EXCEPT !.dead = d] \in Conn
           /\ [c EXCEPT !.accepted = d] \in Conn
           /\ [c EXCEPT !.dead = d].msgs = c.msgs
           /\ [c EXCEPT !.dead = d].boot = c.boot
           /\ [c EXCEPT !.dead = d].request = c.request
           /\ [c EXCEPT !.accepted = d].msgs = c.msgs
           /\ [c EXCEPT !.accepted = d].boot = c.boot
           /\ [c EXCEPT !.accepted = d].request = c.request
BY DEF Conn

LEMMA ConnTalk ==
    ASSUME NEW c \in Conn, NEW q \in Seq(Msg)
    PROVE  /\ [c EXCEPT !.msgs = q] \in Conn
           /\ [c EXCEPT !.msgs = q].msgs = q
           /\ [c EXCEPT !.msgs = q].boot = c.boot
           /\ [c EXCEPT !.msgs = q].request = c.request
BY DEF Conn

SameTalk(c, d) == c.msgs = d.msgs /\ c.boot = d.boot /\ c.request = d.request

LEMMA ConnStop ==
    ASSUME CardType, cosm_stop, TypeOK
    PROVE  /\ conn' \in [Session -> Conn]
           /\ \A s \in Session : SameTalk(conn'[s], conn[s])
<1> DEFINE gone(s) == s <= sess
<1>1. ASSUME NEW s \in Session
      PROVE  /\ [conn[s] EXCEPT !.dead = gone(s)] \in Conn
             /\ SameTalk([conn[s] EXCEPT !.dead = gone(s)], conn[s])
  <2>1. conn[s] \in Conn
      BY DEF CardType
  <2>2. gone(s) \in BOOLEAN
      BY DEF TypeOK
  <2> HIDE DEF gone
  <2> QED
      BY ZenonT(60), <2>1, <2>2, ConnUpdate DEF SameTalk
<1>2. conn' = [s \in Session |-> [conn[s] EXCEPT !.dead = gone(s)]]
    BY ZenonT(60) DEF cosm_stop
<1> HIDE DEF gone
<1> QED
    BY ZenonT(60), <1>1, <1>2

LEMMA ConnEnd ==
    ASSUME CardType, NEW e \in Session,
           \/ conn' = [conn EXCEPT ![e].dead = TRUE]
           \/ conn' = [conn EXCEPT ![e].accepted = TRUE]
    PROVE  /\ conn' \in [Session -> Conn]
           /\ \A s \in Session : SameTalk(conn'[s], conn[s])
<1>1. conn \in [Session -> Conn] /\ conn[e] \in Conn
    BY DEF CardType
<1>2. PICK c \in Conn : SameTalk(c, conn[e]) /\ conn' = [conn EXCEPT ![e] = c]
  <2>1. /\ [conn[e] EXCEPT !.dead = TRUE] \in Conn
        /\ SameTalk([conn[e] EXCEPT !.dead = TRUE], conn[e])
      BY ZenonT(60), <1>1, ConnUpdate DEF SameTalk
  <2>2. /\ [conn[e] EXCEPT !.accepted = TRUE] \in Conn
        /\ SameTalk([conn[e] EXCEPT !.accepted = TRUE], conn[e])
      BY ZenonT(60), <1>1, ConnUpdate DEF SameTalk
  <2> QED
      BY ZenonT(60), <2>1, <2>2
<1> QED
    BY <1>1, <1>2 DEF SameTalk

(* A session of this boot that was asked to go down cannot become online    *)
(* again in this boot.                                                      *)
LEMMA DownKept ==
    ASSUME IInv, Next, boot' = boot, boot \in Nat, Down
    PROVE  Down'
<1>1. ASSUME UNCHANGED <<state, flow_cmd, flow_state>>,
             flow' = flow \/ flow' \in {"queued", "idle"}
      PROVE  Down'
    BY <1>1 DEF Down
<1>2. ASSUME NEW t \in Thread,
             Calling(t) \/ command_interrupted(t)
             \/ \E c \in UserCommands : state_store(t, c)
      PROVE  Down'
    BY <1>1, <1>2 DEF Calling, admit, exec_command, command_started,
       command_interrupted, state_store, set_command, state_vars, flow_vars
<1>3. CASE Work \/ work_hang \/ Server \/ Card
  <2>1. UNCHANGED <<state_vars, flow_vars>>
    <3>1. CASE Work \/ work_hang
        BY <3>1 DEF Work, work_start, work_recv, work_call, work_hup, work_exit,
           work_hang, set_command, work_unchanged
    <3>2. CASE Server
        BY <3>2 DEF Server, server_accept, server_flush, server_assign,
           server_unchanged
    <3>3. CASE Card
        BY ZenonT(60), <3>3
           DEF Card, cosm_scif_connect, cosm_client_send_online,
           cosm_reboot_event, card_panic_event, card_crash, card_down,
           card_firmware, card_unchanged
    <3> QED
        BY <1>3, <3>1, <3>2, <3>3
  <2> QED
      BY <1>1, <2>1 DEF state_vars, flow_vars
<1>4. CASE Flow
  <2>1. TypeOK /\ FlowInv /\ StateInv
      BY DEF IInv
  <2>2. CASE flow_start
    <3>1. /\ flow = "queued" /\ flow_cmd' = id /\ UNCHANGED flow_state
          /\ \/ state' = state
             \/ state' = temporal_state(id)
          /\ flow' = "invoke" \/ (flow' = "poll" /\ ~HasInvoke(id))
        BY <2>2 DEF flow_start, cosm_switch_to_state, state_vars
    <3>2. id \in Command
        BY <2>1, <3>1 DEF TypeOK, FlowInv
    <3>3. temporal_state(id) # "ONLINE"
        BY <3>2, Tables DEF Temporal
    <3>4. ~HasInvoke(id) => id # "BOOT"
        BY DEF HasInvoke, FromCard, Events
    <3> QED
        BY <3>1, <3>3, <3>4 DEF Down
  <2>3. CASE cosm_boot
    <3>1. /\ UNCHANGED <<state, flow_cmd>>
          /\ \/ flow' = "poll" /\ flow_cmd # "BOOT"
             \/ flow' = "switch" /\ flow_state' = "ERROR"
        BY <2>3 DEF cosm_boot, Invoked, InvokeFailed, invoke_unchanged,
           state_vars, invoke
    <3> QED
        BY <3>1 DEF Down
  <2>4. CASE cosm_reset \/ cosm_shutdown \/ cosm_force
    <3>1. /\ UNCHANGED <<state, flow_cmd>> /\ flow_cmd # "BOOT"
          /\ \/ flow' = "poll"
             \/ flow' = "switch" /\ flow_state' = "ERROR"
        BY <2>4 DEF cosm_reset, cosm_shutdown, cosm_force, Invoked, InvokeFailed,
           invoke_unchanged, state_vars, invoke, Forced
    <3> QED
        BY <3>1 DEF Down
  <2>5. CASE flow_complete \/ flow_timeout
    <3>1. /\ UNCHANGED <<state, flow_cmd>> /\ flow = "poll" /\ flow' = "switch"
          /\ flow_state' = target_state(flow_cmd) \/ flow_state' = "ERROR"
        BY <2>5 DEF flow_complete, flow_timeout, poll_unchanged
    <3>2. flow_cmd \in Command /\ flow_cmd # "BOOT"
        BY <2>1, <3>1 DEF TypeOK, Down
    <3>3. target_state(flow_cmd) # "ONLINE"
        BY <3>2 DEF target_state
    <3> QED
        BY <3>1, <3>3 DEF Down
  <2>6. CASE flow_abort \/ flow_clear
      BY <1>1, <2>6 DEF flow_abort, flow_clear, poll_unchanged, state_vars
  <2>7. CASE flow_switch
    <3>1. flow = "switch" /\ state' = flow_state /\ flow' = "clear"
        BY <2>7 DEF flow_switch, cosm_switch_to_state
    <3> QED
        BY <3>1 DEF Down
  <2> QED
      BY <1>4, <2>2, <2>3, <2>4, <2>5, <2>6, <2>7 DEF Flow
<1> QED
    BY <1>2, <1>3, <1>4 DEF Next

(* The number of the boot never falls, and only cosm_boot() raises it.      *)
LEMMA BootKept ==
    ASSUME Next, boot \in Nat
    PROVE  \/ boot' = boot
           \/ boot' = boot + 1 /\ cosm_boot /\ os' = "booting"
<1>1. ASSUME NEW t \in Thread,
             Calling(t) \/ command_interrupted(t)
             \/ \E c \in UserCommands : state_store(t, c)
      PROVE  boot' = boot
    BY <1>1 DEF Calling, admit, exec_command, command_started,
       command_interrupted, state_store, set_command, card_vars
<1>2. CASE Work \/ work_hang
    BY <1>2 DEF Work, work_start, work_recv, work_call, work_hup, work_exit,
       work_hang, set_command, work_unchanged, card_vars
<1>3. CASE Server
    BY <1>3 DEF Server, server_accept, server_flush, server_assign,
       server_unchanged
<1>4. CASE Card
    BY ZenonT(60), <1>4 DEF Card, cosm_scif_connect, cosm_client_send_online,
       cosm_reboot_event, card_panic_event, card_crash, card_down,
       card_firmware, card_unchanged
<1>5. CASE Flow
  <2>1. CASE cosm_boot
      BY <2>1 DEF cosm_boot
  <2>2. CASE ~cosm_boot
      BY ZenonT(60), <1>5, <2>2
         DEF Flow, flow_start, cosm_reset, cosm_shutdown, cosm_force,
         flow_complete, flow_timeout, flow_abort, flow_switch, flow_clear,
         poll_unchanged, card_vars
  <2> QED
      BY <2>1, <2>2
<1> QED
    BY <1>1, <1>2, <1>3, <1>4, <1>5 DEF Next

(* What was quiet stays so.                                                 *)
LEMMA QuietKept ==
    ASSUME IInv, CardType, Next
    PROVE  /\ boot' \in Nat /\ boot <= boot'
           /\ \A m \in Msg : Quiet(m) => Quiet(m)'
           /\ \A c \in Conn : QuietSession(c) => QuietSession(c)'
<1>1. boot \in Nat /\ boot' \in {boot, boot + 1}
    BY BootKept DEF CardType
<1>2. boot' = boot /\ Down => Down'
    BY <1>1, DownKept
<1>3. ASSUME NEW m \in Msg, Quiet(m)
      PROVE  Quiet(m)'
  <2>1. m.boot \in Nat
      BY DEF Msg
  <2> QED
      BY <1>1, <1>2, <1>3, <2>1 DEF Quiet
<1>4. ASSUME NEW c \in Conn, QuietSession(c)
      PROVE  QuietSession(c)'
  <2>1. /\ c.boot \in Nat
        /\ \A i \in DOMAIN c.msgs : c.msgs[i] \in Msg
      BY DEF Conn
  <2>2. c.boot <= boot' /\ (c.request # "NONE" /\ c.boot = boot' => Down')
      BY <1>1, <1>2, <1>4, <2>1 DEF QuietSession
  <2> QED
      BY <1>3, <1>4, <2>1, <2>2 DEF QuietSession
<1> QED
    BY <1>1, <1>3, <1>4

(* The order of the sessions, in a step that begins none.                   *)
LEMMA OrderKept ==
    ASSUME IInv, EchoInv, sess' = sess,
           epd' \in {0, epd, newepd},
           \/ newepd' \in {0, newepd}
           \/ backlog # <<>> /\ newepd' = Head(backlog),
           \/ backlog' \in {backlog, <<>>}
           \/ backlog # <<>> /\ backlog' = Tail(backlog),
           os' = "up" => os = "up" /\ boot' = boot,
           \A s \in Session : /\ conn'[s].boot = conn[s].boot
                              /\ \/ conn'[s].request = conn[s].request
                                 \/ s <= sess
    PROVE  OrderInv'
<1>1. OrderInv /\ sess \in Nat /\ backlog \in Seq(Session)
    BY BoundAssumption DEF EchoInv, IInv, TypeOK, SessionInv
<1>2. epd' <= sess'
    BY <1>1 DEF OrderInv
<1>3. newepd' <= sess'
    BY <1>1 DEF OrderInv
<1>4. \A i \in DOMAIN backlog' : backlog'[i] <= sess'
    BY <1>1 DEF OrderInv
<1>5. \A s \in Session : s > sess' => conn'[s].request = "NONE"
    BY <1>1 DEF OrderInv
<1>6. os' = "up" => sess' \in Session /\ conn'[sess'].boot = boot'
    BY <1>1 DEF OrderInv
<1> QED
    BY ZenonT(60), <1>2, <1>3, <1>4, <1>5, <1>6 DEF OrderInv

(* To keep the invariant it is enough that what there is after the step     *)
(* would have been quiet before it.                                         *)
LEMMA EchoStep ==
    ASSUME IInv, EchoInv, Next, OrderInv', msg' \in Msg, Quiet(msg'),
           conn' \in [Session -> Conn],
           \A s \in Session : QuietSession(conn'[s])
    PROVE  EchoInv'
<1>1. CardType'
    BY QuietKept DEF CardType, EchoInv
<1>2. Quiet(msg)'
  <2>1. PICK m \in Msg : m = msg' /\ Quiet(m)
      OBVIOUS
  <2>2. Quiet(m)'
      BY <2>1, QuietKept DEF EchoInv
  <2> QED
      BY <2>1, <2>2 DEF Quiet
<1>3. ASSUME NEW s \in Session
      PROVE  QuietSession(conn[s])'
  <2>1. PICK c \in Conn : c = conn'[s] /\ QuietSession(c)
      OBVIOUS
  <2>2. QuietSession(c)'
      BY ZenonT(60), <2>1, QuietKept DEF EchoInv
  <2> QED
      BY ZenonT(60), <2>1, <2>2 DEF QuietSession, Quiet
<1> QED
    BY <1>1, <1>2, <1>3 DEF EchoInv

(* A step in which nothing is said on any session.                          *)
LEMMA EchoFrame ==
    ASSUME IInv, EchoInv, Next, msg' = msg, OrderInv',
           conn' \in [Session -> Conn],
           \A s \in Session : SameTalk(conn'[s], conn[s])
    PROVE  EchoInv'
<1>1. msg' \in Msg /\ Quiet(msg')
    BY DEF EchoInv, CardType, Quiet
<1>2. ASSUME NEW s \in Session
      PROVE  QuietSession(conn'[s])
    BY ZenonT(60) DEF EchoInv, QuietSession, SameTalk
<1> QED
    BY <1>1, <1>2, EchoStep

(* cosm_set_command() and the poll for a hang.                              *)
LEMMA CommandEcho ==
    ASSUME IInv, EchoInv, Next,
           UNCHANGED <<msg, conn, backlog, sess, boot, epd, newepd>>,
           os' = "up" => os = "up"
    PROVE  EchoInv'
<1>1. OrderInv'
    BY OrderKept
<1> QED
    BY <1>1, EchoFrame DEF EchoInv, CardType, SameTalk

(* An operation of the card driver or the poll: a card that is asked to go  *)
(* down has left ONLINE in flow_start.                                      *)
LEMMA FlowEcho ==
    ASSUME IInv, EchoInv, Next, Flow
    PROVE  EchoInv'
<1>1. /\ TypeOK /\ FlowInv /\ StateInv /\ CardType /\ OrderInv
    BY DEF IInv, EchoInv
<1>2. CASE flow_start \/ flow_timeout \/ flow_abort \/ flow_switch \/ flow_clear
  <2>1. UNCHANGED <<msg, conn, backlog, sess, boot, epd, newepd, os>>
      BY ZenonT(60), <1>2
         DEF flow_start, flow_timeout, flow_abort, flow_switch, flow_clear,
         poll_unchanged, work_vars, server_vars, card_vars
  <2> QED
      BY <2>1, CommandEcho
<1>3. CASE cosm_boot
  <2>1. /\ UNCHANGED <<msg, conn, backlog, sess, epd, newepd>>
        /\ os' = "up" => os = "up" /\ boot' = boot
      BY <1>3 DEF cosm_boot, invoke_unchanged, work_vars, server_vars
  <2>2. OrderInv'
      BY <2>1, OrderKept
  <2> QED
      BY <1>1, <2>1, <2>2, EchoFrame DEF CardType, SameTalk
<1>4. ASSUME cosm_reset \/ cosm_shutdown \/ cosm_force \/ flow_complete,
             cosm_stop \/ UNCHANGED <<conn, backlog>>
      PROVE  EchoInv'
  <2>1. /\ UNCHANGED <<msg, sess, epd, newepd, boot>>
        /\ os' = "up" => os = "up"
      BY <1>4 DEF cosm_reset, cosm_shutdown, cosm_force, flow_complete,
         invoke_unchanged, poll_unchanged, work_vars, server_vars
  <2>2. backlog' \in {backlog, <<>>}
      BY <1>4 DEF cosm_stop
  <2>3. /\ conn' \in [Session -> Conn]
        /\ \A s \in Session : SameTalk(conn'[s], conn[s])
      BY ZenonT(60), <1>1, <1>4, ConnStop DEF CardType, SameTalk
  <2>4. OrderInv'
      BY <2>1, <2>2, <2>3, OrderKept DEF SameTalk
  <2> QED
      BY <2>1, <2>3, <2>4, EchoFrame
<1>5. ASSUME cosm_reset \/ cosm_shutdown, Reachable,
             NEW r \in {"REBOOT", "SHUTDOWN"}, Ask(r)
      PROVE  EchoInv'
  <2>1. /\ UNCHANGED <<msg, sess, epd, newepd, boot, backlog>>
        /\ flow = "invoke" /\ flow_cmd \in {"RESET", "SHUTDOWN"}
        /\ os' = "up" => os = "up"
      BY <1>5 DEF cosm_reset, cosm_shutdown, invoke_unchanged, work_vars,
         server_vars, Ask, invoke
  <2>2. Down
    <3>1. id \in {"RESET", "SHUTDOWN"} /\ Started
        BY <1>1, <2>1 DEF FlowInv, Started
    <3>2. id \in Command /\ id \notin Aborting
        BY <3>1 DEF Command, Visible, Forced, Events, FromCard, Aborting
    <3>3. state \in Temporal
        BY <1>1, <3>1, <3>2, Tables DEF StateInv
    <3> QED
        BY <2>1, <3>3 DEF Down, Temporal
  <2>3. epd \in Session /\ epd <= sess
      BY <1>1, <1>5, BoundAssumption DEF Reachable, TypeOK, OrderInv
  <2>4. conn' = [conn EXCEPT ![epd] = [conn[epd] EXCEPT !.request = r]]
      BY <1>5 DEF Ask
  <2>5. /\ [conn[epd] EXCEPT !.request = r] \in Conn
        /\ [conn[epd] EXCEPT !.request = r].msgs = conn[epd].msgs
        /\ [conn[epd] EXCEPT !.request = r].boot = conn[epd].boot
      BY <1>1, <2>3 DEF CardType, Conn
  <2>6. conn' \in [Session -> Conn]
      BY <1>1, <2>3, <2>4, <2>5 DEF CardType
  <2>7. ASSUME NEW s \in Session
        PROVE  /\ conn'[s].msgs = conn[s].msgs /\ conn'[s].boot = conn[s].boot
               /\ s # epd => conn'[s].request = conn[s].request
      BY <1>1, <2>3, <2>4, <2>5 DEF CardType
  <2>8. OrderInv'
      BY <2>1, <2>3, <2>7, OrderKept
  <2>9. ASSUME NEW s \in Session
        PROVE  QuietSession(conn'[s])
      BY ZenonT(60), <2>2, <2>7 DEF QuietSession, EchoInv
  <2> QED
      BY <2>1, <2>6, <2>8, <2>9, EchoStep DEF EchoInv, CardType, Quiet
<1>6. CASE cosm_reset \/ cosm_shutdown
    BY <1>4, <1>5, <1>6 DEF cosm_reset, cosm_shutdown
<1>7. CASE cosm_force \/ flow_complete
    BY <1>4, <1>7 DEF cosm_force, flow_complete
<1> QED
    BY <1>2, <1>3, <1>6, <1>7 DEF Flow

(* The work item takes messages off its session, in their order.            *)
LEMMA WorkEcho ==
    ASSUME IInv, EchoInv, Next, Work \/ work_hang
    PROVE  EchoInv'
<1>1. TypeOK /\ OneSession /\ CardType /\ OrderInv
    BY DEF IInv, EchoInv
<1>2. CASE work_start \/ work_call \/ work_hup \/ work_hang
  <2>1. UNCHANGED <<msg, conn, backlog, sess, boot, epd, newepd, os>>
      BY <1>2 DEF work_start, work_call, work_hup, work_hang, set_command,
         work_unchanged, server_vars, card_vars
  <2> QED
      BY <2>1, CommandEcho
<1>3. CASE work_recv \/ work_exit
  <2>1. /\ UNCHANGED <<backlog, sess, boot, newepd, os>>
        /\ epd \in Session /\ epd' \in {0, epd}
      BY <1>1, <1>3, BoundAssumption
         DEF work_recv, work_exit, work_unchanged, OneSession, TypeOK
  <2>2. CASE work_exit
    <3>1. conn' = [conn EXCEPT ![epd].dead = TRUE] /\ msg' = msg
        BY <2>2 DEF work_exit
    <3>2. /\ conn' \in [Session -> Conn]
          /\ \A s \in Session : SameTalk(conn'[s], conn[s])
        BY ZenonT(60), <1>1, <2>1, <3>1, ConnEnd
    <3>3. OrderInv'
        BY ZenonT(60), <2>1, <3>2, OrderKept DEF SameTalk
    <3> QED
        BY ZenonT(60), <3>1, <3>2, <3>3, EchoFrame
  <2>3. CASE work_recv
    <3> DEFINE ms == conn[epd].msgs
               c == [conn[epd] EXCEPT !.msgs = Tail(ms)]
    <3>1. /\ ms # <<>> /\ msg' = Head(ms)
          /\ conn' = [conn EXCEPT ![epd] = c]
        BY <2>3 DEF work_recv
    <3>2. conn[epd] \in Conn /\ ms \in Seq(Msg)
        BY <1>1, <2>1 DEF CardType, Conn
    <3>3. /\ Tail(ms) \in Seq(Msg) /\ Head(ms) \in Msg /\ Head(ms) = ms[1]
          /\ 1 \in DOMAIN ms
          /\ \A i \in DOMAIN Tail(ms) : i + 1 \in DOMAIN ms /\ Tail(ms)[i] = ms[i + 1]
        BY <3>1, <3>2
    <3>4. /\ c \in Conn /\ c.msgs = Tail(ms) /\ c.boot = conn[epd].boot
          /\ c.request = conn[epd].request
        BY <3>2, <3>3 DEF Conn
    <3>5. QuietSession(conn[epd])
        BY <2>1 DEF EchoInv
    <3>6. QuietSession(c) /\ Quiet(msg')
        BY <3>1, <3>3, <3>4, <3>5 DEF QuietSession
    <3> HIDE DEF c
    <3>7. /\ conn' \in [Session -> Conn]
          /\ conn'[epd] = c /\ \A s \in Session : s # epd => conn'[s] = conn[s]
        BY <1>1, <2>1, <3>1, <3>4 DEF CardType
    <3>8. OrderInv'
        BY <2>1, <3>4, <3>7, OrderKept
    <3>9. \A s \in Session : QuietSession(conn'[s])
        BY <3>6, <3>7 DEF EchoInv
    <3> QED
        BY ZenonT(60), <3>1, <3>3, <3>6, <3>7, <3>8, <3>9, EchoStep
  <2> QED
      BY <1>3, <2>2, <2>3
<1> QED
    BY <1>2, <1>3 DEF Work

LEMMA ServerEcho ==
    ASSUME IInv, EchoInv, Next, Server
    PROVE  EchoInv'
<1>1. TypeOK /\ SessionInv /\ OneSession /\ CardType
    BY DEF IInv, EchoInv
<1>2. UNCHANGED <<msg, sess, boot, os>>
    BY DEF Server, server_accept, server_flush, server_assign, server_unchanged
<1>3. CASE server_flush
    BY <1>2, <1>3, CommandEcho DEF server_flush
<1>4. CASE server_accept
  <2>1. /\ backlog # <<>> /\ newepd' = Head(backlog) /\ backlog' = Tail(backlog)
        /\ epd' = epd
        /\ conn' = [conn EXCEPT ![Head(backlog)].accepted = TRUE]
      BY ZenonT(60), <1>4 DEF server_accept
  <2>2. Head(backlog) \in Session
    <3>1. backlog \in Seq(Session) /\ backlog # <<>>
        BY ZenonT(60), <1>1, <2>1 DEF SessionInv
    <3> QED
        BY <3>1, BoundAssumption
  <2>3. /\ conn' \in [Session -> Conn]
        /\ \A s \in Session : SameTalk(conn'[s], conn[s])
      BY ZenonT(60), <1>1, <2>1, <2>2, ConnEnd
  <2>4. OrderInv'
      BY <1>2, <2>1, <2>3, OrderKept DEF SameTalk
  <2> QED
      BY <1>2, <2>3, <2>4, EchoFrame
<1>5. CASE server_assign
  <2>1. /\ backlog' = backlog /\ newepd' = 0 /\ epd' = newepd /\ conn' = conn
      BY <1>1, <1>5 DEF server_assign, OneSession
  <2>2. OrderInv'
      BY <1>2, <2>1, OrderKept
  <2> QED
      BY <1>1, <1>2, <2>1, <2>2, EchoFrame DEF CardType, SameTalk
<1> QED
    BY <1>3, <1>4, <1>5 DEF Server

(* What the card says in this boot is an answer only if it has been asked   *)
(* on the session it uses.                                                  *)
LEMMA ReportEcho ==
    ASSUME IInv, EchoInv, Next, os = "up", NEW m \in Msg, m.boot = boot,
           m.asked => conn[sess].request # "NONE",
           conn' = [conn EXCEPT ![sess].msgs = Append(@, m)],
           UNCHANGED <<msg, backlog, sess, boot, epd, newepd>>
    PROVE  EchoInv'
<1>1. CardType /\ OrderInv /\ boot \in Nat
    BY DEF EchoInv, CardType
<1>2. sess \in Session /\ conn[sess].boot = boot /\ conn[sess] \in Conn
    BY <1>1 DEF OrderInv, CardType
<1> DEFINE ms == conn[sess].msgs
           c == [conn[sess] EXCEPT !.msgs = Append(ms, m)]
<1>3. conn' = [conn EXCEPT ![sess] = c]
    OBVIOUS
<1>4. QuietSession(conn[sess]) /\ ms \in Seq(Msg)
    BY <1>2 DEF EchoInv, Conn
<1>5. Quiet(m)
    BY <1>1, <1>2, <1>4 DEF QuietSession, Quiet
<1>6. /\ c \in Conn /\ c.msgs = Append(ms, m) /\ c.boot = conn[sess].boot
      /\ c.request = conn[sess].request
  <2>1. Append(ms, m) \in Seq(Msg)
      BY <1>4
  <2> QED
      BY ZenonT(60), <1>2, <2>1, ConnTalk
<1>7. \A i \in DOMAIN c.msgs : Quiet(c.msgs[i])
    BY <1>4, <1>5, <1>6 DEF QuietSession
<1>8. QuietSession(c)
    BY ZenonT(60), <1>4, <1>6, <1>7 DEF QuietSession
<1> HIDE DEF c
<1>9. /\ conn' \in [Session -> Conn]
      /\ conn'[sess] = c /\ \A s \in Session : s # sess => conn'[s] = conn[s]
    BY ZenonT(60), <1>1, <1>2, <1>3, <1>6 DEF CardType
<1>10. OrderInv'
    BY <1>2, <1>6, <1>9, OrderKept
<1>11. \A s \in Session : QuietSession(conn'[s])
    BY ZenonT(60), <1>8, <1>9 DEF EchoInv
<1> QED
    BY ZenonT(60), <1>9, <1>10, <1>11, EchoStep DEF EchoInv, CardType, Quiet

(* A new session begins with nothing said and nothing asked.                *)
LEMMA ConnectEcho ==
    ASSUME IInv, EchoInv, Next, cosm_scif_connect
    PROVE  EchoInv'
<1>1. /\ CardType /\ OrderInv /\ boot \in Nat /\ TypeOK /\ SessionInv
      /\ \A s \in Session : conn[s] \in Conn /\ QuietSession(conn[s])
    BY DEF EchoInv, CardType, IInv
<1> DEFINE fresh(s) == [conn[s] EXCEPT !.boot = boot]
           ended(s) == [conn[s] EXCEPT !.dead = TRUE]
<1>2. /\ sess < MaxSession /\ sess' = sess + 1 /\ os' = "up"
      /\ backlog' = Append(backlog, sess + 1)
      /\ UNCHANGED <<boot, msg, epd, newepd>>
    BY DEF cosm_scif_connect, card_unchanged, work_vars, server_vars
<1>3. conn' = [s \in Session |-> IF s = sess + 1 THEN fresh(s)
                                 ELSE IF s = sess THEN ended(s) ELSE conn[s]]
    BY ZenonT(60) DEF cosm_scif_connect
<1>4. sess \in Nat /\ sess + 1 \in Session /\ sess + 1 > sess
    BY <1>1, <1>2, BoundAssumption DEF TypeOK
<1>5. ASSUME NEW s \in Session
      PROVE  /\ ended(s) \in Conn /\ SameTalk(ended(s), conn[s])
             /\ fresh(s) \in Conn /\ fresh(s).msgs = conn[s].msgs
             /\ fresh(s).boot = boot /\ fresh(s).request = conn[s].request
  <2>1. conn[s] \in Conn
      BY <1>1
  <2>2. ended(s) \in Conn /\ SameTalk(ended(s), conn[s])
      BY ZenonT(60), <2>1, ConnUpdate DEF SameTalk
  <2>3. /\ fresh(s) \in Conn /\ fresh(s).msgs = conn[s].msgs
        /\ fresh(s).boot = boot /\ fresh(s).request = conn[s].request
      BY <1>1, <2>1 DEF Conn
  <2> QED
      BY <2>2, <2>3
<1> HIDE DEF fresh, ended
<1>6. conn' \in [Session -> Conn]
    BY ZenonT(60), <1>1, <1>3, <1>5
<1>7. ASSUME NEW s \in Session
      PROVE  /\ conn'[s].msgs = conn[s].msgs
             /\ conn'[s].request = conn[s].request
             /\ conn'[s].boot = IF s = sess + 1 THEN boot ELSE conn[s].boot
  <2>1. conn'[s] \in {fresh(s), ended(s), conn[s]}
        /\ (conn'[s] = fresh(s) \/ s # sess + 1)
        /\ (s = sess + 1 => conn'[s] = fresh(s))
        /\ (s # sess + 1 => conn'[s] \in {ended(s), conn[s]})
      BY <1>3
  <2> QED
      BY ZenonT(60), <1>5, <2>1 DEF SameTalk
<1>8. OrderInv'
  <2>1. epd' <= sess' /\ newepd' <= sess'
    <3>1. epd \in 0 .. MaxSession /\ newepd \in 0 .. MaxSession
        BY ZenonT(60), <1>1 DEF TypeOK
    <3>2. epd <= sess /\ newepd <= sess
        BY ZenonT(60), <1>1 DEF OrderInv
    <3> QED
        BY <1>2, <1>4, <3>1, <3>2
  <2>2. \A i \in DOMAIN backlog' : backlog'[i] <= sess'
    <3>1. /\ backlog \in Seq(Session) /\ backlog' = Append(backlog, sess + 1)
          /\ \A i \in DOMAIN backlog : backlog[i] \in Session /\ backlog[i] <= sess
        BY <1>1, <1>2, BoundAssumption DEF OrderInv, SessionInv
    <3>2. \A i \in DOMAIN backlog' : \/ backlog'[i] = sess + 1
                                     \/ /\ i \in DOMAIN backlog
                                        /\ backlog'[i] = backlog[i]
        BY <3>1
    <3> QED
        BY <1>2, <1>4, <3>1, <3>2
  <2>3. \A s \in Session : s > sess' => conn'[s].request = "NONE"
      BY <1>1, <1>2, <1>4, <1>7 DEF OrderInv
  <2> QED
      BY <1>2, <1>4, <1>7, <2>1, <2>2, <2>3 DEF OrderInv
<1>9. ASSUME NEW s \in Session
      PROVE  QuietSession(conn'[s])
  <2>1. s = sess + 1 => conn'[s].request = "NONE"
      BY ZenonT(60), <1>1, <1>4, <1>7 DEF OrderInv
  <2>2. /\ conn[s].boot <= boot /\ (conn[s].request # "NONE" /\ conn[s].boot = boot => Down)
        /\ \A i \in DOMAIN conn[s].msgs : Quiet(conn[s].msgs[i])
      BY ZenonT(60), <1>1 DEF QuietSession
  <2>3. \A i \in DOMAIN conn'[s].msgs : Quiet(conn'[s].msgs[i])
      BY ZenonT(60), <1>7, <2>2
  <2>4. CASE s = sess + 1
    <3>1. conn'[s].boot = boot /\ boot <= boot
        BY <1>1, <1>7, <2>4 DEF TypeOK
    <3> QED
        BY ZenonT(60), <2>1, <2>3, <2>4, <3>1 DEF QuietSession
  <2>5. CASE s # sess + 1
      BY ZenonT(60), <1>7, <2>2, <2>3, <2>5 DEF QuietSession
  <2> QED
      BY <2>4, <2>5
<1> QED
    BY <1>2, <1>6, <1>8, <1>9, EchoStep DEF EchoInv, CardType, Quiet

LEMMA CardEcho ==
    ASSUME IInv, EchoInv, Next, Card
    PROVE  EchoInv'
<1>1. CardType /\ OrderInv /\ TypeOK /\ boot \in Nat
    BY DEF EchoInv, IInv, CardType
<1>2. CASE card_crash \/ card_firmware
  <2>1. UNCHANGED <<msg, conn, backlog, sess, boot, epd, newepd>> /\ os' # "up"
      BY <1>2 DEF card_crash, card_firmware, card_unchanged, work_vars,
         server_vars
  <2> QED
      BY <2>1, CommandEcho
<1>3. CASE card_down
  <2>1. /\ UNCHANGED <<msg, backlog, sess, boot, epd, newepd>> /\ os' # "up"
        /\ conn' = [conn EXCEPT ![sess].dead = TRUE]
      BY <1>3 DEF card_down, card_unchanged, work_vars, server_vars
  <2>2. /\ conn' \in [Session -> Conn]
        /\ \A s \in Session : SameTalk(conn'[s], conn[s])
    <3>1. CASE sess \in Session
        BY ZenonT(60), <1>1, <2>1, <3>1, ConnEnd
    <3>2. CASE sess \notin Session
        BY ZenonT(60), <1>1, <2>1, <3>2 DEF CardType, SameTalk
    <3> QED
        BY <3>1, <3>2
  <2>3. OrderInv'
      BY <2>1, <2>2, OrderKept DEF SameTalk
  <2> QED
      BY ZenonT(60), <2>1, <2>2, <2>3, EchoFrame
<1>4. ASSUME Connected, NEW s \in {"ONLINE", "RESETTING", "SHUTTING_DOWN", "ERROR"},
             NEW a \in BOOLEAN, a => conn[sess].request # "NONE",
             Report(s, a), UNCHANGED <<card_unchanged, backlog, sess>>
      PROVE  EchoInv'
  <2> DEFINE m == [state |-> s, asked |-> a, boot |-> boot]
  <2>1. m \in Msg /\ m.boot = boot /\ m.asked = a
      BY ZenonT(60), <1>1 DEF Msg
  <2>2. conn' = [conn EXCEPT ![sess].msgs = Append(@, m)]
      BY ZenonT(60), <1>4 DEF Report
  <2>3. os = "up" /\ UNCHANGED <<msg, backlog, sess, boot, epd, newepd>>
      BY ZenonT(60), <1>4 DEF Connected, card_unchanged, work_vars, server_vars
  <2>4. m.asked => conn[sess].request # "NONE"
      BY ZenonT(60), <1>4, <2>1
  <2> HIDE DEF m
  <2> QED
      BY ZenonT(60), <2>1, <2>2, <2>3, <2>4, ReportEcho
<1>5. CASE cosm_client_send_online \/ card_panic_event
    BY ZenonT(60), <1>4, <1>5 DEF cosm_client_send_online, card_panic_event
<1>6. CASE cosm_reboot_event
  <2> DEFINE a == conn[sess].request # "NONE"
  <2>1. /\ Connected /\ UNCHANGED <<card_unchanged, backlog, sess>>
        /\ Report("RESETTING", a) \/ Report("SHUTTING_DOWN", a)
      BY ZenonT(60), <1>6 DEF cosm_reboot_event
  <2>2. a \in BOOLEAN /\ (a => conn[sess].request # "NONE")
      BY ZenonT(60)
  <2> HIDE DEF a
  <2> QED
      BY ZenonT(60), <1>4, <2>1, <2>2
<1> QED
    BY <1>2, <1>3, <1>5, <1>6, ConnectEcho DEF Card

LEMMA NextEcho == IInv /\ EchoInv /\ [Next]_vars => EchoInv'
<1> SUFFICES ASSUME IInv, EchoInv, [Next]_vars PROVE EchoInv'
    OBVIOUS
<1>1. CASE UNCHANGED vars
  <2>1. /\ UNCHANGED <<msg, conn, backlog, sess, boot, epd, newepd, os>>
        /\ UNCHANGED <<state, flow, flow_cmd, flow_state>>
      BY <1>1 DEF vars, state_vars, flow_vars, work_vars, server_vars, card_vars
  <2> QED
      BY ZenonT(60), <2>1
         DEF EchoInv, CardType, OrderInv, Quiet, QuietSession, Down
<1>2. ASSUME Next, NEW t \in Thread,
             Calling(t) \/ command_interrupted(t)
             \/ \E c \in UserCommands : state_store(t, c)
      PROVE  EchoInv'
  <2>1. UNCHANGED <<msg, conn, backlog, sess, boot, epd, newepd, os>>
      BY <1>2 DEF Calling, admit, exec_command, command_started,
         command_interrupted, state_store, set_command, work_vars, server_vars,
         card_vars
  <2> QED
      BY <1>2, <2>1, CommandEcho
<1> QED
    BY <1>1, <1>2, FlowEcho, WorkEcho, ServerEcho, CardEcho DEF Next

(* A notice of what the host itself has asked for in this boot is refused   *)
(* by cosm_set_command(): the card is not ONLINE any more, and cannot be    *)
(* before it is booted again (cosm_status_handler()).                       *)
THEOREM Echo == Spec => []EchoIgnored
<1>1. Init => EchoInv
  <2> SUFFICES ASSUME Init PROVE EchoInv
      OBVIOUS
  <2> DEFINE none == [msgs |-> <<>>, dead |-> FALSE, accepted |-> FALSE, boot |-> 0,
                      request |-> "NONE"]
  <2>1. /\ msg = Idle /\ boot = 0 /\ sess = 0 /\ epd = 0 /\ newepd = 0 /\ backlog = <<>>
        /\ os # "up" /\ conn = [s \in Session |-> none]
      BY ZenonT(60) DEF Init
  <2>2. Idle \in Msg /\ Idle.boot = 0 /\ ~Idle.asked
      BY DEF Idle, Msg
  <2>3. none \in Conn /\ none.boot = 0 /\ none.request = "NONE" /\ none.msgs = <<>>
      BY DEF Conn
  <2> HIDE DEF none
  <2>4. CardType
      BY <2>1, <2>2, <2>3 DEF CardType
  <2>5. OrderInv
      BY <2>1, <2>3 DEF OrderInv
  <2>6. Quiet(msg)
      BY <2>1, <2>2 DEF Quiet
  <2>7. \A s \in Session : QuietSession(conn[s])
      BY <2>1, <2>3 DEF QuietSession
  <2> QED
      BY <2>4, <2>5, <2>6, <2>7 DEF EchoInv
<1>2. IInv /\ EchoInv => EchoIgnored
  <2> SUFFICES ASSUME IInv, EchoInv, tpc[Scif] = "cancel",
                      tcmd[Scif] \in FromCard, msg.boot = boot, msg.asked
               PROVE  FALSE
      BY ZenonT(60) DEF EchoIgnored
  <2>1. state # "ONLINE"
      BY ZenonT(60) DEF EchoInv, Quiet, Down
  <2>2. tcmd[Scif] \notin Aborting
      BY ZenonT(60) DEF Aborting, Forced, Events, FromCard
  <2>3. is_command_allowed(state, tcmd[Scif])
      BY ZenonT(60), <2>2 DEF IInv, AllowInv
  <2> QED
      BY <2>1, <2>3 DEF is_command_allowed, FromCard
<1> QED
    BY <1>1, <1>2, NextEcho, Invariance, PTL DEF Spec

=============================================================================
