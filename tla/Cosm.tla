-------------------------------- MODULE Cosm --------------------------------
(***************************************************************************)
(* Coprocessor state management: the commands and the state flow of one    *)
(* card (cosm_main.c), the server that accepts the card's connections and  *)
(* the work item that serves one (cosm_scif_server.c), the COSM client on  *)
(* the card (cosm_scif_client.c) and what the hardware operations of the   *)
(* card driver do (mic_boot.c).                                            *)
(*                                                                         *)
(* A thread that runs cosm_set_command() holds command_mutex from "check"  *)
(* to its return.  The state flow and the connection's work item are       *)
(* kernel work items: queued, then running until they return.  A SESSION   *)
(* is one connection of the card; what it sent stays readable after it has *)
(* been disconnected.                                                      *)
(***************************************************************************)
EXTENDS Naturals, Sequences

CONSTANTS
    Callers,        \* threads that write commands to the sysfs state file
    Scif,           \* the thread of the connection's work item
    None,           \* no thread
    UserCommands,   \* the commands that are written
    MaxCommand,     \* bound: commands written
    MaxSession,     \* bound: connections the card makes
    MaxFault,       \* bound: boots that fail to start
    MaxIntr         \* bound: waits for a command's start that are interrupted

Thread == Callers \cup {Scif}
Session == 1..MaxSession

Forced == {"RESET_FORCE", "RESET_FORCE_WARM", "SHUTDOWN_FORCE"}
Events == {"HANDLE_PANIC", "HANDLE_HANG"}
FromCard == {"RESET_FROM_CARD", "SHUTDOWN_FROM_CARD"}
Visible == {"BOOT_FIRMWARE", "BOOT", "RESET", "SHUTDOWN"} \cup Forced
Command == Visible \cup FromCard \cup Events

ASSUME ThreadAssumption ==
    Callers # {} /\ Scif \notin Callers /\ None \notin Thread
ASSUME CommandAssumption == UserCommands \subseteq Visible
ASSUME BoundAssumption ==
    {MaxCommand, MaxSession, MaxFault, MaxIntr} \subseteq Nat

(***************************************************************************)
(* The tables cosm_states[] and cosm_commands[]                            *)
(***************************************************************************)
Stable == {"READY", "ONLINE", "ONLINE_FIRMWARE", "SHUTDOWN", "ERROR"}
Temporal == {"RESETTING", "SHUTTING_DOWN", "BOOTING", "BOOTING_FIRMWARE"}
State == Stable \cup Temporal \cup {"UNKNOWN"}

(* Mutant: a card that reboots leaves the ERROR state. *)
allowed_in_error(s, c) ==
    \/ s \in Stable \cup {"UNKNOWN"} /\ c = "RESET"
    \/ s = "READY" /\ c \in {"BOOT_FIRMWARE", "BOOT", "SHUTDOWN"}
    \/ s = "ONLINE" /\ c \in {"SHUTDOWN"} \cup FromCard
    \/ s = "ERROR" /\ c \in FromCard

is_command_allowed(s, c) ==
    \/ s \in Stable \cup {"UNKNOWN"} /\ c = "RESET"
    \/ s = "READY" /\ c \in {"BOOT_FIRMWARE", "BOOT", "SHUTDOWN"}
    \/ s = "ONLINE" /\ c \in {"SHUTDOWN"} \cup FromCard

Resets == {"RESET", "RESET_FROM_CARD", "RESET_FORCE", "RESET_FORCE_WARM"}
Shutdowns == {"SHUTDOWN", "SHUTDOWN_FROM_CARD", "SHUTDOWN_FORCE"}
Aborting == Forced \cup Events

temporal_state(c) ==
    CASE c = "BOOT" -> "BOOTING"
      [] c = "BOOT_FIRMWARE" -> "BOOTING_FIRMWARE"
      [] c \in Resets -> "RESETTING"
      [] c \in Shutdowns -> "SHUTTING_DOWN"
      [] OTHER -> "UNKNOWN"

target_state(c) ==
    CASE c = "BOOT" -> "ONLINE"
      [] c = "BOOT_FIRMWARE" -> "ONLINE_FIRMWARE"
      [] c \in Resets -> "READY"
      [] c \in Shutdowns -> "SHUTDOWN"
      [] OTHER -> "ERROR"

VARIABLES
    state, previous_state,  \* cdev->state, cdev->previous_state
    id,                     \* current_command.id, "NONE" between commands
    abort,                  \* current_command.abort
    received_online,        \* current_command.received_online
    changed,                \* the completion state_changed: its count
    locked,                 \* is_module_locked
    execute_on_ready,       \* config.execute_on_ready
    mutex,                  \* the holder of command_mutex, or None
    tpc, tcmd,              \* each thread's place in cosm_set_command()
    flow, flow_cmd, flow_state,  \* state_flow_work: place, command, result
    work, msg,              \* scif_work: place, and the message it handles
    server, newepd,         \* the server thread
    epd,                    \* cdev->epd: a session, 0 for NULL
    conn,                   \* the sessions
    backlog,                \* sessions that wait to be accepted
    sess,                   \* the last session, 0 at first
    os,                     \* what the card is doing
    scif,                   \* is the card's SCIF device registered?
    boot,                   \* ghost: boots started
    reported,               \* ghost: the last boot that reported ONLINE
    used                    \* what has been used of each bound

command_vars == <<id, abort, received_online, changed>>
state_vars == <<state, previous_state, locked, execute_on_ready>>
thread_vars == <<mutex, tpc, tcmd>>
flow_vars == <<flow, flow_cmd, flow_state>>
work_vars == <<work, msg>>
server_vars == <<server, newepd, epd>>
card_vars == <<conn, backlog, sess, os, scif, boot, reported>>
vars == <<command_vars, state_vars, thread_vars, flow_vars, work_vars,
          server_vars, card_vars, used>>

Idle == [state |-> "NONE", asked |-> FALSE, boot |-> 0]

(* cosm_driver_probe() has just issued RESET, from one of the threads.      *)
Init ==
    /\ state = "UNKNOWN" /\ previous_state = "UNKNOWN"
    /\ id = "RESET" /\ abort = FALSE /\ received_online = FALSE /\ changed = 0
    /\ locked = TRUE /\ execute_on_ready = "NONE"
    /\ \E p \in Callers :
         /\ mutex = p
         /\ tpc = [t \in Thread |-> IF t = p THEN "wait" ELSE "idle"]
         /\ tcmd = [t \in Thread |-> "RESET"]
    /\ flow = "queued" /\ flow_cmd = "RESET" /\ flow_state = "ERROR"
    /\ work = "idle" /\ msg = Idle
    /\ server = "accept" /\ newepd = 0 /\ epd = 0
    /\ conn = [s \in Session |-> [msgs |-> <<>>, dead |-> FALSE,
                                  accepted |-> FALSE, boot |-> 0,
                                  request |-> "NONE"]]
    /\ backlog = <<>> /\ sess = 0
    /\ os \in {"ready", "off", "resetting", "firmware", "hung"}
    /\ scif = FALSE /\ boot = 0 /\ reported = 0
    /\ used = [command |-> 0, fault |-> 0, intr |-> 0]

(***************************************************************************)
(* cosm_set_command()                                                      *)
(***************************************************************************)
(* The work item goes on, or closes the connection, when its command        *)
(* returns; the result is ignored.                                          *)
Return(t) ==
    /\ mutex' = None /\ tpc' = [tpc EXCEPT ![t] = "idle"]
    /\ work' = IF t # Scif THEN work
                           ELSE IF tcmd[t] \in Events THEN "exit" ELSE "poll"

(* Take the mutex.  A forced command flags the current one to abort; others *)
(* return -EALREADY when the card is in their target state.                 *)
set_command(t, c) ==
    /\ mutex = None
    /\ tcmd' = [tcmd EXCEPT ![t] = c]
    /\ IF c \notin Aborting /\ id = "NONE" /\ target_state(c) = state
         THEN UNCHANGED <<mutex, tpc, abort>>
         ELSE /\ mutex' = t
              /\ tpc' = [tpc EXCEPT ![t] = IF c \in Aborting THEN "cancel"
                                                             ELSE "check"]
              /\ abort' = (c \in Aborting \/ abort)
    /\ UNCHANGED <<id, received_online, changed, state_vars, flow_vars, msg,
                   server_vars, card_vars>>

state_store(t, c) ==
    /\ used.command < MaxCommand
    /\ set_command(t, c)
    /\ used' = [used EXCEPT !.command = @ + 1]
    /\ UNCHANGED work

(* Mutant: a command is admitted while another one runs. *)
admit_busy(t) ==
    /\ tpc[t] = "check"
    /\ IF \/ id # "NONE" /\ target_state(tcmd[t]) = target_state(id)
          \/ ~is_command_allowed(state, tcmd[t])
         THEN Return(t)
         ELSE /\ tpc' = [tpc EXCEPT ![t] = "cancel"] /\ UNCHANGED <<mutex, work>>
    /\ UNCHANGED <<command_vars, state_vars, tcmd, flow_vars, msg, server_vars,
                   card_vars, used>>

(* A command with the same target is running (-EALREADY), another command   *)
(* is running (-EBUSY), the state does not allow it (-EPERM), or it is to   *)
(* be executed.  The state flow may have finished since set_command().      *)
admit(t) ==
    /\ tpc[t] = "check"
    /\ IF id # "NONE" \/ ~is_command_allowed(state, tcmd[t])
         THEN Return(t)
         ELSE /\ tpc' = [tpc EXCEPT ![t] = "cancel"] /\ UNCHANGED <<mutex, work>>
    /\ UNCHANGED <<command_vars, state_vars, tcmd, flow_vars, msg, server_vars,
                   card_vars, used>>

(* Mutant: cancel_work() instead of cancel_work_sync(). *)
exec_command_async(t) ==
    /\ tpc[t] = "cancel"
    /\ id' = tcmd[t] /\ abort' = FALSE /\ received_online' = FALSE
    /\ changed' = 0
    /\ flow' = IF flow = "idle" THEN "queued" ELSE flow
    /\ tpc' = [tpc EXCEPT ![t] = "wait"]
    /\ UNCHANGED <<state_vars, mutex, tcmd, flow_cmd, flow_state, work_vars,
                   server_vars, card_vars, used>>

(* Mutant: the completion is not initialized again. *)
exec_command_completed(t) ==
    /\ tpc[t] = "cancel"
    /\ flow \in {"idle", "queued"}
    /\ id' = tcmd[t] /\ abort' = FALSE /\ received_online' = FALSE
    /\ flow' = "queued"
    /\ tpc' = [tpc EXCEPT ![t] = "wait"]
    /\ UNCHANGED <<changed, state_vars, mutex, tcmd, flow_cmd, flow_state,
                   work_vars, server_vars, card_vars, used>>

(* cancel_work_sync() takes a queued state flow off its queue and waits for *)
(* a running one; then the command is stored and its state flow queued.     *)
exec_command(t) ==
    /\ tpc[t] = "cancel"
    /\ flow \in {"idle", "queued"}
    /\ id' = tcmd[t] /\ abort' = FALSE /\ received_online' = FALSE
    /\ changed' = 0
    /\ flow' = "queued"
    /\ tpc' = [tpc EXCEPT ![t] = "wait"]
    /\ UNCHANGED <<state_vars, mutex, tcmd, flow_cmd, flow_state, work_vars,
                   server_vars, card_vars, used>>

(* The state has changed: the command has started, and 0 is returned ...    *)
command_started(t) ==
    /\ tpc[t] = "wait" /\ changed > 0
    /\ changed' = changed - 1
    /\ Return(t)
    /\ UNCHANGED <<id, abort, received_online, state_vars, tcmd, flow_vars,
                   msg, server_vars, card_vars, used>>

(* ... or a signal or the timeout ends the wait (-EINTR); the command runs. *)
command_interrupted(t) ==
    /\ tpc[t] = "wait" /\ used.intr < MaxIntr
    /\ used' = [used EXCEPT !.intr = @ + 1]
    /\ Return(t)
    /\ UNCHANGED <<command_vars, state_vars, tcmd, flow_vars, msg, server_vars,
                   card_vars>>

(***************************************************************************)
(* The hardware operations of the card driver and the end of its sessions  *)
(***************************************************************************)
(* cosm_stop(): the SCIF device is unregistered, every session is           *)
(* disconnected and requests to connect are dropped.                        *)
cosm_stop ==
    /\ conn' = [s \in Session |-> [conn[s] EXCEPT !.dead = (s <= sess)]]
    /\ backlog' = <<>> /\ scif' = FALSE

(* scif_send() to the card: it fails once the session is disconnected.      *)
Reachable == epd # 0 /\ previous_state = "ONLINE" /\ ~conn[epd].dead
Ask(request) ==
    /\ conn' = [conn EXCEPT ![epd].request = request]
    /\ UNCHANGED <<backlog, scif>>

Invoked == flow' = "poll" /\ UNCHANGED flow_state
InvokeFailed == flow' = "switch" /\ flow_state' = "ERROR"

(***************************************************************************)
(* cosm_state_flow()                                                       *)
(***************************************************************************)
cosm_switch_to_state(s) ==
    /\ execute_on_ready' = IF state = "READY" \/ s = "ERROR"
                             THEN "NONE" ELSE execute_on_ready
    /\ locked' = (s \notin {"READY", "SHUTDOWN", "ERROR"})
    /\ previous_state' = state /\ state' = s
    /\ changed' = changed + 1

HasInvoke(c) == c \notin FromCard \cup Events

flow_start ==
    /\ flow = "queued"
    /\ flow_cmd' = id
    /\ IF temporal_state(id) # "UNKNOWN"
         THEN cosm_switch_to_state(temporal_state(id))
         ELSE UNCHANGED <<state_vars, changed>>
    /\ flow' = IF HasInvoke(id) THEN "invoke" ELSE "poll"
    /\ UNCHANGED <<id, abort, received_online, thread_vars, flow_state,
                   work_vars, server_vars, card_vars, used>>

invoke(c) == flow = "invoke" /\ flow_cmd \in c
invoke_unchanged == <<command_vars, state_vars, thread_vars, flow_cmd,
                      work_vars, server_vars, sess, reported>>

(* Booting registers the SCIF device and starts the card, which must be     *)
(* ready; loading the images, or mapping the memory, may fail.              *)
cosm_boot ==
    /\ invoke({"BOOT", "BOOT_FIRMWARE"})
    /\ \/ /\ os = "ready"
          /\ IF flow_cmd = "BOOT"
               THEN os' = "booting" /\ scif' = TRUE /\ boot' = boot + 1
               ELSE os' = "booting_firmware" /\ UNCHANGED <<scif, boot>>
          /\ Invoked
          /\ UNCHANGED used
       \/ /\ used.fault < MaxFault
          /\ used' = [used EXCEPT !.fault = @ + 1]
          /\ InvokeFailed
          /\ UNCHANGED <<os, scif, boot>>
    /\ UNCHANGED <<invoke_unchanged, conn, backlog>>

(* An online card is asked to reboot, any other is reset by the hardware;   *)
(* one that is found resetting when the driver is loaded is left alone.     *)
cosm_reset ==
    /\ invoke({"RESET"})
    /\ IF previous_state = "UNKNOWN" /\ os = "resetting"
         THEN UNCHANGED <<conn, backlog, scif, os>>
         ELSE IF Reachable THEN Ask("REBOOT") /\ UNCHANGED os
                           ELSE cosm_stop /\ os' = "resetting"
    /\ Invoked
    /\ UNCHANGED <<invoke_unchanged, boot, used>>

cosm_shutdown ==
    /\ invoke({"SHUTDOWN"})
    /\ IF os = "ready" THEN cosm_stop /\ os' = "off" /\ Invoked
       ELSE IF Reachable THEN Ask("SHUTDOWN") /\ Invoked /\ UNCHANGED os
       ELSE InvokeFailed /\ UNCHANGED <<conn, backlog, scif, os>>
    /\ UNCHANGED <<invoke_unchanged, boot, used>>

cosm_force ==
    /\ invoke(Forced)
    /\ cosm_stop
    /\ os' = IF flow_cmd = "SHUTDOWN_FORCE" THEN "off" ELSE "resetting"
    /\ Invoked
    /\ UNCHANGED <<invoke_unchanged, boot, used>>

(* Has the command reached its target?                                      *)
complete(c) ==
    CASE c = "BOOT" -> received_online
      [] c = "BOOT_FIRMWARE" -> os = "firmware"
      [] c \in Resets -> os = "ready"
      [] c \in Shutdowns -> os = "off"
      [] OTHER -> TRUE

poll_unchanged == <<command_vars, state, previous_state, locked, thread_vars,
                    flow_cmd, work_vars, server_vars, sess, os, boot, reported,
                    used>>

flow_complete ==
    /\ flow = "poll" /\ complete(flow_cmd)
    /\ IF flow_cmd \in Resets \cup Shutdowns
         THEN cosm_stop ELSE UNCHANGED <<conn, backlog, scif>>
    /\ execute_on_ready' = IF flow_cmd = "RESET_FROM_CARD"
                             THEN "BOOT" ELSE execute_on_ready
    /\ flow' = "switch" /\ flow_state' = target_state(flow_cmd)
    /\ UNCHANGED poll_unchanged

(* Mutant: a boot has no timeout. *)
flow_timeout_boot ==
    /\ flow = "poll" /\ ~complete(flow_cmd) /\ flow_cmd # "BOOT"
    /\ flow' = "switch" /\ flow_state' = "ERROR"
    /\ UNCHANGED <<poll_unchanged, execute_on_ready, conn, backlog, scif>>

flow_timeout ==
    /\ flow = "poll" /\ ~complete(flow_cmd)
    /\ flow' = "switch" /\ flow_state' = "ERROR"
    /\ UNCHANGED <<poll_unchanged, execute_on_ready, conn, backlog, scif>>

(* Mutant: the aborted command is over. *)
flow_abort_clears ==
    /\ flow = "poll" /\ ~complete(flow_cmd) /\ abort
    /\ flow' = "idle" /\ id' = "NONE"
    /\ UNCHANGED <<abort, received_online, changed, state_vars, thread_vars,
                   flow_cmd, flow_state, work_vars, server_vars, card_vars, used>>

(* An aborted flow returns without a final state; the id stays.             *)
flow_abort ==
    /\ flow = "poll" /\ ~complete(flow_cmd) /\ abort
    /\ flow' = "idle"
    /\ UNCHANGED <<poll_unchanged, flow_state, execute_on_ready, conn, backlog,
                   scif>>

flow_switch ==
    /\ flow = "switch"
    /\ cosm_switch_to_state(flow_state)
    /\ flow' = "clear"
    /\ UNCHANGED <<id, abort, received_online, thread_vars, flow_cmd, flow_state,
                   work_vars, server_vars, card_vars, used>>

(* The new state is visible before the command is over.                     *)
flow_clear ==
    /\ flow = "clear"
    /\ id' = "NONE" /\ flow' = "idle"
    /\ UNCHANGED <<abort, received_online, changed, state_vars, thread_vars,
                   flow_cmd, flow_state, work_vars, server_vars, card_vars, used>>

(***************************************************************************)
(* cosm_scif_work() and cosm_scif_server()                                 *)
(***************************************************************************)
work_unchanged == <<state_vars, flow_vars, sess, os, scif, boot, reported,
                    backlog, server, newepd>>

(* The time is sent first, which fails on a disconnected session.           *)
work_start ==
    /\ work = "queued"
    /\ work' = IF conn[epd].dead THEN "exit" ELSE "poll"
    /\ UNCHANGED <<work_unchanged, command_vars, thread_vars, msg, epd, conn,
                   used>>

Handler(s) == CASE s = "RESETTING" -> "RESET_FROM_CARD"
                [] s = "SHUTTING_DOWN" -> "SHUTDOWN_FROM_CARD"
                [] OTHER -> "HANDLE_PANIC"

(* cosm_scif_recv() and cosm_status_handler()                               *)
work_recv ==
    /\ work = "poll" /\ conn[epd].msgs # <<>>
    /\ msg' = Head(conn[epd].msgs)
    /\ conn' = [conn EXCEPT ![epd].msgs = Tail(@)]
    /\ IF msg'.state = "ONLINE"
         THEN received_online' = TRUE /\ UNCHANGED <<tcmd, work>>
         ELSE /\ tcmd' = [tcmd EXCEPT ![Scif] = Handler(msg'.state)]
              /\ work' = "call"
              /\ UNCHANGED received_online
    /\ UNCHANGED <<work_unchanged, id, abort, changed, mutex, tpc, epd, used>>

(* No message, not even a heartbeat, for COSM_HEARTBEAT_TIMEOUT_SEC.        *)
work_hang ==
    /\ work = "poll" /\ conn[epd].msgs = <<>> /\ ~conn[epd].dead
    /\ tcmd' = [tcmd EXCEPT ![Scif] = "HANDLE_HANG"]
    /\ work' = "call"
    /\ UNCHANGED <<work_unchanged, command_vars, mutex, tpc, msg, epd, conn,
                   used>>

(* cosm_set_command() called by the work item.                              *)
work_call ==
    /\ work = "call" /\ tpc[Scif] = "idle"
    /\ set_command(Scif, tcmd[Scif])
    /\ work' = IF tpc'[Scif] = "idle" THEN "poll" ELSE "call"
    /\ UNCHANGED used

(* Mutant: a hangup does not end the loop. *)
work_hup_continues ==
    /\ work = "poll" /\ conn[epd].msgs = <<>> /\ conn[epd].dead
    /\ UNCHANGED vars

work_hup ==
    /\ work = "poll" /\ conn[epd].msgs = <<>> /\ conn[epd].dead
    /\ work' = "exit"
    /\ UNCHANGED <<work_unchanged, command_vars, thread_vars, msg, epd, conn,
                   used>>

work_exit ==
    /\ work = "exit"
    /\ conn' = [conn EXCEPT ![epd].dead = TRUE]
    /\ epd' = 0 /\ work' = "idle"
    /\ UNCHANGED <<work_unchanged, command_vars, thread_vars, msg, used>>

server_unchanged == <<command_vars, state_vars, thread_vars, flow_vars, msg,
                      sess, os, scif, boot, reported, used>>

server_accept ==
    /\ server = "accept" /\ backlog # <<>>
    /\ newepd' = Head(backlog) /\ backlog' = Tail(backlog)
    /\ conn' = [conn EXCEPT ![Head(backlog)].accepted = TRUE]
    /\ server' = "flush"
    /\ UNCHANGED <<server_unchanged, epd, work>>

(* Mutant: the work item of the previous session is not waited for. *)
server_no_flush ==
    /\ server = "flush"
    /\ server' = "assign"
    /\ UNCHANGED <<server_unchanged, newepd, epd, work, backlog, conn>>

(* flush_work() waits for the work item of the previous session.            *)
server_flush ==
    /\ server = "flush" /\ work = "idle"
    /\ server' = "assign"
    /\ UNCHANGED <<server_unchanged, newepd, epd, work, backlog, conn>>

(* The session becomes the device's, or is closed if the device has one.    *)
server_assign ==
    /\ server = "assign"
    /\ IF epd = 0
         THEN epd' = newepd /\ work' = "queued" /\ UNCHANGED conn
         ELSE /\ conn' = [conn EXCEPT ![newepd].dead = TRUE]
              /\ UNCHANGED <<epd, work>>
    /\ newepd' = 0 /\ server' = "accept"
    /\ UNCHANGED <<server_unchanged, backlog>>

(***************************************************************************)
(* The card: its firmware, its operating system and its COSM client        *)
(***************************************************************************)
card_unchanged == <<command_vars, state_vars, thread_vars, flow_vars,
                    work_vars, server_vars, boot, used>>

(* The operating system, or a COSM client loaded again, connects: the       *)
(* client's previous session, if any, is closed.                            *)
cosm_scif_connect ==
    /\ os \in {"booting", "up"} /\ scif /\ sess < MaxSession
    /\ os = "up" => conn[sess].accepted
    /\ sess' = sess + 1 /\ os' = "up"
    /\ conn' = [s \in Session |->
                  IF s = sess + 1 THEN [conn[s] EXCEPT !.boot = boot]
                  ELSE IF s = sess THEN [conn[s] EXCEPT !.dead = TRUE]
                  ELSE conn[s]]
    /\ backlog' = Append(backlog, sess + 1)
    /\ UNCHANGED <<card_unchanged, scif, reported>>

Connected == os = "up" /\ conn[sess].accepted /\ ~conn[sess].dead
Report(s, asked) ==
    conn' = [conn EXCEPT ![sess].msgs =
               Append(@, [state |-> s, asked |-> asked, boot |-> boot])]

cosm_client_send_online ==
    /\ Connected /\ reported # boot
    /\ Report("ONLINE", FALSE)
    /\ reported' = boot
    /\ UNCHANGED <<card_unchanged, backlog, sess, os, scif>>

(* The notifiers: the card reboots or powers off, by itself or because the  *)
(* host has asked it to, or its kernel panics; the host is told if it can.  *)
cosm_reboot_event ==
    /\ Connected
    /\ LET asked == conn[sess].request # "NONE" IN
       \/ /\ conn[sess].request # "SHUTDOWN"
          /\ Report("RESETTING", asked) /\ os' = "rebooting"
       \/ /\ conn[sess].request # "REBOOT"
          /\ Report("SHUTTING_DOWN", asked) /\ os' = "halting"
    /\ UNCHANGED <<card_unchanged, backlog, sess, scif, reported>>

card_panic_event ==
    /\ Connected
    /\ Report("ERROR", FALSE) /\ os' = "hung"
    /\ UNCHANGED <<card_unchanged, backlog, sess, scif, reported>>

(* The card stops answering without a word.                                 *)
card_crash ==
    /\ os \in {"booting", "up", "rebooting", "halting"}
    /\ os' = "hung"
    /\ UNCHANGED <<card_unchanged, conn, backlog, sess, scif, reported>>

(* The end of a reboot or a shutdown disconnects the card's session.        *)
card_down ==
    /\ os \in {"rebooting", "halting"}
    /\ os' = IF os = "rebooting" THEN "resetting" ELSE "off"
    /\ conn' = [conn EXCEPT ![sess].dead = TRUE]
    /\ UNCHANGED <<card_unchanged, backlog, sess, scif, reported>>

card_firmware ==
    /\ os \in {"resetting", "booting_firmware"}
    /\ os' = IF os = "resetting" THEN "ready" ELSE "firmware"
    /\ UNCHANGED <<card_unchanged, conn, backlog, sess, scif, reported>>

(***************************************************************************)
(* The specification                                                       *)
(***************************************************************************)
Calling(t) == admit(t) \/ exec_command(t) \/ command_started(t)
Flow ==
    \/ flow_start \/ cosm_boot \/ cosm_reset \/ cosm_shutdown \/ cosm_force
    \/ flow_complete \/ flow_timeout \/ flow_abort \/ flow_switch \/ flow_clear
Work == work_start \/ work_recv \/ work_call \/ work_hup \/ work_exit
Server == server_accept \/ server_flush \/ server_assign
Card ==
    \/ cosm_scif_connect \/ cosm_client_send_online \/ cosm_reboot_event
    \/ card_panic_event \/ card_crash \/ card_down \/ card_firmware

Next ==
    \/ \E t \in Callers, c \in UserCommands : state_store(t, c)
    \/ \E t \in Thread : Calling(t) \/ command_interrupted(t)
    \/ Flow \/ Work \/ work_hang \/ Server \/ Card

(* Heartbeats keep coming while the card is up and uses the session.        *)
Silent == ~(os = "up" /\ sess = epd)

(* What runs in the host kernel goes on, the poll for a heartbeat times out *)
(* when none comes, and a command times out when the card does not react.   *)
(* Nothing is assumed of the card or of those who write commands.           *)
Fairness ==
    /\ \A t \in Thread : WF_vars(Calling(t))
    /\ WF_vars(Flow)
    /\ WF_vars(Work \/ (Silent /\ work_hang))
    /\ WF_vars(Server)

Spec == Init /\ [][Next]_vars
FairSpec == Spec /\ Fairness

(***************************************************************************)
(* Properties                                                              *)
(***************************************************************************)
(* Every variable has its type, and the module is locked exactly while the  *)
(* card is in a state in which it must not be unloaded (is_module_locked).  *)
TypeOK ==
    /\ state \in State /\ previous_state \in State /\ flow_state \in Stable
    /\ id \in Command \cup {"NONE"} /\ flow_cmd \in Command
    /\ abort \in BOOLEAN /\ received_online \in BOOLEAN /\ scif \in BOOLEAN
    /\ locked = (state \notin {"READY", "SHUTDOWN", "ERROR"})
    /\ changed \in Nat
    /\ execute_on_ready \in {"NONE", "BOOT"}
    /\ mutex \in Thread \cup {None}
    /\ tpc \in [Thread -> {"idle", "check", "cancel", "wait"}]
    /\ tcmd \in [Thread -> Command]
    /\ flow \in {"idle", "queued", "invoke", "poll", "switch", "clear"}
    /\ work \in {"idle", "queued", "poll", "call", "exit"}
    /\ server \in {"accept", "flush", "assign"}
    /\ newepd \in 0..MaxSession /\ epd \in 0..MaxSession
    /\ sess \in 0..MaxSession

(* Between two commands the card is in a stable state, one from which some  *)
(* command leads on: neither an abort nor an interrupted wait leaves it     *)
(* behind in a temporal state, in which every command but a forced one is   *)
(* refused (cosm_state_flow(), cosm_set_command()).                         *)
StableWhenIdle == id = "NONE" => state \in Stable

(* A stored command is being worked on: its state flow is queued or runs    *)
(* for that very command, unless it has been aborted and the command that   *)
(* aborts it is about to replace it.  Otherwise every later command would   *)
(* be refused with -EBUSY.                                                  *)
CommandHasFlow ==
    id # "NONE" => \/ flow = "queued"
                   \/ flow # "idle" /\ flow_cmd = id
                   \/ abort /\ \E t \in Thread : tpc[t] = "cancel"

(* The WARN_ON()s of cosm_state_flow(), cosm_boot(), cosm_boot_firmware()   *)
(* and cosm_shutdown() never fire: a flow has a command, a boot starts from *)
(* READY, and a shutdown from READY or ONLINE.                              *)
NoWarning ==
    /\ flow = "queued" => id # "NONE"
    /\ invoke({"BOOT", "BOOT_FIRMWARE"}) => previous_state = "READY"
    /\ invoke({"SHUTDOWN"}) => previous_state \in {"READY", "ONLINE"}

(* When cosm_set_command() sees the completion and returns 0 the state file *)
(* shows its own command: the temporal state, the target or ERROR.          *)
StartedOnReturn ==
    \A t \in Thread :
      tpc[t] = "wait" /\ changed > 0 =>
        state \in {temporal_state(tcmd[t]), target_state(tcmd[t]), "ERROR"}

(* A device has one session at a time: a new one finds cdev->epd free ("cdev *)
(* epd still exists" is never logged), and a running work item has one.     *)
OneSession ==
    /\ server = "assign" => epd = 0
    /\ epd # 0 <=> work # "idle"

(* A card counts as booted only if an ONLINE message was sent during this   *)
(* boot: received_online is never set by what an earlier boot has left      *)
(* behind.                                                                  *)
OnlineIsReal == flow_cmd = "BOOT" /\ flow = "poll" /\ received_online
                  => reported = boot

(* The card's notice of the reboot or shutdown that the host has asked for  *)
(* in this boot is not executed as a command of its own, whichever state    *)
(* the asked one has ended in; a reset asked for by the user would end in   *)
(* another boot.  (A notice of an earlier boot is executed when an ONLINE   *)
(* of that boot is taken for one of this: see OnlineIsReal.)                *)
EchoIgnored ==
    tpc[Scif] = "cancel" /\ tcmd[Scif] \in FromCard /\ msg.boot = boot =>
      ~msg.asked

(* Every command ends, with the card in its target state or in ERROR, and   *)
(* however the card behaves.                                                *)
CommandEnds == id # "NONE" ~> id = "NONE"

(* The server thread, which serves all cards, is not held up for ever by    *)
(* the work item of one whose session has gone silent.                      *)
ServerReturns == server # "accept" ~> server = "accept"

(***************************************************************************)
(* An inductive invariant: TypeOK and the properties up to OneSession      *)
(* follow from it.                                                         *)
(***************************************************************************)
(* Only the holder of command_mutex is inside cosm_set_command(), and the   *)
(* work item is inside it only while it handles a message or a hang.        *)
MutexInv ==
    /\ \A t \in Thread : tpc[t] # "idle" => mutex = t
    /\ tpc[Scif] # "idle" => work = "call"

(* The abort flag is up exactly while a forced command waits for the        *)
(* current flow to go away.                                                 *)
AbortInv ==
    /\ abort => mutex # None /\ tpc[mutex] = "cancel"
    /\ \A t \in Thread : tpc[t] = "cancel" /\ tcmd[t] \in Aborting => abort

(* A flow works on the stored command; only an aborted one leaves it there. *)
FlowInv ==
    /\ flow = "idle" => id = "NONE" \/ abort
    /\ flow # "idle" => id # "NONE"
    /\ flow \notin {"idle", "queued"} => flow_cmd = id

Started == flow \in {"invoke", "poll", "switch"}

(* How far the state has come.                                              *)
StateInv ==
    /\ id = "NONE" => state \in Stable
    /\ Started /\ temporal_state(id) # "UNKNOWN" => state = temporal_state(id)
    /\ flow = "switch" \/ flow = "clear" =>
          flow_state \in {target_state(id), "ERROR"}
    /\ flow = "clear" => state = flow_state

(* A command that was not forced has been allowed in the state in which its *)
(* flow finds the card.                                                     *)
AllowInv ==
    /\ \A t \in Thread : tpc[t] = "cancel" /\ tcmd[t] \notin Aborting =>
          id = "NONE" /\ is_command_allowed(state, tcmd[t])
    /\ flow = "queued" /\ id \notin Aborting => is_command_allowed(state, id)
    /\ flow = "invoke" /\ id \notin Aborting =>
          is_command_allowed(previous_state, id)

(* The completion counts changes of the state by the current command only.  *)
WaitInv ==
    /\ flow = "queued" => changed = 0
    /\ Started /\ temporal_state(id) = "UNKNOWN" => changed = 0
    /\ \A t \in Thread : tpc[t] = "wait" =>
          \/ id = tcmd[t]
          \/ id = "NONE" /\ state \in {target_state(tcmd[t]), "ERROR"}

SessionInv ==
    /\ backlog \in Seq(Session)
    /\ server # "accept" => newepd \in Session

IInv == /\ TypeOK /\ MutexInv /\ AbortInv /\ FlowInv /\ StateInv /\ AllowInv
        /\ WaitInv /\ SessionInv /\ OneSession
=============================================================================
