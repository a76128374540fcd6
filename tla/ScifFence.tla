----------------------------- MODULE ScifFence -----------------------------
(***************************************************************************)
(* Fences of a SCIF connection (scif_fence.c): marks, waits and signals,   *)
(* each for the copies of the caller's own end or for those of its peer,   *)
(* the work queue that answers waits of the peer (misc_work), the closing  *)
(* of both ends, and the reference count (fence_refcount) that has to keep *)
(* a closed endpoint until its last fence is over.                         *)
(*                                                                         *)
(* Each end has the DMA channel it reserved when it connected, which       *)
(* works in order; a cookie is a position in the channel.  A descriptor is *)
(* completed first and its callback is run later, also in order (MicDma    *)
(* is the detailed model of a channel).                                    *)
(*                                                                         *)
(* A call that is refused at once changes nothing and is not a step.  An   *)
(* endpoint is closed when no call on it is in progress.  A call whose     *)
(* wait for the peer times out tries again while the node is there; a      *)
(* close goes on without the acknowledgement.  Registered windows, which   *)
(* also keep an endpoint, are left out, so that signals may find a window  *)
(* or not; the loopback connection of the host uses no DMA and is left out *)
(* as well.                                                                *)
(***************************************************************************)
EXTENDS Integers, Sequences, FiniteSets

CONSTANTS
    EndOf,      \* the end of each client thread
    Scenarios,  \* what may happen
    None

Threads == DOMAIN EndOf
Ends == {"A", "B"}
Flags == {"LOCAL", "REMOTE"}

\* A call of a client: a copy, a mark or a signal for the copies of the own
\* end or of the peer, or a wait for a mark the clients have obtained.
Ops == [op : {"copy", "wait"}] \cup [op : {"mark"}, peer : BOOLEAN] \cup
       [op : {"signal"}, peer : BOOLEAN, flags : SUBSET Flags \ {{}}]

\* The calls of each thread, the ends that are closed at some time, and
\* whether a node may be removed.
Scenario == [calls : [Threads -> Seq(Ops)], close : SUBSET Ends, gone : BOOLEAN]

ASSUME FenceAssumption ==
    /\ EndOf \in [Threads -> Ends]
    /\ Scenarios \subseteq Scenario
    /\ None \notin Threads

VARIABLES
    plan,     \* what may still happen
    ep,       \* [state, closer, fence_refcount] of the endpoint of each end,
              \* closer being the place of its close: "zombie" and "late" are
              \* on the zombie list, "late" because the wait has timed out
    alive,    \* scifdev_alive() at each end
    chan,     \* what was submitted to each channel
    done,     \* how much of it is completed
    called,   \* how many callbacks have been run
    wire,     \* messages on their way to each end
    handler,  \* MARK request whose descriptor is submitted, at each end
    fence,    \* scif_info.fence of each node
    work,     \* misc_work of each node
    call,     \* latest call of each thread
    req,      \* its fence_req
    marks     \* marks the clients of each end have obtained

vars == <<plan, ep, alive, chan, done, called, wire, handler, fence, work, call, req, marks>>

Peer(e) == IF e = "A" THEN "B" ELSE "A"

Copy == [kind |-> "copy"]
Mark == [kind |-> "mark"]
Signal(t, n, f) == [kind |-> "signal", thread |-> t, n |-> n, flag |-> f]

Requests == {"MARK", "WAIT", "SIG_LOCAL", "SIG_REMOTE"}
Acks == {"MARK_ACK", "WAIT_ACK", "SIG_ACK"}
Nacks == {"MARK_NACK", "WAIT_NACK", "SIG_NACK"}
Messages == [uop : Requests \cup Acks \cup Nacks \cup {"DISCNCT", "DISCNT_ACK"},
             thread : Threads \cup {None}, n : Nat, mark : Nat]

Message(uop) == [uop |-> uop, thread |-> None, n |-> 0, mark |-> 0]

\* covers: length of the channel the fence is about when its mark was asked
\* for; flags: signals asked for; left: those not yet programmed.
Calls == [pc : {"idle", "submitted", "waiting", "signalling", "sent"},
          op : {"none", "mark", "wait", "signal"}, n : Nat, peer : BOOLEAN,
          cookie : Nat, covers : Nat, flags : SUBSET Flags, left : SUBSET Flags,
          res : {"none", "ok", "err"}]

Entries == [kind : {"copy", "mark"}] \cup
           [kind : {"signal"}, thread : Threads, n : Nat, flag : Flags]
Marks == [peer : BOOLEAN, cookie : Nat, covers : Nat]
Endpoints == [state : {"CONNECTED", "DISCONNECTED", "CLOSING", "ZOMBIE", "FREED"},
              closer : {"open", "closing", "zombie", "late"}, fence_refcount : Int]
Works == [queued : BOOLEAN, pc : {"idle", "fences", "waiting", "zombies"},
          fence : Messages \cup {None}]
FenceReqs == [state : {"FREED", "OP_IN_PROGRESS", "OP_COMPLETED", "OP_FAILED"}, dma_mark : Nat]

TypeOK ==
    /\ plan \in Scenario
    /\ ep \in [Ends -> Endpoints]
    /\ alive \in [Ends -> BOOLEAN]
    /\ chan \in [Ends -> Seq(Entries)] /\ done \in [Ends -> Nat] /\ called \in [Ends -> Nat]
    /\ \A e \in Ends : called[e] <= done[e] /\ done[e] <= Len(chan[e])
    /\ wire \in [Ends -> Seq(Messages)] /\ fence \in [Ends -> Seq(Messages)]
    /\ handler \in [Ends -> Messages \cup {None}]
    /\ work \in [Ends -> Works]
    /\ call \in [Threads -> Calls]
    /\ req \in [Threads -> FenceReqs]
    /\ marks \in [Ends -> SUBSET Marks]

NoCall == [pc |-> "idle", op |-> "none", n |-> 0, peer |-> FALSE, cookie |-> 0,
           covers |-> 0, flags |-> {}, left |-> {}, res |-> "none"]
Free == [state |-> "FREED", dma_mark |-> 0]
InProgress == [state |-> "OP_IN_PROGRESS", dma_mark |-> 0]

Init ==
    /\ plan \in Scenarios
    /\ ep = [e \in Ends |-> [state |-> "CONNECTED", closer |-> "open", fence_refcount |-> 0]]
    /\ alive = [e \in Ends |-> TRUE]
    /\ chan = [e \in Ends |-> <<>>]
    /\ done = [e \in Ends |-> 0] /\ called = [e \in Ends |-> 0]
    /\ wire = [e \in Ends |-> <<>>] /\ handler = [e \in Ends |-> None]
    /\ fence = [e \in Ends |-> <<>>]
    /\ work = [e \in Ends |-> [queued |-> FALSE, pc |-> "idle", fence |-> None]]
    /\ call = [t \in Threads |-> NoCall] /\ req = [t \in Threads |-> Free]
    /\ marks = [e \in Ends |-> {}]

-----------------------------------------------------------------------------
(* Parts of the handlers *)

scif_dma_submit(e, tx) == chan' = [chan EXCEPT ![e] = Append(@, tx)]

\* A message of end e, which is lost when the node of the peer is gone.
scif_nodeqp_send(e, m) ==
    wire' = IF alive[e] THEN [wire EXCEPT ![Peer(e)] = Append(@, m)] ELSE wire

\* The next message to e is taken and an answer to it is sent.
Answer(e, m) ==
    wire' = IF alive[e] THEN [wire EXCEPT ![e] = Tail(@), ![Peer(e)] = Append(@, m)]
                        ELSE [wire EXCEPT ![e] = Tail(@)]

RefsPlus(e, k) == ep' = [ep EXCEPT ![e].fence_refcount = @ + k]

schedule_work(e) == work' = [work EXCEPT ![e].queued = TRUE]

scif_verify_epd(e) == ep[e].state = "CONNECTED" /\ alive[e]

\* The fencelock of a node is held while its work handles fences.
FencelockFree(e) == work[e].pc \notin {"fences", "waiting"}

\* Thread t starts call c.
Begin(t, c) == call' = [call EXCEPT ![t] = [c EXCEPT !.n = call[t].n + 1]]

Return(t, res) == call' = [call EXCEPT ![t].pc = "idle", ![t].res = res]

\* Thread t makes its next call, which is of the given kind.
Called(t, op) ==
    /\ call[t].pc = "idle" /\ plan.calls[t] # <<>> /\ Head(plan.calls[t]).op = op
    /\ scif_verify_epd(EndOf[t])
    /\ plan' = [plan EXCEPT !.calls[t] = Tail(@)]

Arg(t) == Head(plan.calls[t])

Request(t, uop, n, mark) == [uop |-> uop, thread |-> t, n |-> n, mark |-> mark]

\* SIG_LOCAL and SIG_REMOTE are sent in this order, and own signals
\* programmed in this order.
NextSignal(flags) == IF "LOCAL" \in flags THEN "LOCAL" ELSE "REMOTE"
SigUop(f) == IF f = "LOCAL" THEN "SIG_LOCAL" ELSE "SIG_REMOTE"

-----------------------------------------------------------------------------
(* Calls *)

\* An asynchronous copy.
scif_rma_copy(t) ==
    LET e == EndOf[t] IN
    /\ Called(t, "copy")
    /\ scif_dma_submit(e, Copy)
    /\ UNCHANGED <<ep, alive, done, called, wire, handler, fence, work, call, req, marks>>

\* A fence request to the peer: a request is allocated and sent.
_scif_send_fence(t, uop, mark) ==
    /\ req' = [req EXCEPT ![t] = InProgress]
    /\ scif_nodeqp_send(EndOf[t], Request(t, uop, call[t].n + 1, mark))
    /\ UNCHANGED <<ep, alive, chan, done, called, handler, fence, work, marks>>

scif_fence_mark_peer(t) ==
    /\ Called(t, "mark") /\ Arg(t).peer
    /\ Begin(t, [NoCall EXCEPT !.pc = "sent", !.op = "mark", !.peer = TRUE,
                                !.covers = Len(chan[Peer(EndOf[t])])])
    /\ _scif_send_fence(t, "MARK", 0)

\* The descriptor is submitted here and the reference taken in the next step.
scif_fence_mark_self(t) ==
    LET e == EndOf[t] IN
    /\ Called(t, "mark") /\ ~Arg(t).peer
    /\ \/ /\ scif_dma_submit(e, Mark)
          /\ Begin(t, [NoCall EXCEPT !.pc = "submitted", !.op = "mark",
                                      !.cookie = Len(chan[e]) + 1, !.covers = Len(chan[e])])
       \/ /\ Begin(t, [NoCall EXCEPT !.op = "mark", !.res = "err"])
          /\ UNCHANGED chan
    /\ UNCHANGED <<ep, alive, done, called, wire, handler, fence, work, req, marks>>

scif_fence_mark_ref(t) ==
    LET c == call[t] IN
    /\ c.pc = "submitted"
    /\ RefsPlus(EndOf[t], 1)
    /\ Return(t, "ok")
    /\ marks' = [marks EXCEPT ![EndOf[t]] =
                     @ \cup {[peer |-> FALSE, cookie |-> c.cookie, covers |-> c.covers]}]
    /\ UNCHANGED <<plan, alive, chan, done, called, wire, handler, fence, work, req>>

scif_fence_wait(t, m) ==
    /\ Called(t, "wait")
    /\ Begin(t, [NoCall EXCEPT !.pc = IF m.peer THEN "sent" ELSE "waiting", !.op = "wait",
                                !.peer = m.peer, !.cookie = m.cookie, !.covers = m.covers])
    /\ IF m.peer THEN _scif_send_fence(t, "WAIT", m.cookie)
       ELSE UNCHANGED <<ep, alive, chan, done, called, wire, handler, fence, work, req, marks>>

\* dma_async_is_tx_complete() holds for a cookie.
Complete(e, cookie) == done[e] >= cookie

\* Mutant: a wait that times out is taken for a success.
wait_timeout_ok(e, cookie) == {"ok"}

\* The result of _scif_fence_wait(): completion, or a timeout (an interrupted
\* wait has the same effect).
WaitResults(e, cookie) == {IF Complete(e, cookie) THEN "ok" ELSE "err"}

_scif_fence_wait(t) ==
    /\ call[t].pc = "waiting"
    /\ \E res \in WaitResults(EndOf[t], call[t].cookie) : Return(t, res)
    /\ UNCHANGED <<plan, ep, alive, chan, done, called, wire, handler, fence, work, req, marks>>

scif_fence_signal(t) ==
    LET peer == Arg(t).peer
        flags == Arg(t).flags
    IN
    /\ Called(t, "signal")
    /\ Begin(t, [NoCall EXCEPT !.pc = IF peer THEN "sent" ELSE "signalling", !.op = "signal",
                                !.peer = peer, !.flags = flags,
                                !.left = IF peer THEN flags \ {NextSignal(flags)} ELSE flags,
                                !.covers = Len(chan[IF peer THEN Peer(EndOf[t]) ELSE EndOf[t]])])
    /\ IF peer THEN _scif_send_fence(t, SigUop(NextSignal(flags)), 0)
       ELSE UNCHANGED <<ep, alive, chan, done, called, wire, handler, fence, work, req, marks>>

\* The next signal of the own end is programmed, or fails: no window, no
\* memory, no descriptor.
scif_prog_signal(t) ==
    LET c == call[t]
        f == NextSignal(c.left)
        rest == c.left \ {f}
    IN
    /\ c.pc = "signalling"
    /\ \/ /\ scif_dma_submit(EndOf[t], Signal(t, c.n, f))
          /\ IF rest = {} THEN Return(t, "ok")
             ELSE call' = [call EXCEPT ![t].left = rest]
       \/ Return(t, "err") /\ UNCHANGED chan
    /\ UNCHANGED <<plan, ep, alive, done, called, wire, handler, fence, work, req, marks>>

\* The answer of the peer is there.
Answered(t) == call[t].pc = "sent" /\ req[t].state \in {"OP_COMPLETED", "OP_FAILED"}

\* End of _scif_send_fence().
fence_answered(t) ==
    LET ok == req[t].state = "OP_COMPLETED"
        mark == [peer |-> TRUE, cookie |-> req[t].dma_mark, covers |-> call[t].covers]
    IN
    /\ Answered(t) /\ call[t].op # "signal"
    /\ Return(t, IF ok THEN "ok" ELSE "err")
    /\ req' = [req EXCEPT ![t] = Free]
    /\ marks' = IF call[t].op = "mark" /\ ok
                THEN [marks EXCEPT ![EndOf[t]] = @ \cup {mark}] ELSE marks
    /\ UNCHANGED <<plan, ep, alive, chan, done, called, wire, handler, fence, work>>

\* scif_send_fence_signal() goes on with the second request or ends.
signal_answered(t) ==
    LET c == call[t]
        ok == req[t].state = "OP_COMPLETED"
    IN
    /\ Answered(t) /\ c.op = "signal"
    /\ IF ok /\ c.left # {} /\ scif_verify_epd(EndOf[t])
       THEN /\ call' = [call EXCEPT ![t].left = @ \ {NextSignal(@)}]
            /\ req' = [req EXCEPT ![t] = InProgress]
            /\ scif_nodeqp_send(EndOf[t], Request(t, SigUop(NextSignal(c.left)), c.n, 0))
       ELSE /\ Return(t, IF ok /\ c.left = {} THEN "ok" ELSE "err")
            /\ req' = [req EXCEPT ![t] = Free]
            /\ UNCHANGED wire
    /\ UNCHANGED <<plan, ep, alive, chan, done, called, handler, fence, work, marks>>

\* Mutant: no retry after a timeout.
no_retry(t) == TRUE

\* The wait has timed out and the node of the peer is gone.
GivesUp(t) == ~alive[EndOf[t]]

fence_timeout(t) ==
    /\ call[t].pc = "sent" /\ req[t].state = "OP_IN_PROGRESS" /\ GivesUp(t)
    /\ Return(t, "err")
    /\ req' = [req EXCEPT ![t] = Free]
    /\ UNCHANGED <<plan, ep, alive, chan, done, called, wire, handler, fence, work, marks>>

-----------------------------------------------------------------------------
(* Messages *)

\* Handler of end e looks at message m next.  One that is sent to an endpoint
\* that no longer exists is taken without effect (see EndpointFound).
Takes(e, uops) ==
    /\ handler[e] = None /\ wire[e] # <<>>
    /\ Head(wire[e]).uop \in uops
    /\ ep[e].state # "FREED"

\* The handler submits the descriptor here, and takes the reference and
\* answers in the next step.
scif_recv_mark(e) ==
    LET m == Head(wire[e]) IN
    /\ Takes(e, {"MARK"})
    /\ \/ /\ scif_dma_submit(e, Mark)
          /\ handler' = [handler EXCEPT ![e] = [m EXCEPT !.uop = "MARK_ACK",
                                                         !.mark = Len(chan[e]) + 1]]
          /\ wire' = [wire EXCEPT ![e] = Tail(@)]
       \/ /\ Answer(e, [m EXCEPT !.uop = "MARK_NACK"])
          /\ UNCHANGED <<chan, handler>>
    /\ UNCHANGED <<plan, ep, alive, done, called, fence, work, call, req, marks>>

recv_mark_ref(e) ==
    /\ handler[e] # None
    /\ RefsPlus(e, 1)
    /\ scif_nodeqp_send(e, handler[e])
    /\ handler' = [handler EXCEPT ![e] = None]
    /\ UNCHANGED <<plan, alive, chan, done, called, fence, work, call, req, marks>>

\* Mutant: the work is not scheduled.
recv_wait_unscheduled(e) ==
    LET m == Head(wire[e]) IN
    /\ Takes(e, {"WAIT"}) /\ FencelockFree(e)
    /\ fence' = [fence EXCEPT ![e] = Append(@, m)]
    /\ RefsPlus(e, 1)
    /\ wire' = [wire EXCEPT ![e] = Tail(@)]
    /\ UNCHANGED <<plan, alive, chan, done, called, handler, work, call, req, marks>>

\* The request is put on the list for misc_work, or there is no memory for it.
scif_recv_wait(e) ==
    LET m == Head(wire[e]) IN
    /\ Takes(e, {"WAIT"})
    /\ \/ /\ FencelockFree(e)
          /\ fence' = [fence EXCEPT ![e] = Append(@, m)]
          /\ RefsPlus(e, 1)
          /\ schedule_work(e)
          /\ wire' = [wire EXCEPT ![e] = Tail(@)]
       \/ /\ Answer(e, [m EXCEPT !.uop = "WAIT_NACK"])
          /\ UNCHANGED <<ep, fence, work>>
    /\ UNCHANGED <<plan, alive, chan, done, called, handler, call, req, marks>>

\* Mutant: a signal that cannot be programmed is acknowledged all the same.
recv_sig_always_ack(e, flag) ==
    /\ Takes(e, {SigUop(flag)})
    /\ Answer(e, [Head(wire[e]) EXCEPT !.uop = "SIG_ACK"])
    /\ UNCHANGED <<plan, ep, alive, chan, done, called, handler, fence, work, call, req, marks>>

recv_sig(e, flag) ==
    LET m == Head(wire[e]) IN
    /\ Takes(e, {SigUop(flag)})
    /\ \/ scif_dma_submit(e, Signal(m.thread, m.n, flag)) /\ Answer(e, [m EXCEPT !.uop = "SIG_ACK"])
       \/ UNCHANGED chan /\ Answer(e, [m EXCEPT !.uop = "SIG_NACK"])
    /\ UNCHANGED <<plan, ep, alive, done, called, handler, fence, work, call, req, marks>>

scif_recv_sig_local(e) == recv_sig(e, "LOCAL")
scif_recv_sig_remote(e) == recv_sig(e, "REMOTE")

\* The request that answer m names is still allocated.
Finds(m) == req[m.thread].state # "FREED" /\ call[m.thread].n = m.n

\* An answer for a request that was freed is taken without effect (see
\* AnswerFindsRequest).
recv_resp(e, ack, nack) ==
    LET m == Head(wire[e]) IN
    /\ Takes(e, {ack, nack})
    /\ req' = IF Finds(m)
              THEN [req EXCEPT ![m.thread] =
                       [state |-> IF m.uop = ack THEN "OP_COMPLETED" ELSE "OP_FAILED",
                        dma_mark |-> IF m.uop = "MARK_ACK" THEN m.mark ELSE @.dma_mark]]
              ELSE req
    /\ wire' = [wire EXCEPT ![e] = Tail(@)]
    /\ UNCHANGED <<plan, ep, alive, chan, done, called, handler, fence, work, call, marks>>

scif_recv_mark_resp(e) == recv_resp(e, "MARK_ACK", "MARK_NACK")
scif_recv_wait_resp(e) == recv_resp(e, "WAIT_ACK", "WAIT_NACK")
scif_recv_sig_resp(e) == recv_resp(e, "SIG_ACK", "SIG_NACK")

\* The endpoint is found on the connected list; the peer is always answered.
scif_discnct(e) ==
    /\ handler[e] = None /\ wire[e] # <<>> /\ Head(wire[e]).uop = "DISCNCT"
    /\ ep' = IF ep[e].state = "CONNECTED" THEN [ep EXCEPT ![e].state = "DISCONNECTED"] ELSE ep
    /\ Answer(e, Message("DISCNT_ACK"))
    /\ UNCHANGED <<plan, alive, chan, done, called, handler, fence, work, call, req, marks>>

scif_discnt_ack(e) ==
    /\ Takes(e, {"DISCNT_ACK"})
    /\ ep' = [ep EXCEPT ![e].state = "DISCONNECTED"]
    /\ wire' = [wire EXCEPT ![e] = Tail(@)]
    /\ UNCHANGED <<plan, alive, chan, done, called, handler, fence, work, call, req, marks>>

\* A message that finds its endpoint freed.
lost_message(e) ==
    /\ handler[e] = None /\ wire[e] # <<>> /\ Head(wire[e]).uop # "DISCNCT"
    /\ ep[e].state = "FREED"
    /\ wire' = [wire EXCEPT ![e] = Tail(@)]
    /\ UNCHANGED <<plan, ep, alive, chan, done, called, handler, fence, work, call, req, marks>>

-----------------------------------------------------------------------------
(* The channel *)

Engine(e) ==
    /\ done[e] < Len(chan[e])
    /\ done' = [done EXCEPT ![e] = @ + 1]
    /\ UNCHANGED <<plan, ep, alive, chan, called, wire, handler, fence, work, call, req, marks>>

\* Run for each descriptor; scif_fence_mark_cb() for a mark.
Callback(e) ==
    /\ called[e] < done[e]
    /\ called' = [called EXCEPT ![e] = @ + 1]
    /\ IF chan[e][called[e] + 1] = Mark THEN RefsPlus(e, -1) ELSE UNCHANGED ep
    /\ UNCHANGED <<plan, alive, chan, done, wire, handler, fence, work, call, req, marks>>

-----------------------------------------------------------------------------
(* misc_work *)

\* The work starts, and takes fencelock.
scif_misc_handler(e) ==
    /\ work[e].queued /\ work[e].pc = "idle"
    /\ work' = [work EXCEPT ![e].queued = FALSE, ![e].pc = "fences"]
    /\ UNCHANGED <<plan, ep, alive, chan, done, called, wire, handler, fence, call, req, marks>>

\* The next fence is taken from the list, or fencelock released.
scif_rma_handle_remote_fences(e) ==
    /\ work[e].pc = "fences"
    /\ IF fence[e] = <<>>
       THEN work' = [work EXCEPT ![e].pc = "zombies"] /\ UNCHANGED fence
       ELSE /\ work' = [work EXCEPT ![e].pc = "waiting", ![e].fence = Head(fence[e])]
            /\ fence' = [fence EXCEPT ![e] = Tail(@)]
    /\ UNCHANGED <<plan, ep, alive, chan, done, called, wire, handler, call, req, marks>>

\* _scif_fence_wait() for a remote fence is over: answer, drop the reference.
remote_fence_waited(e) ==
    LET m == work[e].fence IN
    /\ work[e].pc = "waiting"
    /\ \E res \in WaitResults(e, m.mark) :
          scif_nodeqp_send(e, [m EXCEPT !.uop = IF res = "ok" THEN "WAIT_ACK" ELSE "WAIT_NACK"])
    /\ RefsPlus(e, -1)
    /\ work' = [work EXCEPT ![e].pc = "fences", ![e].fence = None,
                            ![e].queued = @ \/ ep[e].fence_refcount = 1]
    /\ UNCHANGED <<plan, alive, chan, done, called, handler, fence, call, req, marks>>

\* Mutant: fences do not keep an endpoint.
can_uninit_always(e) == TRUE

\* Windows, the other reason to keep an endpoint, are not modelled.
scif_rma_ep_can_uninit(e) == ep[e].fence_refcount = 0

scif_cleanup_zombie_epd(e) ==
    /\ work[e].pc = "zombies"
    /\ ep' = IF ep[e].closer \in {"zombie", "late"} /\ scif_rma_ep_can_uninit(e)
             THEN [ep EXCEPT ![e].state = "FREED"] ELSE ep
    /\ work' = [work EXCEPT ![e].pc = "idle"]
    /\ UNCHANGED <<plan, alive, chan, done, called, wire, handler, fence, call, req, marks>>

-----------------------------------------------------------------------------
(* Closing, and the end of a node *)

\* scif_close() up to the wait for the acknowledgement.  An endpoint that the
\* peer has disconnected has nothing to wait for.
scif_close(e) ==
    /\ e \in plan.close /\ plan' = [plan EXCEPT !.close = @ \ {e}]
    /\ ep[e].closer = "open"
    /\ \A t \in Threads : EndOf[t] = e => call[t].pc = "idle"
    /\ ep' = [ep EXCEPT ![e].closer = "closing",
                        ![e].state = IF @ = "CONNECTED" THEN "CLOSING" ELSE @]
    /\ IF ep[e].state = "CONNECTED" THEN scif_nodeqp_send(e, Message("DISCNCT")) ELSE UNCHANGED wire
    /\ UNCHANGED <<alive, chan, done, called, handler, fence, work, call, req, marks>>

\* The rest of scif_close(), with scif_add_epd_to_zombie_list(), when the
\* acknowledgement is there or its wait has timed out.
scif_close_end(e) ==
    /\ ep[e].closer = "closing"
    /\ ep' = [ep EXCEPT ![e].closer = IF ep[e].state = "CLOSING" THEN "late" ELSE "zombie",
                        ![e].state = "ZOMBIE"]
    /\ schedule_work(e)
    /\ UNCHANGED <<plan, alive, chan, done, called, wire, handler, fence, call, req, marks>>

\* The node of the peer is removed: scif_invalidate_ep() disconnects the
\* endpoint, and nothing can be sent any more.
NodeGone(e) ==
    /\ plan.gone /\ alive[e]
    /\ alive' = [alive EXCEPT ![e] = FALSE]
    /\ ep' = IF ep[e].state = "CONNECTED" THEN [ep EXCEPT ![e].state = "DISCONNECTED"] ELSE ep
    /\ UNCHANGED <<plan, chan, done, called, wire, handler, fence, work, call, req, marks>>

-----------------------------------------------------------------------------

Thread(t) ==
    \/ scif_rma_copy(t) \/ scif_fence_mark_peer(t) \/ scif_fence_mark_self(t)
    \/ \E m \in marks[EndOf[t]] : scif_fence_wait(t, m)
    \/ scif_fence_signal(t)

Going(t) ==
    \/ scif_fence_mark_ref(t) \/ _scif_fence_wait(t) \/ scif_prog_signal(t)
    \/ fence_answered(t) \/ signal_answered(t) \/ fence_timeout(t)

Receive(e) ==
    \/ scif_recv_mark(e) \/ scif_recv_wait(e)
    \/ scif_recv_sig_local(e) \/ scif_recv_sig_remote(e)
    \/ scif_recv_mark_resp(e) \/ scif_recv_wait_resp(e) \/ scif_recv_sig_resp(e)
    \/ scif_discnct(e) \/ scif_discnt_ack(e) \/ lost_message(e)

Misc(e) ==
    \/ scif_misc_handler(e) \/ scif_rma_handle_remote_fences(e)
    \/ remote_fence_waited(e) \/ scif_cleanup_zombie_epd(e)

Next ==
    \/ \E t \in Threads : Thread(t) \/ Going(t)
    \/ \E e \in Ends : \/ Receive(e) \/ recv_mark_ref(e) \/ Engine(e) \/ Callback(e)
                       \/ Misc(e) \/ scif_close(e) \/ scif_close_end(e) \/ NodeGone(e)

Spec == Init /\ [][Next]_vars

\* The steps that happen in the end: threads and work queues are scheduled and
\* the engine works; messages are handled while the node is there, and both
\* ends of a lost link notice it.
Progress ==
    \/ \E t \in Threads : call[t].pc # "idle" /\ Going(t)
    \/ \E e \in Ends :
          \/ alive[e] /\ Receive(e)
          \/ recv_mark_ref(e) \/ Engine(e) \/ Callback(e) \/ Misc(e)
          \/ ~alive[Peer(e)] /\ NodeGone(e)

-----------------------------------------------------------------------------
(* Properties *)

\* The end whose copies a call is about.
Target(t) == IF call[t].peer THEN Peer(EndOf[t]) ELSE EndOf[t]

Succeeded(t, op) == call[t].pc = "idle" /\ call[t].op = op /\ call[t].res = "ok"

\* scif_fence_wait() succeeds only when everything that was submitted, at the
\* end the fence is about, before its mark was asked for is completed.
WaitedDone ==
    \A t \in Threads : Succeeded(t, "wait") => done[Target(t)] >= call[t].covers

\* scif_fence_signal() succeeds only when each signal it was asked for is in
\* the channel it was asked for, behind all that was submitted there before.
SignalsQueued ==
    \A t \in Threads : Succeeded(t, "signal") =>
        \A f \in call[t].flags : \E i \in DOMAIN chan[Target(t)] :
            i > call[t].covers /\ chan[Target(t)][i] = Signal(t, call[t].n, f)

Gone == \E e \in Ends : ~alive[e]

\* While the nodes are there an answer finds the request it names: the
\* handlers write through the address that the message carries.
AnswerFindsRequest ==
    \A e \in Ends : ~Gone /\ wire[e] # <<>> =>
        LET m == Head(wire[e]) IN m.uop \in Acks \cup Nacks => Finds(m)

\* An endpoint is not freed while misc_work has a fence of its peer to answer.
\* While the nodes are there, and unless its close has given up waiting for
\* SCIF_DISCNT_ACK, it is not freed either before the last message for it is
\* handled and the last callback of a mark run.
EndpointFound ==
    \A e \in Ends : ep[e].state = "FREED" =>
        /\ fence[e] = <<>> /\ work[e].fence = None
        /\ ~Gone /\ ep[e].closer = "zombie" =>
             /\ \A i \in DOMAIN wire[e] : wire[e][i].uop = "DISCNCT"
             /\ handler[e] = None
             /\ \A i \in called[e] + 1 .. Len(chan[e]) : chan[e][i] # Mark

\* Every call returns, also when the peer closes or its node goes away while
\* it is waiting: the system does not come to rest with a call under way,
\* unless it is for a peer whose close has given up waiting and which may have
\* been freed with the request unanswered.
\* (Behaviours are finite: each call is made, each message taken and each
\* descriptor completed once, so a call that never returned would end in such
\* a state.)
CallReturns ==
    (\E t \in Threads : call[t].pc # "idle" /\ ep[Peer(EndOf[t])].closer # "late") =>
        ENABLED Progress
=============================================================================
