------------------------------- MODULE ScifNode -------------------------------
(***************************************************************************)
(* The SCIF network of the management node (the host) and its cards: the   *)
(* peer-to-peer set-up, the removal of a node by either side and its       *)
(* acknowledgements, in scif_nm.c, scif_nodeqp.c, scif_peer_bus.c and      *)
(* scif_main.c.                                                            *)
(*                                                                         *)
(* A thread is a call stack of frames; the head frame runs.  The threads   *)
(* are the ordered work queue of each queue pair (and, at the host, of the *)
(* loopback), the remove callbacks of the SCIF hardware devices, and       *)
(* callers of scif_connect() and scif_get_node_info().  A message is       *)
(* [uop, src, dst, node] as far as the code looks at it.  Waits for        *)
(* SCIF_NODE_ALIVE_TIMEOUT may expire at any time.  Allocations do not     *)
(* fail, a queue pair is never full, and a pair is set up once.            *)
(***************************************************************************)
EXTENDS Integers, FiniteSets, Sequences, SequencesExt

CONSTANTS Cards,      \* the cards, 1 .. their number
          Scenarios,  \* how behaviours begin, and the calls made in them
          None

ASSUME CardsAssumption == IsFiniteSet(Cards) /\ Cards = 1 .. Cardinality(Cards)

Host == 0             \* SCIF_MGMT_NODE
Nodes == {Host} \cup Cards

\* A call is <<kind, n, r>>: a thread of node n about its remote device r.
Calls == {<<"remove", Host, c>> : c \in Cards} \cup
         {<<"remove", c, Host>> : c \in Cards} \cup
         {<<"info", c, Host>> : c \in Cards} \cup
         {<<"connect", n, r>> : n, r \in Nodes}

\* The first so many cards are there; the network is up, or every SCIF_INIT
\* is under way.
ASSUME ScenariosAssumption ==
    Scenarios \subseteq [cards : Cards, up : BOOLEAN, calls : SUBSET Calls]

\* Work queues: the intr_wq of each remote device, and the loopback queue.
Queues == {<<"intr", n, r>> : n, r \in Nodes}
Threads == Queues \cup UNION {s.calls : s \in Scenarios}

Uops == {"INIT", "EXIT", "EXIT_ACK", "NODE_ADD", "NODE_ADD_ACK",
         "NODE_REMOVE", "NODE_REMOVE_ACK", "CNCT_REQ", "CNCT_REJ",
         "GET_NODE_INFO"}

Msg(uop, src, dst, node) == [uop |-> uop, src |-> src, dst |-> dst, node |-> node]

VARIABLES dev,      \* dev[n][r]: the scif_dev of r at node n
          wire,     \* wire[n][r]: messages n has written for r, unread
          p2p,      \* pairs of cards with p2p mappings at the host
          maxid,    \* scif_info.maxid of each node
          cardExit, \* scif_info.card_initiated_exit of each node
          bus,      \* holder of scif_peer_bus_mutex at each node
          loopb,    \* loopb[n]: devices behind g_loopb_cnt
          stack,    \* stack[t]: call stack of thread t
          answered, \* connects and info calls with a reply
          todo      \* calls still to be made

vars == <<dev, wire, p2p, maxid, cardExit, bus, loopb, stack, answered, todo>>

-----------------------------------------------------------------------------
(* State of a device *)

\* qp: "none" (qpairs is NULL), "local" (inbound side only), "mapped" (both
\* sides) or "unmapped" (after scif_cleanup_qp(), the memory still there).
\* refs counts references on the peer device; clean: scif_cleanup_scifdev()
\* has invalidated the endpoints; held: a connect held the peer device when
\* it was unregistered.
scif_dev == [peer : BOOLEAN, refs : Nat, lock : Threads \cup {None},
             qp : {"none", "local", "mapped", "unmapped"},
             wq : BOOLEAN, sdev : BOOLEAN,
             exit : {"OP_IDLE", "OP_IN_PROGRESS", "OP_COMPLETED"},
             node_remove_ack_pending : BOOLEAN, exit_ack_pending : BOOLEAN,
             disconn_rescnt : Nat, clean : BOOLEAN, held : BOOLEAN]

\* What scif_setup_scifdev() leaves.
unused_dev == [peer |-> FALSE, refs |-> 0, lock |-> None, qp |-> "none",
               wq |-> FALSE, sdev |-> FALSE, exit |-> "OP_IDLE",
               node_remove_ack_pending |-> FALSE, exit_ack_pending |-> FALSE,
               disconn_rescnt |-> 0, clean |-> FALSE, held |-> FALSE]

\* What scif_probe() and scif_qp_setup_handler() leave for a hardware device.
probed_dev == [unused_dev EXCEPT !.qp = "mapped", !.wq = TRUE, !.sdev = TRUE]

\* What scif_setup_loopback_qp() leaves.
loopb_dev == [unused_dev EXCEPT !.peer = TRUE, !.refs = 1, !.qp = "mapped",
                                !.wq = TRUE, !.sdev = TRUE]

scifdev_is_p2p(n, r) == n # Host /\ r # Host /\ r # n

-----------------------------------------------------------------------------
(* Frames of the call stacks *)

Frame(at, node) == [at |-> at, node |-> node, cnt |-> 0, mgmt |-> FALSE]

At(t, at) == stack[t] # <<>> /\ Head(stack[t]).at = at
Arg(t) == Head(stack[t]).node

Goto(t, at) == stack' = [stack EXCEPT ![t] = <<[Head(@) EXCEPT !.at = at]>> \o Tail(@)]
Return(t) == stack' = [stack EXCEPT ![t] = Tail(@)]
\* Frames f take the place of the head frame.
Continue(t, f) == stack' = [stack EXCEPT ![t] = f \o Tail(@)]
Start(t, f) == stack' = [stack EXCEPT ![t] = <<f>>]

\* scif_stop() removes all other nodes, from maxid down to the host.
scif_stop(n) ==
    LET order == SetToSortSeq(0 .. maxid[n] \ {n}, >)
    IN  [i \in DOMAIN order |-> Frame("remove_node", order[i])]

\* scif_send_acks() for device r, if there is something to send.
scif_send_acks(n, r) ==
    IF dev[n][r].node_remove_ack_pending \/ dev[n][r].exit_ack_pending
    THEN <<Frame("remove_ack", r)>>
    ELSE <<>>

-----------------------------------------------------------------------------
(* Sending *)

\* The message goes to the memory of the receiver, and is lost if that has
\* been freed.
Written(w, n, r, m) ==
    IF dev[r][n].qp = "none" THEN w ELSE [w EXCEPT ![n][r] = Append(@, m)]

\* _scif_nodeqp_send() succeeds.
_scif_nodeqp_send(n, r) == n = r \/ dev[n][r].qp # "none"

\* scif_nodeqp_send() of a message above SCIF_EXIT_ACK succeeds.
scif_nodeqp_send(n, r) ==
    dev[n][r].exit = "OP_IDLE" /\ dev[n][r].peer /\ _scif_nodeqp_send(n, r)

\* The wires w after node n has sent message m to r.
Sent(w, n, r, m) == IF scif_nodeqp_send(n, r) THEN Written(w, n, r, m) ELSE w

-----------------------------------------------------------------------------
(* Messages: scif_nodeqp_intrhandler() on the work queue of device r *)

\* Node n takes message uop of r from the ring, its queue being idle.
Takes(n, r, uop) ==
    /\ wire[r][n] # <<>> /\ Head(wire[r][n]).uop = uop
    /\ dev[n][r].wq
    /\ stack[<<"intr", n, r>>] = <<>>

Taken(n, r) == [wire EXCEPT ![r][n] = Tail(@)]

\* scif_peer_register_device()
Registered(d) == [d EXCEPT !.peer = TRUE, !.refs = @ + 1]
MaxWith(n, r) == [maxid EXCEPT ![n] = IF r > @ THEN r ELSE @]

\* The pairs that scif_p2p_setup() connects once device r is alive: all, if
\* every card up to maxid is, save those it has connected before.
NewPairs(r) ==
    LET alive == {c \in Cards : c = r \/ dev[Host][c].peer}
        ids == 1 .. MaxWith(Host, r)[Host]
    IN  IF ids \subseteq alive
        THEN {pr \in SUBSET ids : Cardinality(pr) = 2} \ p2p
        ELSE {}

\* Mutant: only the larger node of a pair is told.
node_connect_one(pr, c) ==
    /\ c \in pr /\ \A k \in pr : k <= c
    /\ dev[Host][c].exit = "OP_IDLE" /\ _scif_nodeqp_send(Host, c)

\* Within a pair scif_node_connect() sends to the larger node first, and to
\* the other only if that succeeds.
scif_node_connect(pr, c) ==
    LET ok(k) == dev[Host][k].exit = "OP_IDLE" /\ _scif_nodeqp_send(Host, k)
    IN  c \in pr /\ ok(c) /\ \A k \in pr : k > c => ok(k)

NodeAdds(r, c) ==
    LET others == {k \in Cards : \E pr \in NewPairs(r) :
                                    k \in pr \ {c} /\ scif_node_connect(pr, c)}
        order == SetToSortSeq(others, <)
    IN  [i \in DOMAIN order |-> Msg("NODE_ADD", order[i], c, c)]

\* SCIF_INIT: the peer is there; the host connects the cards.
scif_init(n, r) ==
    /\ Takes(n, r, "INIT")
    /\ dev[n][r].lock = None
    /\ dev' = [dev EXCEPT ![n][r] = Registered(@)]
    /\ maxid' = MaxWith(n, r)
    /\ IF n = Host
       THEN /\ p2p' = p2p \cup NewPairs(r)
            /\ wire' = [Taken(n, r) EXCEPT
                          ![Host] = [c \in Nodes |-> IF c \in Cards
                                                     THEN @[c] \o NodeAdds(r, c)
                                                     ELSE @[c]]]
       ELSE wire' = Taken(n, r) /\ UNCHANGED p2p
    /\ UNCHANGED <<cardExit, bus, loopb, stack, answered, todo>>

\* SCIF_EXIT: the host disconnects the card, a card stops altogether.
scif_exit(n, r) ==
    /\ Takes(n, r, "EXIT")
    /\ dev' = [dev EXCEPT ![n][r].exit_ack_pending = TRUE]
    /\ wire' = Taken(n, r)
    /\ stack' = [stack EXCEPT ![<<"intr", n, r>>] =
                    IF n = Host THEN <<Frame("disconnect", r)>> ELSE scif_stop(n)]
    /\ UNCHANGED <<p2p, maxid, cardExit, bus, loopb, answered, todo>>

\* The handler stops here without publishing its read pointer; the message is
\* taken all the same.
scif_exit_ack(n, r) ==
    /\ Takes(n, r, "EXIT_ACK")
    /\ dev' = [dev EXCEPT ![n][r].exit = "OP_COMPLETED"]
    /\ wire' = Taken(n, r)
    /\ UNCHANGED <<p2p, maxid, cardExit, bus, loopb, stack, answered, todo>>

\* SCIF_NODE_ADD: card n sets up its half of the pair to the new card.
scif_node_add(n) ==
    /\ Takes(n, Host, "NODE_ADD")
    /\ LET new == Head(wire[Host][n]).src
       IN  /\ dev' = [dev EXCEPT ![n][new].sdev = TRUE, ![n][new].wq = TRUE,
                                 ![n][new].qp = "local"]
           /\ wire' = Sent(Taken(n, Host), n, Host, Msg("NODE_ADD_ACK", n, new, n))
    /\ UNCHANGED <<p2p, maxid, cardExit, bus, loopb, stack, answered, todo>>

\* SCIF_NODE_ADD_ACK: the host forwards it to the other card ...
node_add_ack_forward(r) ==
    /\ Takes(Host, r, "NODE_ADD_ACK")
    /\ LET m == Head(wire[r][Host])
       IN  wire' = Sent(Taken(Host, r), Host, m.dst, m)
    /\ UNCHANGED <<dev, p2p, maxid, cardExit, bus, loopb, stack, answered, todo>>

\* ... which maps the queue pair of the sender and registers it.
scif_node_add_ack(n) ==
    /\ Takes(n, Host, "NODE_ADD_ACK")
    /\ LET new == Head(wire[Host][n]).src
       IN  /\ dev[n][new].lock = None
           /\ dev' = [dev EXCEPT ![n][new] = Registered([@ EXCEPT !.sdev = TRUE,
                                                                  !.qp = "mapped"])]
           /\ maxid' = MaxWith(n, new)
    /\ wire' = Taken(n, Host)
    /\ UNCHANGED <<p2p, cardExit, bus, loopb, stack, answered, todo>>

\* SCIF_NODE_REMOVE, from the host to a card or to itself.
scif_node_remove(n) ==
    /\ Takes(n, Host, "NODE_REMOVE")
    /\ LET gone == Head(wire[Host][n]).node
       IN  /\ dev' = [dev EXCEPT ![n][gone].node_remove_ack_pending = TRUE]
           /\ Start(<<"intr", n, Host>>, Frame("remove_node", gone))
    /\ wire' = Taken(n, Host)
    /\ UNCHANGED <<p2p, maxid, cardExit, bus, loopb, answered, todo>>

scif_node_remove_ack(r) ==
    /\ Takes(Host, r, "NODE_REMOVE_ACK")
    /\ dev' = [dev EXCEPT ![Host][Head(wire[r][Host]).node].disconn_rescnt = @ + 1]
    /\ wire' = Taken(Host, r)
    /\ UNCHANGED <<p2p, maxid, cardExit, bus, loopb, stack, answered, todo>>

\* SCIF_CNCT_REQ finds no listener; SCIF_CNCT_REJ ends the connect.
scif_cnctreq(n, r) ==
    /\ Takes(n, r, "CNCT_REQ")
    /\ wire' = Taken(n, r)
    /\ Start(<<"intr", n, r>>, Frame("reject_get", r))
    /\ UNCHANGED <<dev, p2p, maxid, cardExit, bus, loopb, answered, todo>>

scif_cnctrej(n, r) ==
    /\ Takes(n, r, "CNCT_REJ")
    /\ wire' = Taken(n, r)
    /\ answered' = answered \cup {<<"connect", n, r>>}
    /\ UNCHANGED <<dev, p2p, maxid, cardExit, bus, loopb, stack, todo>>

\* SCIF_GET_NODE_INFO: the host answers, the answer wakes the caller.
scif_get_node_info_resp(n, r) ==
    /\ Takes(n, r, "GET_NODE_INFO")
    /\ IF n = Host
       THEN /\ wire' = Sent(Taken(n, r), Host, r, Msg("GET_NODE_INFO", Host, r, maxid[Host]))
            /\ UNCHANGED <<maxid, answered>>
       ELSE /\ wire' = Taken(n, r)
            /\ answered' = answered \cup {<<"info", n, r>>}
            /\ maxid' = [maxid EXCEPT ![n] = Head(wire[r][n]).node]
    /\ UNCHANGED <<dev, p2p, cardExit, bus, loopb, stack, todo>>

-----------------------------------------------------------------------------
\* The waits of the removal are without a limit.
no_timeout == FALSE

\* A wait of SCIF_NODE_ALIVE_TIMEOUT may expire at any time.
Timeout == TRUE

(* scif_disconnect_node(), at the host, of node Arg(t) *)

\* Tell the other cards; msg_cnt of the sends succeed.
disconnect_send(t) ==
    /\ At(t, "disconnect")
    /\ LET gone == Arg(t)
           told == {c \in 1 .. maxid[Host] : c # gone /\ scif_nodeqp_send(Host, c)}
           m(c) == Msg("NODE_REMOVE", Host, c, gone)
       IN  /\ dev' = [dev EXCEPT ![Host][gone].disconn_rescnt = 0]
           /\ wire' = [wire EXCEPT ![Host] = [c \in Nodes |->
                          IF c \in told THEN Written(wire, Host, c, m(c))[Host][c]
                                        ELSE @[c]]]
           /\ stack' = [stack EXCEPT ![t] =
                 <<[Head(@) EXCEPT !.at = "wait_cards", !.cnt = Cardinality(told)]>>
                 \o Tail(@)]
    /\ UNCHANGED <<p2p, maxid, cardExit, bus, loopb, answered, todo>>

\* When the cards do not answer in time, the node is left as it is.
wait_cards_give_up(t) ==
    /\ At(t, "wait_cards")
    /\ IF dev[Host][Arg(t)].disconn_rescnt = Head(stack[t]).cnt
       THEN Continue(t, <<Frame("disconnect_self", Arg(t))>>)
       ELSE Timeout /\ Return(t)
    /\ UNCHANGED <<dev, wire, p2p, maxid, cardExit, bus, loopb, answered, todo>>

wait_cards(t) ==
    /\ At(t, "wait_cards")
    /\ \/ dev[Host][Arg(t)].disconn_rescnt = Head(stack[t]).cnt
       \/ Timeout
    /\ Continue(t, (IF Head(stack[t]).mgmt /\ dev[Host][Arg(t)].peer
                    THEN <<Frame("send_exit", Arg(t))>> ELSE <<>>)
                   \o <<Frame("disconnect_self", Arg(t))>>)
    /\ UNCHANGED <<dev, wire, p2p, maxid, cardExit, bus, loopb, answered, todo>>

disconnect_self(t) ==
    /\ At(t, "disconnect_self")
    /\ dev' = [dev EXCEPT ![Host][Arg(t)].disconn_rescnt = 0]
    /\ wire' = Sent(wire, Host, Host, Msg("NODE_REMOVE", Host, Host, Arg(t)))
    /\ IF scif_nodeqp_send(Host, Host) THEN Goto(t, "wait_self") ELSE Return(t)
    /\ UNCHANGED <<p2p, maxid, cardExit, bus, loopb, answered, todo>>

wait_self(t) ==
    /\ At(t, "wait_self")
    /\ \/ dev[Host][Arg(t)].disconn_rescnt = 1
       \/ Timeout
    /\ Return(t)
    /\ UNCHANGED <<dev, wire, p2p, maxid, cardExit, bus, loopb, answered, todo>>

-----------------------------------------------------------------------------
(* scif_send_exit() from the node of thread t to node Arg(t) *)

send_exit(t) ==
    LET n == t[2]
        r == Arg(t)
    IN  /\ At(t, "send_exit")
        /\ IF _scif_nodeqp_send(n, r)
           THEN /\ dev' = [dev EXCEPT ![n][r].exit = "OP_IN_PROGRESS"]
                /\ wire' = Written(wire, n, r, Msg("EXIT", n, r, r))
                /\ Goto(t, "wait_exit_ack")
           ELSE /\ dev' = [dev EXCEPT ![n][r].exit = "OP_IDLE"]
                /\ Return(t)
                /\ UNCHANGED wire
        /\ UNCHANGED <<p2p, maxid, cardExit, bus, loopb, answered, todo>>

wait_exit_ack(t) ==
    /\ At(t, "wait_exit_ack")
    /\ \/ dev[t[2]][Arg(t)].exit = "OP_COMPLETED"
       \/ Timeout
    /\ dev' = [dev EXCEPT ![t[2]][Arg(t)].exit = "OP_IDLE"]
    /\ Return(t)
    /\ UNCHANGED <<wire, p2p, maxid, cardExit, bus, loopb, answered, todo>>

-----------------------------------------------------------------------------
(* scif_handle_remove_node() *)

\* A connect of node n to r is under way.
Connecting(n, r) == \E t \in Threads : t = <<"connect", n, r>> /\ stack[t] # <<>>

\* scif_peer_unregister_device() keeps the lock of the device, and the mutex
\* of the bus, over device_unregister().  Without a peer device nothing
\* happens, and no acknowledgement is sent.
unregister_device(t) ==
    LET n == t[2]
        r == Arg(t)
    IN  /\ At(t, "remove_node")
        /\ dev[n][r].lock = None
        /\ IF dev[n][r].peer
           THEN /\ dev' = [dev EXCEPT ![n][r].lock = t, ![n][r].peer = FALSE,
                                      ![n][r].held = Connecting(n, r)]
                /\ Goto(t, "unregister_bus")
           ELSE Return(t) /\ UNCHANGED dev
        /\ UNCHANGED <<wire, p2p, maxid, cardExit, bus, loopb, answered, todo>>

\* The acknowledgements go out before the endpoints are invalidated.
cleanup_acks_first(n, r) ==
    IF ~dev[n][r].sdev THEN <<>>
    ELSE scif_send_acks(n, r) \o <<Frame("cleanup_ep", r)>>

\* scif_cleanup_scifdev(), the release of device r, from where it does
\* something: nothing is left to do once scif_remove() has cleared sdev.
Cleanup(n, r) ==
    IF ~dev[n][r].sdev THEN <<>>
    ELSE IF scifdev_is_p2p(n, r) THEN <<Frame("cleanup_wq", r)>>
    ELSE <<Frame("cleanup_ep", r)>>

\* put_device() on device r of node n by t, which goes on with frames f.
PutDevice(t, n, r, f) ==
    /\ dev' = [dev EXCEPT ![n][r].refs = @ - 1]
    /\ Continue(t, (IF dev[n][r].refs = 1 THEN Cleanup(n, r) ELSE <<>>) \o f)

unregister_bus(t) ==
    LET n == t[2]
        r == Arg(t)
    IN  /\ At(t, "unregister_bus")
        /\ bus[n] = None
        /\ bus' = [bus EXCEPT ![n] = t]
        /\ PutDevice(t, n, r, <<Frame("unregister_unlock", r)>>)
        /\ UNCHANGED <<wire, p2p, maxid, cardExit, loopb, answered, todo>>

unregister_unlock(t) ==
    LET n == t[2]
        r == Arg(t)
    IN  /\ At(t, "unregister_unlock")
        /\ bus' = [bus EXCEPT ![n] = None]
        /\ dev' = [dev EXCEPT ![n][r].lock = None]
        /\ Continue(t, scif_send_acks(n, r))
        /\ UNCHANGED <<wire, p2p, maxid, cardExit, loopb, answered, todo>>

-----------------------------------------------------------------------------
(* scif_send_acks() for device Arg(t) *)

\* Thread t, with the devices d, goes on to the acknowledgement of an exit.
ExitAck(t, d) ==
    LET n == t[2]
        r == Arg(t)
    IN  /\ dev' = d
        /\ IF dev[n][r].exit_ack_pending
           THEN /\ wire' = IF _scif_nodeqp_send(n, r)
                           THEN Written(wire, n, r, Msg("EXIT_ACK", n, r, r))
                           ELSE wire
                /\ Goto(t, "exit_acked")
           ELSE Return(t) /\ UNCHANGED wire

remove_ack(t) ==
    LET n == t[2]
        r == Arg(t)
    IN  /\ At(t, "remove_ack")
        /\ \/ /\ dev[n][r].node_remove_ack_pending
              /\ wire' = Sent(wire, n, Host, Msg("NODE_REMOVE_ACK", n, Host, r))
              /\ Goto(t, "remove_acked")
              /\ UNCHANGED dev
           \/ ~dev[n][r].node_remove_ack_pending /\ ExitAck(t, dev)
        /\ UNCHANGED <<p2p, maxid, cardExit, bus, loopb, answered, todo>>

remove_acked(t) ==
    /\ At(t, "remove_acked")
    /\ ExitAck(t, [dev EXCEPT ![t[2]][Arg(t)].node_remove_ack_pending = FALSE])
    /\ UNCHANGED <<p2p, maxid, cardExit, bus, loopb, answered, todo>>

exit_acked(t) ==
    /\ At(t, "exit_acked")
    /\ dev' = [dev EXCEPT ![t[2]][Arg(t)].exit_ack_pending = FALSE]
    /\ Return(t)
    /\ UNCHANGED <<wire, p2p, maxid, cardExit, bus, loopb, answered, todo>>

-----------------------------------------------------------------------------
(* scif_cleanup_scifdev(): the release of peer device Arg(t), by whoever     *)
(* drops the last reference                                                  *)

\* scif_destroy_intr_wq() waits for the handler that is running.
cleanup_wq(t) ==
    LET n == t[2]
        r == Arg(t)
    IN  /\ At(t, "cleanup_wq")
        /\ stack[<<"intr", n, r>>] = <<>>
        /\ dev' = [dev EXCEPT ![n][r].wq = FALSE]
        /\ Goto(t, "cleanup_ep")
        /\ UNCHANGED <<wire, p2p, maxid, cardExit, bus, loopb, answered, todo>>

\* Only the mappings in the list of the node itself are freed, so the pair stays.
destroy_p2p_own(n, r) == p2p

\* The mappings of the pair are in the lists of both cards.
scif_destroy_p2p(n, r) == IF n = Host THEN {pr \in p2p : r \notin pr} ELSE p2p

\* scif_destroy_p2p(), scif_invalidate_ep(), and the acknowledgements.
cleanup_ep(t) ==
    LET n == t[2]
        r == Arg(t)
    IN  /\ At(t, "cleanup_ep")
        /\ dev' = [dev EXCEPT ![n][r].clean = TRUE]
        /\ p2p' = scif_destroy_p2p(n, r)
        /\ Continue(t, scif_send_acks(n, r) \o <<Frame("cleanup_exit", r)>>)
        /\ UNCHANGED <<wire, maxid, cardExit, bus, loopb, answered, todo>>

\* scif_free_qp() of node n for r takes the unread messages with it.
Freed(n, r) == [wire EXCEPT ![r][n] = <<>>]

scif_cleanup_qp(n, r) ==
    /\ dev' = [dev EXCEPT ![n][r].qp =
                  IF @ = "none" \/ scifdev_is_p2p(n, r) THEN "none" ELSE "unmapped"]
    /\ wire' = IF scifdev_is_p2p(n, r) THEN Freed(n, r) ELSE wire

\* A card that leaves of its own tells the host last.
cleanup_exit(t) ==
    /\ At(t, "cleanup_exit")
    /\ IF Arg(t) = Host /\ cardExit[t[2]]
       THEN /\ Continue(t, <<Frame("send_exit", Host), Frame("cleanup_exited", Host)>>)
            /\ UNCHANGED <<dev, wire>>
       ELSE scif_cleanup_qp(t[2], Arg(t)) /\ Return(t)
    /\ UNCHANGED <<p2p, maxid, cardExit, bus, loopb, answered, todo>>

cleanup_exited(t) ==
    /\ At(t, "cleanup_exited")
    /\ cardExit' = [cardExit EXCEPT ![t[2]] = FALSE]
    /\ scif_cleanup_qp(t[2], Arg(t))
    /\ Return(t)
    /\ UNCHANGED <<p2p, maxid, bus, loopb, answered, todo>>

-----------------------------------------------------------------------------
(* scif_remove() *)

Called(kind, n, r) == <<kind, n, r>> \in todo /\ todo' = todo \ {<<kind, n, r>>}

scif_remove(n, r) ==
    /\ Called("remove", n, r)
    /\ cardExit' = [cardExit EXCEPT ![n] = n # Host]
    /\ stack' = [stack EXCEPT ![<<"remove", n, r>>] =
          (IF n = Host THEN <<[Frame("disconnect", r) EXCEPT !.mgmt = TRUE]>>
                       ELSE scif_stop(n)) \o <<Frame("remove_loopb", r)>>]
    /\ UNCHANGED <<dev, wire, p2p, maxid, bus, loopb, answered>>

\* The last device takes the loopback with it, whose queue is drained.  (At
\* a card nothing modelled goes through it.)
remove_loopb(t) ==
    LET n == t[2]
        left == loopb[n] \ {Arg(t)}
    IN  /\ At(t, "remove_loopb")
        /\ loopb' = [loopb EXCEPT ![n] = left]
        /\ IF left = {}
           THEN bus[n] = None /\ dev' = [dev EXCEPT ![n][n].peer = FALSE]
           ELSE UNCHANGED dev
        /\ Goto(t, IF left = {} /\ n = Host THEN "remove_drain" ELSE "remove_free")
        /\ UNCHANGED <<wire, p2p, maxid, cardExit, bus, answered, todo>>

remove_drain(t) ==
    LET n == t[2]
    IN  /\ At(t, "remove_drain")
        /\ wire[n][n] = <<>> /\ stack[<<"intr", n, n>>] = <<>>
        /\ Goto(t, "remove_free")
        /\ UNCHANGED <<dev, wire, p2p, maxid, cardExit, bus, loopb, answered, todo>>

\* free_irq(), scif_destroy_intr_wq(), which waits for the handler, and
\* scif_free_qp().
remove_free(t) ==
    LET n == t[2]
        r == Arg(t)
    IN  /\ At(t, "remove_free")
        /\ stack[<<"intr", n, r>>] = <<>>
        /\ dev' = [dev EXCEPT ![n][r].wq = FALSE, ![n][r].qp = "none",
                              ![n][r].sdev = FALSE]
        /\ wire' = Freed(n, r)
        /\ Return(t)
        /\ UNCHANGED <<p2p, maxid, cardExit, bus, loopb, answered, todo>>

-----------------------------------------------------------------------------
(* scif_connect() and the answer to it; scif_get_node_info() *)

\* The peer device is used without a reference.
connect_no_ref(n, r) ==
    /\ Called("connect", n, r)
    /\ r <= maxid[n] /\ dev[n][r].peer
    /\ Start(<<"connect", n, r>>, Frame("connect_send", r))
    /\ UNCHANGED <<dev, wire, p2p, maxid, cardExit, bus, loopb, answered>>

\* scif_conn_func() keeps a reference on the peer device until it returns.
scif_connect(n, r) ==
    /\ Called("connect", n, r)
    /\ r <= maxid[n] /\ dev[n][r].peer
    /\ dev' = [dev EXCEPT ![n][r].refs = @ + 1]
    /\ Start(<<"connect", n, r>>, Frame("connect_send", r))
    /\ UNCHANGED <<wire, p2p, maxid, cardExit, bus, loopb, answered>>

connect_send(t) ==
    LET n == t[2]
        r == Arg(t)
    IN  /\ At(t, "connect_send")
        /\ IF _scif_nodeqp_send(n, r)
           THEN /\ wire' = Written(wire, n, r, Msg("CNCT_REQ", n, r, r))
                /\ Goto(t, "connect_wait")
           ELSE Goto(t, "put_peer_dev") /\ UNCHANGED wire
        /\ UNCHANGED <<dev, p2p, maxid, cardExit, bus, loopb, answered, todo>>

connect_wait(t) ==
    /\ At(t, "connect_wait")
    /\ \/ t \in answered
       \/ Timeout
    /\ Goto(t, "put_peer_dev")
    /\ UNCHANGED <<dev, wire, p2p, maxid, cardExit, bus, loopb, answered, todo>>

\* The reference is put, but was never taken.
reject_no_get(t) ==
    /\ At(t, "reject_get")
    /\ IF dev[t[2]][Arg(t)].peer THEN Goto(t, "reject_send") ELSE Return(t)
    /\ UNCHANGED <<dev, wire, p2p, maxid, cardExit, bus, loopb, answered, todo>>

\* scif_cnctreq() answers through scif_nodeqp_send().
reject_get(t) ==
    LET n == t[2]
        r == Arg(t)
    IN  /\ At(t, "reject_get")
        /\ IF dev[n][r].exit = "OP_IDLE" /\ dev[n][r].peer
           THEN /\ dev' = [dev EXCEPT ![n][r].refs = @ + 1]
                /\ Goto(t, "reject_send")
           ELSE Return(t) /\ UNCHANGED dev
        /\ UNCHANGED <<wire, p2p, maxid, cardExit, bus, loopb, answered, todo>>

reject_send(t) ==
    LET n == t[2]
        r == Arg(t)
    IN  /\ At(t, "reject_send")
        /\ wire' = IF _scif_nodeqp_send(n, r)
                   THEN Written(wire, n, r, Msg("CNCT_REJ", n, r, r))
                   ELSE wire
        /\ Goto(t, "put_peer_dev")
        /\ UNCHANGED <<dev, p2p, maxid, cardExit, bus, loopb, answered, todo>>

scif_put_peer_dev(t) ==
    LET n == t[2]
        r == Arg(t)
    IN  /\ At(t, "put_peer_dev")
        /\ PutDevice(t, n, r, <<>>)
        /\ UNCHANGED <<wire, p2p, maxid, cardExit, bus, loopb, answered, todo>>

\* Waits for the answer without a limit.
scif_get_node_info(n) ==
    /\ Called("info", n, Host)
    /\ scif_nodeqp_send(n, Host)
    /\ wire' = Sent(wire, n, Host, Msg("GET_NODE_INFO", n, Host, n))
    /\ Start(<<"info", n, Host>>, Frame("info_wait", Host))
    /\ UNCHANGED <<dev, p2p, maxid, cardExit, bus, loopb, answered>>

info_wait(t) ==
    /\ At(t, "info_wait")
    /\ t \in answered
    /\ Return(t)
    /\ UNCHANGED <<dev, wire, p2p, maxid, cardExit, bus, loopb, answered, todo>>

-----------------------------------------------------------------------------

\* Devices and messages before the peers have registered, and after.
DevAtStart(n, r, s) ==
    IF n > s.cards \/ r > s.cards THEN unused_dev
    ELSE IF n = r THEN loopb_dev
    ELSE IF s.up THEN Registered(probed_dev)
    ELSE IF Host \in {n, r} THEN probed_dev
    ELSE unused_dev

WireAtStart(n, r, s) ==
    IF ~s.up /\ n # r /\ Host \in {n, r} /\ n <= s.cards /\ r <= s.cards
    THEN <<Msg("INIT", n, r, r)>>
    ELSE <<>>

Init ==
    /\ \E s \in Scenarios :
          /\ dev = [n \in Nodes |-> [r \in Nodes |-> DevAtStart(n, r, s)]]
          /\ wire = [n \in Nodes |-> [r \in Nodes |-> WireAtStart(n, r, s)]]
          /\ p2p = IF s.up THEN {pr \in SUBSET (1 .. s.cards) : Cardinality(pr) = 2}
                           ELSE {}
          /\ maxid = [n \in Nodes |-> IF s.up THEN s.cards ELSE n]
          /\ loopb = [n \in Nodes |-> IF n = Host THEN 1 .. s.cards ELSE {Host}]
          /\ todo = s.calls
    /\ cardExit = [n \in Nodes |-> FALSE]
    /\ bus = [n \in Nodes |-> None]
    /\ stack = [t \in Threads |-> <<>>]
    /\ answered = {}

\* The work queue of device r at node n takes a message.
Receive(n, r) ==
    \/ scif_init(n, r)
    \/ scif_exit(n, r)
    \/ scif_exit_ack(n, r)
    \/ r = Host /\ n # Host /\ scif_node_add(n)
    \/ n = Host /\ node_add_ack_forward(r)
    \/ r = Host /\ n # Host /\ scif_node_add_ack(n)
    \/ r = Host /\ scif_node_remove(n)
    \/ n = Host /\ scif_node_remove_ack(r)
    \/ scif_cnctreq(n, r)
    \/ scif_cnctrej(n, r)
    \/ scif_get_node_info_resp(n, r)

\* Thread t goes on.
Step(t) ==
    \/ disconnect_send(t) \/ wait_cards(t) \/ disconnect_self(t) \/ wait_self(t)
    \/ send_exit(t) \/ wait_exit_ack(t)
    \/ unregister_device(t) \/ unregister_bus(t) \/ unregister_unlock(t)
    \/ remove_ack(t) \/ remove_acked(t) \/ exit_acked(t)
    \/ cleanup_wq(t) \/ cleanup_ep(t) \/ cleanup_exit(t) \/ cleanup_exited(t)
    \/ remove_loopb(t) \/ remove_drain(t) \/ remove_free(t)
    \/ connect_send(t) \/ connect_wait(t)
    \/ reject_get(t) \/ reject_send(t) \/ scif_put_peer_dev(t)
    \/ info_wait(t)

Progress ==
    \/ \E n, r \in Nodes : wire[r][n] # <<>> /\ Receive(n, r)
    \/ \E t \in Threads : stack[t] # <<>> /\ Step(t)

Next ==
    \/ \E n, r \in Nodes : scif_remove(n, r) \/ scif_connect(n, r)
    \/ \E n \in Cards : scif_get_node_info(n)
    \/ Progress

Spec == Init /\ [][Next]_vars

-----------------------------------------------------------------------------
(* Properties *)

\* The devices and messages are of the kinds the code knows; a reference on a
\* peer device is never put more often than it was taken.
TypeOK ==
    /\ \A n, r \in Nodes : dev[n][r] \in scif_dev
    /\ \A n, r \in Nodes : \A i \in DOMAIN wire[n][r] : wire[n][r][i].uop \in Uops
    /\ \A pr \in p2p : pr \subseteq Cards /\ Cardinality(pr) = 2
    /\ \A n \in Nodes : bus[n] \in Threads \cup {None} /\ cardExit[n] \in BOOLEAN
    /\ maxid \in [Nodes -> Nodes]
    /\ answered \subseteq Calls /\ todo \subseteq Calls

Frames(t) == {stack[t][i] : i \in DOMAIN stack[t]}

\* A thread other than the one that unregisters is in the release of device r.
LateRelease(n, r) ==
    \E t \in Threads :
        /\ t[2] = n
        /\ \E f \in Frames(t) : f.node = r /\ f.at \in {"cleanup_wq", "cleanup_ep"}
        /\ \A f \in Frames(t) : f.at # "unregister_unlock"

\* When a node says in SCIF_EXIT_ACK or SCIF_NODE_REMOVE_ACK that it is done
\* with a leaving node, it has invalidated the endpoints connected to it
\* (scif_cleanup_scifdev()), or a caller that holds the peer device is still
\* to do so, unless scif_remove() has stopped waiting for it and taken the
\* hardware device away.
AckAfterCleanup ==
    \A n, r \in Nodes : \A i \in DOMAIN wire[n][r] :
        LET m == wire[n][r][i] IN
        m.uop \in {"EXIT_ACK", "NODE_REMOVE_ACK"} =>
            \/ dev[n][m.node].clean \/ ~dev[n][m.node].sdev
            \/ dev[n][m.node].refs > 0 \/ LateRelease(n, m.node)

\* The host keeps no peer-to-peer mapping of a card it has cleaned up
\* (scif_destroy_p2p()): not in the list of the card, nor in that of another.
MappingsFreed == \A pr \in p2p : \A c \in pr : ~dev[Host][c].clean

\* Who sends while holding a reference on the peer device (scif_conn_func(),
\* scif_nodeqp_send()) finds the queue pair that the release of the device
\* would free, until scif_remove() takes the hardware device away.
RefHasQp ==
    \A t \in Threads : At(t, "connect_send") \/ At(t, "reject_send") =>
        dev[t[2]][Arg(t)].qp \in {"mapped", "unmapped"} \/ ~dev[t[2]][Arg(t)].sdev

\* scif_remove() returns, whatever the other nodes do: never does the network
\* come to rest with a removal waiting for an acknowledgement, a lock or a work
\* queue.  (Behaviours are finite: every call is made and every message taken
\* once, so a removal that never returned would end in such a state.)
RemoveReturns ==
    (\E t \in Threads : t[1] = "remove" /\ stack[t] # <<>>) => ENABLED Progress

\* Both sides agree in the end: the network does not come to rest with a card
\* that has released the host, and the host still taking it for a peer, unless
\* a connect of the card held the device while the card left.  (Then the
\* release is up to the connect, and comes too late for SCIF_EXIT to be sent
\* if scif_remove() has freed the queue pair.)
Agreed ==
    (\E c \in Cards : dev[c][Host].clean /\ ~dev[c][Host].held /\ dev[Host][c].peer) =>
        ENABLED Progress

\* A card that is told of the queue pair of another has set up its own end of
\* it, unless the host is removing the card or has removed it: for that,
\* scif_node_add_ack() forwards the message through the host, behind the
\* NODE_ADD.  (Once the host is removing a card it sends it nothing but what
\* it forwards.)
AckFindsQp ==
    \A n \in Cards : Takes(n, Host, "NODE_ADD_ACK") =>
        \/ dev[n][Head(wire[Host][n]).src].qp = "local"
        \/ ~dev[Host][n].sdev
        \/ \E t \in Threads : t = <<"remove", Host, n>> /\ stack[t] # <<>>
=============================================================================
