------------------------------ MODULE ScifConn ------------------------------
(***************************************************************************)
(* SCIF endpoints of two nodes: open, bind, listen, connect, accept, close *)
(* (scif_api.c, scif_fd.c), the handlers of the connection messages        *)
(* (scif_epd.c) and the port table (scif_ports.c).                         *)
(*                                                                         *)
(* Node A connects, node B listens and accepts.  An endpoint is known to   *)
(* the other node by its ADDRESS, which travels in message payloads and    *)
(* may be allocated again once the endpoint has been freed; birth[a] (a    *)
(* ghost) tells the successive endpoints at one address apart.  pc[a] is   *)
(* where the system call working on endpoint a stands; for an endpoint     *)
(* being accepted that call is the scif_accept() which creates it.         *)
(***************************************************************************)
EXTENDS Naturals, Sequences, FiniteSets

CONSTANTS
    Clients,        \* addresses of node A, used by connecting endpoints
    Listeners,      \* addresses of node B, used by listening endpoints
    Slots,          \* addresses of node B, used by accepted endpoints
    Null,           \* the address no endpoint has
    ListenPorts,    \* ports of node B a listener may bind
    NewPorts,       \* ports of node A scif_get_new_port() hands out
    ENOSPCPort,     \* what -ENOSPC becomes in a u16
    Backlog,        \* the backlog given to scif_listen()
    MaxBirth,       \* bound: endpoints per address of Clients
    MaxSlot,        \* bound: endpoints per address of Slots
    MaxListen,      \* bound: endpoints per address of Listeners
    MaxTrouble      \* bound: connects and closes that time out, and failed
                    \* allocations and mappings, together

Addr == Clients \cup Listeners \cup Slots
Port == ListenPorts \cup NewPorts

ASSUME AddrAssumption ==
    /\ Clients \cap (Listeners \cup Slots) = {} /\ Listeners \cap Slots = {}
    /\ Null \notin Addr /\ IsFiniteSet(Addr) /\ {"A", "B"} \cap Addr = {}
ASSUME PortAssumption ==
    /\ NewPorts \subseteq Nat /\ ListenPorts \cap NewPorts = {} /\ 0 \notin Port
    /\ ENOSPCPort \in NewPorts  \* 65508, in the range of scif_get_new_port()
ASSUME BoundAssumption ==
    {Backlog, MaxBirth, MaxSlot, MaxListen, MaxTrouble} \subseteq Nat

VARIABLES
    ep,             \* the endpoint structures
    birth,          \* ghost: allocations so far at each address
    pc,             \* the call in progress on each endpoint
    refs,           \* scif_ports: reference counts, 0 when not in the table
    listen,         \* scif_info.listen
    connected,      \* scif_info.connected
    disconnected,   \* scif_info.disconnected
    zombie,         \* scif_info.zombie
    chan,           \* messages on their way to each node, in order
    found,          \* the listener scif_cnctreq() has looked up, or Null
    late,           \* ghost: addresses whose connect or close has timed out
    faults          \* failures so far

vars == <<ep, birth, pc, refs, listen, connected, disconnected, zombie, chan,
          found, late, faults>>

Node(a) == IF a \in Clients THEN "A" ELSE "B"
Other(n) == IF n = "A" THEN "B" ELSE "A"

(* Linked lists, whose elements are all different.  (SequencesExt has both  *)
(* operators, and would put every theorem about bags and sequences into     *)
(* every proof obligation about this module.)                               *)
OnList(q, e) == \E i \in 1 .. Len(q) : q[i] = e

list_del(q, e) ==
    LET k == CHOOSE i \in 1 .. Len(q) : q[i] = e
    IN IF OnList(q, e) THEN [i \in 1 .. Len(q) - 1 |-> IF i < k THEN q[i] ELSE q[i + 1]]
                       ELSE q

States == {"FREE", "UNBOUND", "BOUND", "LISTENING", "CLLISTEN", "CONNECTING",
           "MAPPING", "CONNECTED", "CLOSING", "DISCONNECTED", "ZOMBIE"}

(* A zeroed struct scif_endpt; rbirth is a ghost, the birth of the endpoint *)
(* that remote meant when it was stored.                                    *)
Zeroed == [state |-> "FREE", port |-> 0, peer |-> 0, remote |-> Null,
           rbirth |-> 0, conn_port |-> 0, oldstate |-> "FREE",
           discon |-> FALSE, backlog |-> 0, conlist |-> <<>>,
           li_accept |-> <<>>, listenep |-> Null]

Init ==
    /\ ep = [a \in Addr |-> Zeroed]
    /\ birth = [a \in Addr |-> 0]
    /\ pc = [a \in Addr |-> "idle"]
    /\ refs = [p \in Port |-> 0]
    /\ listen = <<>>
    /\ connected = {} /\ disconnected = {} /\ zombie = {}
    /\ chan = [n \in {"A", "B"} |-> <<>>]
    /\ found = Null
    /\ late = [connect |-> {}, close |-> {}]
    /\ faults = 0

(***************************************************************************)
(* The port table: a number is taken while its count is positive.          *)
(***************************************************************************)
(* The lowest free number of the range; with none left, nothing is added    *)
(* to the table and -ENOSPC, stored into a 16-bit port number, is taken for *)
(* a port.                                                                  *)
scif_get_new_port(p) ==
    \/ /\ refs[p] = 0 /\ \A q \in NewPorts : refs[q] = 0 => p <= q
       /\ refs' = [refs EXCEPT ![p] = 1]
    \/ /\ p = ENOSPCPort /\ \A q \in NewPorts : refs[q] # 0
       /\ UNCHANGED refs

scif_get_port(p) ==
    refs' = IF p # 0 /\ refs[p] > 0 THEN [refs EXCEPT ![p] = @ + 1] ELSE refs

scif_put_port(p) ==
    refs' = IF p # 0 /\ refs[p] > 0 THEN [refs EXCEPT ![p] = @ - 1] ELSE refs

(***************************************************************************)
(* Messages.  ep and rem are the endpoint addresses of the payload (the    *)
(* one on the connecting side, resp. the sender, first); eb and rb are     *)
(* ghosts, the births these addresses stood for when the message was sent. *)
(***************************************************************************)
Msg(uop, src, dst, e, eb, r, rb) ==
    [uop |-> uop, src |-> src, dst |-> dst, ep |-> e, eb |-> eb,
     rem |-> r, rb |-> rb]

Send(n, m) == chan' = [chan EXCEPT ![n] = Append(@, m)]

(* The interrupt handler of node n takes its next message; a reply goes out *)
(* on the other ring.                                                       *)
Receive(n, uop) == chan[n] # <<>> /\ Head(chan[n]).uop = uop
Consume(n) == chan' = [chan EXCEPT ![n] = Tail(@)]
Reply(n, m) ==
    chan' = [chan EXCEPT ![n] = Tail(@), ![Other(n)] = Append(@, m)]

(* A write by a handler to an endpoint that has been freed reaches no      *)
(* endpoint of the model; if the address has been allocated again it       *)
(* reaches the new endpoint.                                               *)
SetState(a, s) ==
    ep' = IF ep[a].state = "FREE" THEN ep ELSE [ep EXCEPT ![a].state = s]

MayGoWrong ==
    Cardinality(late.connect) + Cardinality(late.close) + faults < MaxTrouble

Fault == MayGoWrong /\ faults' = faults + 1

(***************************************************************************)
(* open, bind, listen                                                      *)
(***************************************************************************)
scif_open(a) ==
    /\ a \in Clients \cup Listeners
    /\ ep[a].state = "FREE" /\ pc[a] = "idle"
    /\ birth[a] < IF a \in Listeners THEN MaxListen ELSE MaxBirth
    /\ ep' = [ep EXCEPT ![a] = [Zeroed EXCEPT !.state = "UNBOUND"]]
    /\ birth' = [birth EXCEPT ![a] = @ + 1]
    /\ UNCHANGED <<pc, refs, listen, connected, disconnected, zombie, chan,
                   found, late, faults>>

scif_bind(l, p) ==
    /\ ep[l].state = "UNBOUND" /\ pc[l] = "idle"
    /\ refs[p] = 0
    /\ refs' = [refs EXCEPT ![p] = 1]
    /\ ep' = [ep EXCEPT ![l].state = "BOUND", ![l].port = p]
    /\ UNCHANGED <<birth, pc, listen, connected, disconnected, zombie, chan,
                   found, late, faults>>

scif_listen(l) ==
    /\ ep[l].state = "BOUND" /\ pc[l] = "idle"
    /\ ep' = [ep EXCEPT ![l].state = "LISTENING", ![l].backlog = Backlog,
                        ![l].conlist = <<>>, ![l].li_accept = <<>>]
    /\ listen' = Append(listen, l)
    /\ UNCHANGED <<birth, pc, refs, connected, disconnected, zombie, chan,
                   found, late, faults>>

(* close(2) on a descriptor of a listener an accept is blocked on           *)
scif_flush(l) ==
    /\ ep[l].state = "LISTENING" /\ pc[l] = "idle"
    /\ ep' = [ep EXCEPT ![l].state = "CLLISTEN"]
    /\ UNCHANGED <<birth, pc, refs, listen, connected, disconnected, zombie,
                   chan, found, late, faults>>

(***************************************************************************)
(* connect: __scif_connect() and the steps of scif_conn_func()             *)
(***************************************************************************)
(* From UNBOUND the endpoint first gets a port of its own.                 *)
scif_connect(c, p) ==
    /\ pc[c] = "idle"
    /\ \/ /\ ep[c].state = "UNBOUND"
          /\ \E q \in NewPorts :
               /\ scif_get_new_port(q)
               /\ ep' = [ep EXCEPT ![c].state = "CONNECTING", ![c].conn_port = p,
                                   ![c].port = q]
       \/ /\ ep[c].state = "BOUND"
          /\ ep' = [ep EXCEPT ![c].state = "CONNECTING", ![c].conn_port = p]
          /\ UNCHANGED refs
    /\ pc' = [pc EXCEPT ![c] = "setup"]
    /\ UNCHANGED <<birth, listen, connected, disconnected, zombie, chan, found,
                   late, faults>>

(* The queue pair is set up and the request sent, or setting up fails.     *)
conn_request(c) ==
    /\ pc[c] = "setup"
    /\ \/ /\ Send("B", Msg("CNCT_REQ", ep[c].port, ep[c].conn_port,
                           c, birth[c], Null, 0))
          /\ pc' = [pc EXCEPT ![c] = "wait"]
          /\ UNCHANGED <<ep, faults>>
       \/ /\ Fault
          /\ ep' = [ep EXCEPT ![c].state = "BOUND"]
          /\ pc' = [pc EXCEPT ![c] = "idle"]
          /\ UNCHANGED chan
    /\ UNCHANGED <<birth, refs, listen, connected, disconnected, zombie, found,
                   late>>

(* Woken by a grant the call goes on; by a reject, or anything else, it     *)
(* returns.                                                                 *)
conn_wake(c) ==
    /\ pc[c] = "wait" /\ ep[c].state # "CONNECTING"
    /\ pc' = [pc EXCEPT ![c] = IF ep[c].state = "MAPPING" THEN "map" ELSE "idle"]
    /\ UNCHANGED <<ep, birth, refs, listen, connected, disconnected, zombie,
                   chan, found, late, faults>>

(* SCIF_NODE_ALIVE_TIMEOUT has passed with the state still CONNECTING.      *)
conn_timeout(c) ==
    /\ pc[c] = "wait" /\ ep[c].state = "CONNECTING"
    /\ MayGoWrong
    /\ late' = [late EXCEPT !.connect = @ \cup {c}]
    /\ pc' = [pc EXCEPT ![c] = "timedout"]
    /\ UNCHANGED <<ep, birth, refs, listen, connected, disconnected, zombie,
                   chan, found, faults>>

(* The state is overwritten without the endpoint lock, whatever it is now.  *)
conn_timedout(c) ==
    /\ pc[c] = "timedout"
    /\ ep' = [ep EXCEPT ![c].state = "BOUND"]
    /\ pc' = [pc EXCEPT ![c] = "idle"]
    /\ UNCHANGED <<birth, refs, listen, connected, disconnected, zombie, chan,
                   found, late, faults>>

(* Mutant: a failed mapping is not reported to the accepting side. *)
conn_map_silent(c) ==
    /\ pc[c] = "map"
    /\ \/ /\ Send("B", Msg("CNCT_GNTACK", ep[c].port, ep[c].conn_port,
                           c, birth[c], ep[c].remote, ep[c].rbirth))
          /\ pc' = [pc EXCEPT ![c] = "acked"]
          /\ UNCHANGED <<ep, faults>>
       \/ /\ Fault
          /\ ep' = [ep EXCEPT ![c].state = "BOUND"]
          /\ pc' = [pc EXCEPT ![c] = "idle"]
          /\ UNCHANGED chan
    /\ UNCHANGED <<birth, refs, listen, connected, disconnected, zombie, found,
                   late>>

(* Mutant: a failed mapping is acknowledged. *)
conn_map_acks_failure(c) ==
    /\ pc[c] = "map"
    /\ Send("B", Msg("CNCT_GNTACK", ep[c].port, ep[c].conn_port,
                     c, birth[c], ep[c].remote, ep[c].rbirth))
    /\ \/ /\ pc' = [pc EXCEPT ![c] = "acked"]
          /\ UNCHANGED <<ep, faults>>
       \/ /\ Fault
          /\ ep' = [ep EXCEPT ![c].state = "BOUND"]
          /\ pc' = [pc EXCEPT ![c] = "idle"]
    /\ UNCHANGED <<birth, refs, listen, connected, disconnected, zombie, found,
                   late>>

(* Map the queue the grant describes and acknowledge it, or refuse it.      *)
conn_map(c) ==
    /\ pc[c] = "map"
    /\ \/ /\ Send("B", Msg("CNCT_GNTACK", ep[c].port, ep[c].conn_port,
                           c, birth[c], ep[c].remote, ep[c].rbirth))
          /\ pc' = [pc EXCEPT ![c] = "acked"]
          /\ UNCHANGED <<ep, faults>>
       \/ /\ Fault
          /\ Send("B", Msg("CNCT_GNTNACK", ep[c].port, ep[c].conn_port,
                           c, birth[c], ep[c].remote, ep[c].rbirth))
          /\ ep' = [ep EXCEPT ![c].state = "BOUND"]
          /\ pc' = [pc EXCEPT ![c] = "idle"]
    /\ UNCHANGED <<birth, refs, listen, connected, disconnected, zombie, found,
                   late>>

(* Only after the acknowledgement has left does the endpoint become         *)
(* CONNECTED and join the connected list.                                   *)
conn_connected(c) ==
    /\ pc[c] = "acked"
    /\ ep' = [ep EXCEPT ![c].state = "CONNECTED"]
    /\ connected' = connected \cup {c}
    /\ pc' = [pc EXCEPT ![c] = "idle"]
    /\ UNCHANGED <<birth, refs, listen, disconnected, zombie, chan, found,
                   late, faults>>

(***************************************************************************)
(* accept: scif_accept() and the two halves of the accept ioctl            *)
(***************************************************************************)
(* The first request is taken off the listener's queue, a new endpoint      *)
(* allocated at s and the grant sent; or setting it up fails and the        *)
(* request is rejected.                                                     *)
scif_accept(s, l) ==
    /\ ep[s].state = "FREE" /\ pc[s] = "idle" /\ birth[s] < MaxSlot
    /\ ep[l].state = "LISTENING" /\ ep[l].conlist # <<>>
    /\ LET req == Head(ep[l].conlist) IN
       \/ /\ ep' = [ep EXCEPT
                      ![l].conlist = Tail(@),
                      ![s] = [Zeroed EXCEPT
                                !.state = "CONNECTING", !.port = ep[l].port,
                                !.peer = req.src, !.remote = req.ep,
                                !.rbirth = req.eb, !.listenep = l]]
          /\ birth' = [birth EXCEPT ![s] = @ + 1]
          /\ pc' = [pc EXCEPT ![s] = "granted"]
          /\ Send("A", Msg("CNCT_GNT", ep[l].port, req.src,
                           req.ep, req.eb, s, birth[s] + 1))
          /\ UNCHANGED faults
       \/ /\ Fault
          /\ ep' = [ep EXCEPT ![l].conlist = Tail(@)]
          /\ Send("A", Msg("CNCT_REJ", ep[l].port, req.src,
                           req.ep, req.eb, Null, 0))
          /\ UNCHANGED <<birth, pc>>
    /\ UNCHANGED <<refs, listen, connected, disconnected, zombie, found, late>>

(* The grant has been answered.  After a refusal the endpoint is freed.     *)
(* Otherwise it takes a reference on its port, and the first half of the    *)
(* ioctl leaves it with the listener.  Without an answer the wait is        *)
(* restarted for as long as the peer node is alive.                         *)
accept_return(s) ==
    /\ pc[s] = "granted" /\ ep[s].state # "CONNECTING"
    /\ IF ep[s].state = "CLOSING"
         THEN ep' = [ep EXCEPT ![s] = Zeroed] /\ UNCHANGED refs
         ELSE /\ scif_get_port(ep[s].port)
              /\ ep' = [ep EXCEPT ![ep[s].listenep].li_accept = Append(@, s)]
    /\ pc' = [pc EXCEPT ![s] = "idle"]
    /\ UNCHANGED <<birth, listen, connected, disconnected, zombie, chan, found,
                   late, faults>>

Dangling(s) ==
    ep[s].listenep # Null /\ OnList(ep[ep[s].listenep].li_accept, s)

(* The second half: a descriptor of its own takes over the endpoint.        *)
accept_register(s) ==
    /\ ep[s].state # "FREE" /\ pc[s] = "idle" /\ Dangling(s)
    /\ ep' = [ep EXCEPT ![ep[s].listenep].li_accept = list_del(@, s)]
    /\ UNCHANGED <<birth, pc, refs, listen, connected, disconnected, zombie,
                   chan, found, late, faults>>

(***************************************************************************)
(* close: scif_close(), scif_disconnect_ep(), and the zombie list          *)
(***************************************************************************)
(* Where scif_close() goes on, by the state it finds.                       *)
CloseStep(state) ==
    CASE state = "DISCONNECTED"                         -> "undisconnect"
      [] state \in {"UNBOUND", "BOUND", "CONNECTING"}   -> "finish"
      [] state \in {"MAPPING", "CONNECTED", "CLOSING"}  -> "disconnect"
      [] state \in {"LISTENING", "CLLISTEN"}            -> "unlisten"

(* No descriptor is released while a system call uses it.                   *)
MayClose(a) ==
    /\ pc[a] = "idle" /\ ep[a].state # "FREE" /\ a \notin zombie
    /\ \A s \in Slots : pc[s] = "granted" => ep[s].listenep # a

scif_close(a) ==
    /\ MayClose(a) /\ ~Dangling(a)
    /\ ep' = [ep EXCEPT ![a].oldstate = ep[a].state, ![a].state = "CLOSING"]
    /\ pc' = [pc EXCEPT ![a] = CloseStep(ep[a].state)]
    /\ UNCHANGED <<birth, refs, listen, connected, disconnected, zombie, chan,
                   found, late, faults>>

close_undisconnect(a) ==
    /\ pc[a] = "undisconnect"
    /\ disconnected' = disconnected \ {a}
    /\ pc' = [pc EXCEPT ![a] = "finish"]
    /\ UNCHANGED <<ep, birth, refs, listen, connected, zombie, chan, found,
                   late, faults>>

(* Mutant: the close does not wait for the acknowledgement. *)
disconnect_ep_no_wait(a) ==
    /\ pc[a] = "disconnect"
    /\ IF a \in connected
         THEN /\ connected' = connected \ {a}
              /\ Send(Other(Node(a)),
                      Msg("DISCNCT", ep[a].port, ep[a].peer, a, birth[a],
                          ep[a].remote, ep[a].rbirth))
              /\ UNCHANGED disconnected
         ELSE /\ disconnected' = disconnected \ {a}
              /\ UNCHANGED <<connected, chan>>
    /\ pc' = [pc EXCEPT ![a] = "finish"]
    /\ UNCHANGED <<ep, birth, refs, listen, zombie, found, late, faults>>

(* scif_disconnect_ep(): an endpoint still on the connected list leaves it  *)
(* and tells its peer; one that the peer has disconnected meanwhile leaves  *)
(* the disconnected list.                                                   *)
scif_disconnect_ep(a) ==
    /\ pc[a] = "disconnect"
    /\ IF a \in connected
         THEN /\ connected' = connected \ {a}
              /\ ep' = [ep EXCEPT ![a].discon = FALSE]
              /\ Send(Other(Node(a)),
                      Msg("DISCNCT", ep[a].port, ep[a].peer, a, birth[a],
                          ep[a].remote, ep[a].rbirth))
              /\ pc' = [pc EXCEPT ![a] = "discon"]
              /\ UNCHANGED disconnected
         ELSE /\ disconnected' = disconnected \ {a}
              /\ pc' = [pc EXCEPT ![a] = "finish"]
              /\ UNCHANGED <<ep, connected, chan>>
    /\ UNCHANGED <<birth, refs, listen, zombie, found, late, faults>>

(* The wait for SCIF_DISCNT_ACK ends with the answer or with a timeout.     *)
disconnect_return(a) ==
    /\ pc[a] = "discon"
    /\ \/ ep[a].discon /\ UNCHANGED late
       \/ /\ ~ep[a].discon /\ MayGoWrong
          /\ late' = [late EXCEPT !.close = @ \cup {a}]
    /\ pc' = [pc EXCEPT ![a] = "finish"]
    /\ UNCHANGED <<ep, birth, refs, listen, connected, disconnected, zombie,
                   chan, found, faults>>

(* A listener leaves the listen list, closes the accepted endpoints nobody  *)
(* has taken over, one at a time, and drops the pending requests.           *)
close_listener(l) ==
    /\ pc[l] = "unlisten"
    /\ listen' = list_del(listen, l)
    /\ IF ep[l].li_accept # <<>>
         THEN LET s == Head(ep[l].li_accept) IN
              /\ ep' = [ep EXCEPT ![s].oldstate = ep[s].state,
                                  ![s].state = "CLOSING"]
              /\ pc' = [pc EXCEPT ![l] = "nested",
                                  ![s] = CloseStep(ep[s].state)]
         ELSE /\ ep' = [ep EXCEPT ![l].conlist = <<>>]
              /\ pc' = [pc EXCEPT ![l] = "finish"]
    /\ UNCHANGED <<birth, refs, connected, disconnected, zombie, chan, found,
                   late, faults>>

(* The port is given back and the endpoint goes to the zombie list; the     *)
(* close of a listener that waits for this one goes on.                     *)
close_finish(a) ==
    /\ pc[a] = "finish"
    /\ IF ep[a].oldstate # "DISCONNECTED"
         THEN scif_put_port(ep[a].port) ELSE UNCHANGED refs
    /\ IF Dangling(a)
         THEN LET l == ep[a].listenep IN
              /\ ep' = [ep EXCEPT ![a].state = "ZOMBIE",
                                  ![l].li_accept = Tail(@)]
              /\ pc' = [pc EXCEPT ![a] = "idle", ![l] = "unlisten"]
         ELSE /\ ep' = [ep EXCEPT ![a].state = "ZOMBIE"]
              /\ pc' = [pc EXCEPT ![a] = "idle"]
    /\ zombie' = zombie \cup {a}
    /\ UNCHANGED <<birth, listen, connected, disconnected, chan, found,
                   late, faults>>

scif_cleanup_zombie_epd(a) ==
    /\ a \in zombie
    /\ zombie' = zombie \ {a}
    /\ ep' = [ep EXCEPT ![a] = Zeroed]
    /\ UNCHANGED <<birth, pc, refs, listen, connected, disconnected, chan,
                   found, late, faults>>

(***************************************************************************)
(* Message handlers.  A node handles its messages one at a time, in order. *)
(***************************************************************************)
(* Mutant: any listener will do. *)
cnctreq_any_port ==
    /\ Receive("B", "CNCT_REQ") /\ found = Null
    /\ LET m == Head(chan["B"]) IN
       \/ /\ listen # <<>>
          /\ found' = Head(listen)
          /\ UNCHANGED <<chan, faults>>
       \/ /\ (listen = <<>> /\ UNCHANGED faults) \/ Fault
          /\ Reply("B", [m EXCEPT !.uop = "CNCT_REJ"])
          /\ UNCHANGED found
    /\ UNCHANGED <<ep, birth, pc, refs, listen, connected, disconnected,
                   zombie, late>>

(* The listener is looked up under eplock ...                               *)
scif_cnctreq ==
    /\ Receive("B", "CNCT_REQ") /\ found = Null
    /\ LET m == Head(chan["B"])
           Listens(t) == ep[t].port = m.dst
       IN \/ \E i \in 1 .. Len(listen) :
                /\ Listens(listen[i]) /\ \A j \in 1 .. i - 1 : ~Listens(listen[j])
                /\ found' = listen[i]
                /\ UNCHANGED <<chan, faults>>
          \/ /\ \/ (\A i \in 1 .. Len(listen) : ~Listens(listen[i])) /\ UNCHANGED faults
                \/ Fault
             /\ Reply("B", [m EXCEPT !.uop = "CNCT_REJ"])
             /\ UNCHANGED found
    /\ UNCHANGED <<ep, birth, pc, refs, listen, connected, disconnected,
                   zombie, late>>

(* ... and the request queued under the listener's own lock.                *)
cnctreq_queue ==
    /\ Receive("B", "CNCT_REQ") /\ found # Null
    /\ LET m == Head(chan["B"]) IN
       IF Len(ep[found].conlist) >= ep[found].backlog
         THEN Reply("B", [m EXCEPT !.uop = "CNCT_REJ"]) /\ UNCHANGED ep
         ELSE ep' = [ep EXCEPT ![found].conlist = Append(@, m)] /\ Consume("B")
    /\ found' = Null
    /\ UNCHANGED <<birth, pc, refs, listen, connected, disconnected, zombie,
                   late, faults>>

(* A grant is for an endpoint that is connecting; others ignore it.         *)
scif_cnctgnt ==
    /\ Receive("A", "CNCT_GNT")
    /\ LET m == Head(chan["A"]) IN
       ep' = IF ep[m.ep].state = "CONNECTING"
               THEN [ep EXCEPT ![m.ep].peer = m.src, ![m.ep].remote = m.rem,
                               ![m.ep].rbirth = m.rb, ![m.ep].state = "MAPPING"]
               ELSE ep
    /\ Consume("A")
    /\ UNCHANGED <<birth, pc, refs, listen, connected, disconnected, zombie,
                   found, late, faults>>

scif_cnctrej ==
    /\ Receive("A", "CNCT_REJ")
    /\ LET m == Head(chan["A"]) IN
       ep' = IF ep[m.ep].state = "CONNECTING"
               THEN [ep EXCEPT ![m.ep].state = "BOUND"] ELSE ep
    /\ Consume("A")
    /\ UNCHANGED <<birth, pc, refs, listen, connected, disconnected, zombie,
                   found, late, faults>>

scif_cnctgnt_ack ==
    /\ Receive("B", "CNCT_GNTACK")
    /\ LET m == Head(chan["B"]) IN
       /\ SetState(m.rem, "CONNECTED")
       /\ connected' = IF ep[m.rem].state = "FREE" THEN connected
                                                   ELSE connected \cup {m.rem}
    /\ Consume("B")
    /\ UNCHANGED <<birth, pc, refs, listen, disconnected, zombie, found, late,
                   faults>>

scif_cnctgnt_nack ==
    /\ Receive("B", "CNCT_GNTNACK")
    /\ SetState(Head(chan["B"]).rem, "CLOSING")
    /\ Consume("B")
    /\ UNCHANGED <<birth, pc, refs, listen, connected, disconnected, zombie,
                   found, late, faults>>

(* Mutant: the peer's address is not compared. *)
discnct_target_any_peer(m) == {t \in connected : t = m.rem}

(* The endpoint a disconnect is for: the address and its peer's must match. *)
discnct_target(m) ==
    {t \in connected : t = m.rem /\ ep[t].remote = m.ep}

(* Mutant: the port is not given back. *)
discnct_keeps_port(n) ==
    /\ Receive(n, "DISCNCT")
    /\ LET m == Head(chan[n]) IN
       /\ IF discnct_target(m) # {}
            THEN /\ connected' = connected \ {m.rem}
                 /\ disconnected' = disconnected \cup {m.rem}
                 /\ ep' = [ep EXCEPT ![m.rem].state = "DISCONNECTED"]
            ELSE UNCHANGED <<connected, disconnected, ep>>
       /\ Reply(n, [m EXCEPT !.uop = "DISCNT_ACK"])
    /\ UNCHANGED <<birth, pc, refs, listen, zombie, found, late, faults>>

(* Mutant: only a disconnect whose endpoint is found is acknowledged. *)
discnct_acks_found(n) ==
    /\ Receive(n, "DISCNCT")
    /\ LET m == Head(chan[n]) IN
       IF discnct_target(m) # {}
         THEN /\ connected' = connected \ {m.rem}
              /\ disconnected' = disconnected \cup {m.rem}
              /\ ep' = [ep EXCEPT ![m.rem].state = "DISCONNECTED"]
              /\ scif_put_port(ep[m.rem].port)
              /\ Reply(n, [m EXCEPT !.uop = "DISCNT_ACK"])
         ELSE Consume(n) /\ UNCHANGED <<connected, disconnected, ep, refs>>
    /\ UNCHANGED <<birth, pc, listen, zombie, found, late, faults>>

(* Found or not, the disconnect is acknowledged.                            *)
scif_discnct(n) ==
    /\ Receive(n, "DISCNCT")
    /\ LET m == Head(chan[n]) IN
       /\ IF discnct_target(m) # {}
            THEN /\ connected' = connected \ {m.rem}
                 /\ disconnected' = disconnected \cup {m.rem}
                 /\ ep' = [ep EXCEPT ![m.rem].state = "DISCONNECTED"]
                 /\ scif_put_port(ep[m.rem].port)
            ELSE UNCHANGED <<connected, disconnected, ep, refs>>
       /\ Reply(n, [m EXCEPT !.uop = "DISCNT_ACK"])
    /\ UNCHANGED <<birth, pc, listen, zombie, found, late, faults>>

scif_discnt_ack(n) ==
    /\ Receive(n, "DISCNT_ACK")
    /\ LET a == Head(chan[n]).ep IN
       IF ep[a].state = "FREE"
         THEN UNCHANGED <<ep, refs>>
         ELSE /\ ep' = [ep EXCEPT ![a].state = "DISCONNECTED",
                                  ![a].discon = TRUE]
              /\ scif_put_port(ep[a].port)
    /\ Consume(n)
    /\ UNCHANGED <<birth, pc, listen, connected, disconnected, zombie, found,
                   late, faults>>

(***************************************************************************)
(* The specification.  What the kernel has started it finishes: every      *)
(* handler and every step inside a system call is fair.  What applications *)
(* call, and what times out or fails, is not.                              *)
(***************************************************************************)
Calls ==
    \/ \E a \in Addr : scif_open(a) \/ scif_close(a)
    \/ \E l \in Listeners :
          \/ \E p \in ListenPorts : scif_bind(l, p)
          \/ scif_listen(l) \/ scif_flush(l)
          \/ \E s \in Slots : scif_accept(s, l)
    \/ \E c \in Clients : \E p \in ListenPorts : scif_connect(c, p)
    \/ \E s \in Slots : accept_register(s)

Connecting(c) ==
    conn_request(c) \/ conn_wake(c) \/ conn_timedout(c) \/ conn_map(c)
        \/ conn_connected(c)

Closing(a) ==
    close_undisconnect(a) \/ scif_disconnect_ep(a) \/ disconnect_return(a)
        \/ close_listener(a) \/ close_finish(a)

Handlers(n) ==
    \/ n = "B" /\ (scif_cnctreq \/ cnctreq_queue \/ scif_cnctgnt_ack
                                \/ scif_cnctgnt_nack)
    \/ n = "A" /\ (scif_cnctgnt \/ scif_cnctrej)
    \/ scif_discnct(n) \/ scif_discnt_ack(n)

Next ==
    \/ Calls
    \/ \E c \in Clients : Connecting(c) \/ conn_timeout(c)
    \/ \E s \in Slots : accept_return(s)
    \/ \E a \in Addr : Closing(a) \/ scif_cleanup_zombie_epd(a)
    \/ \E n \in {"A", "B"} : Handlers(n)

Fairness ==
    /\ \A c \in Clients : WF_vars(Connecting(c))
    /\ \A s \in Slots : WF_vars(accept_return(s))
    /\ \A a \in Addr : WF_vars(Closing(a))
    /\ \A n \in {"A", "B"} : WF_vars(Handlers(n))

Spec == Init /\ [][Next]_vars
FairSpec == Spec /\ Fairness

(***************************************************************************)
(* Properties                                                              *)
(***************************************************************************)
Peers == Clients \cup Slots

Live(a) == ep[a].state # "FREE" /\ a \notin zombie

(* The endpoint that remote named when it was stored is still there, and    *)
(* knows this one as its own peer.                                          *)
Paired(a) ==
    LET b == ep[a].remote IN
    /\ Live(b) /\ birth[b] = ep[a].rbirth
    /\ ep[b].remote = a /\ ep[b].rbirth = birth[a]

InFlight(n, uop, a, b) ==
    \E i \in DOMAIN chan[n] : /\ chan[n][i].uop = uop
                              /\ chan[n][i].ep = a /\ chan[n][i].rem = b

(* No connect and no close of an endpoint at address a has given up waiting *)
(* for its answer.                                                          *)
OnTime(a) == a \notin late.connect \cup late.close

(* An accepted endpoint on the connected list has a peer that is connected  *)
(* to it, or about to enter the connected list, or whose disconnect is on   *)
(* its way: scif_cnctgnt_ack() and scif_discnct() never leave half a        *)
(* connection behind on the accepting side.  (Once a connect has timed out  *)
(* its grant may be taken by the next one at its address, and once a close  *)
(* has, its late acknowledgement takes the next accept at its address for   *)
(* the endpoint it is for.)                                                 *)
AcceptedHasPeer ==
    \A s \in connected \cap Slots : OnTime(s) /\ OnTime(ep[s].remote) =>
      \/ Paired(s) /\ (ep[s].remote \in connected \/ pc[ep[s].remote] = "acked")
      \/ InFlight("B", "DISCNCT", ep[s].remote, s)

(* A connecting endpoint on the connected list has a peer that is connected *)
(* to it or will be once the acknowledgement arrives, or whose disconnect   *)
(* is on its way: the close of a connected endpoint disconnects its peer    *)
(* (scif_discnct()).                                                        *)
ConnectedHasPeer ==
    \A c \in connected \cap Clients :
      \/ /\ Paired(c)
         /\ \/ ep[c].remote \in connected
            \/ InFlight("B", "CNCT_GNTACK", c, ep[c].remote)
      \/ InFlight("A", "DISCNCT", ep[c].remote, c)

(* An endpoint that scif_connect() has connected is connected to the port   *)
(* the caller asked for, however many grants and rejects of other attempts  *)
(* were under way (scif_cnctgnt() stores msg->src), until a connect at its  *)
(* own address has timed out: the late grant of that one is taken for the   *)
(* answer to the next.                                                      *)
ConnectedToDst ==
    \A c \in connected \cap Clients :
      c \notin late.connect => ep[c].peer = ep[c].conn_port

(* A reply finds the endpoint it answers: no grant, reject, acknowledgement *)
(* or refusal is handled for an endpoint that has gone to the zombie list,  *)
(* been freed, or been allocated again (the payload is a bare address),     *)
(* until a connect or close at that address has timed out.                  *)
ReplyFindsEndpoint ==
    \A n \in {"A", "B"} : \A i \in DOMAIN chan[n] :
      LET m == chan[n][i] IN
      /\ m.uop \in {"CNCT_GNT", "CNCT_REJ", "DISCNT_ACK"} /\ OnTime(m.ep) =>
            Live(m.ep) /\ birth[m.ep] = m.eb
      /\ m.uop \in {"CNCT_GNTACK", "CNCT_GNTNACK"} /\ OnTime(m.rem) =>
            Live(m.rem) /\ birth[m.rem] = m.rb

(* A disconnect that scif_discnct() applies ends the connection it was sent *)
(* for, even when both addresses have been allocated again since: sender    *)
(* and receiver mean the same two endpoints.  (Once a connect has timed     *)
(* out its grant may be taken by the next endpoint at its address, and once *)
(* a close has, its late acknowledgement may undo the connect of that one.) *)
DisconnectsOwnPeer ==
    \A n \in {"A", "B"} :
      Receive(n, "DISCNCT") =>
        LET m == Head(chan[n]) IN
        OnTime(m.ep) /\ OnTime(m.rem) /\ discnct_target(m) # {} =>
          birth[m.rem] = m.rb /\ ep[m.rem].rbirth = m.eb

(* A port in use by an endpoint stays reserved: its count does not reach    *)
(* zero while an endpoint that is bound to it is listening or connected.    *)
PortsHeld ==
    \A a \in Addr :
      /\ pc[a] = "idle"
      /\ ep[a].state \in {"BOUND", "LISTENING", "CONNECTED"}
      => refs[ep[a].port] > 0

(* No reference is leaked: a port counts no more references than there are  *)
(* endpoints bound to it, so it is free again once they are all gone,       *)
(* whichever side closed first, however the accept failed or was            *)
(* interrupted, and whatever timed out.  Stated for accepts that come one   *)
(* at a time: of several on one port that are all disconnected before they  *)
(* return, scif_put_port() may find nothing left to drop, and the port keep *)
(* a reference that they take after it has been bound again.                *)
NoPortLeak ==
    Cardinality(Slots) = 1 =>
      \A p \in Port :
        refs[p] <= Cardinality({a \in Addr : Live(a) /\ ep[a].port = p})

(* Every grant is answered: while an accept waits, its grant, the connect   *)
(* that will answer it, or the answer is under way, as long as that connect *)
(* has not timed out (scif_accept() itself has no other way to return).     *)
GrantAnswered ==
    \A s \in Slots : pc[s] = "granted" /\ ep[s].state = "CONNECTING" =>
      LET c == ep[s].remote IN
      \/ InFlight("A", "CNCT_GNT", c, s)
      \/ ep[c].remote = s /\ ep[c].state = "MAPPING" /\ pc[c] \in {"wait", "map"}
      \/ InFlight("B", "CNCT_GNTACK", c, s) \/ InFlight("B", "CNCT_GNTNACK", c, s)
      \/ ~OnTime(c)

(* A close does not need its timeout: while it waits, its disconnect or the *)
(* acknowledgement is under way, whether the peer is connected, closing at  *)
(* the same time, half open or already gone (scif_discnct()).               *)
DisconnectAnswered ==
    \A a \in Peers : pc[a] = "discon" /\ ~ep[a].discon =>
      \/ InFlight(Other(Node(a)), "DISCNCT", a, ep[a].remote)
      \/ InFlight(Node(a), "DISCNT_ACK", a, ep[a].remote)

(* An accept that waits for the answer to its grant does not wait for ever: *)
(* when the remote side has failed to complete its connection request,      *)
(* scif_accept() gives up.                                                  *)
AcceptReturns == \A s \in Slots : (pc[s] = "granted") ~> (pc[s] # "granted")
=============================================================================
