----------------------------- MODULE ScifStream -----------------------------
(***************************************************************************)
(* The byte stream of a SCIF connection (scif_api.c): threads that send at *)
(* endpoint A, threads that receive at endpoint B, the ring between them,  *)
(* the messages that wake the other side, and the close of either end.     *)
(*                                                                         *)
(* Both _scif_send() and _scif_recv() run under the spin lock of their     *)
(* endpoint ("loop"), give it up to wait ("wait", "asleep") and take it    *)
(* again ("enter").  The wrappers take sendlock or recvlock around them;   *)
(* those for user endpoints also cut a message into chunks.  The ring is   *)
(* that of ScifRb: what was committed and not read yet is a suffix of the  *)
(* stream, and space is what the published read pointer leaves.            *)
(***************************************************************************)
EXTENDS Naturals, Sequences

CONSTANTS
    Senders, Receivers,   \* the threads
    None,                 \* no thread
    Kernel,               \* the endpoints that a kernel client uses
    Mixed,                \* do kernel clients also send and receive without
                          \* SCIF_SEND_BLOCK and SCIF_RECV_BLOCK?
    Size,                 \* the size of the ring
    Chunk,                \* the largest piece of a user's message
    MaxLen,               \* bound: bytes in a call
    MaxSend, MaxRecv,     \* bounds: calls of a sender, of a receiver
    MaxTrouble            \* bound: signals, and closes that time out

End == {"A", "B"}
Thread == Senders \cup Receivers
EndOf(t) == IF t \in Senders THEN "A" ELSE "B"
Peer(e) == IF e = "A" THEN "B" ELSE "A"
Least(a, b) == IF a < b THEN a ELSE b

ASSUME ThreadAssumption == Senders \cap Receivers = {} /\ None \notin Thread
ASSUME SizeAssumption == Size \in Nat \ {0, 1} /\ Chunk \in Nat \ {0}
ASSUME KindAssumption == Kernel \subseteq End /\ Mixed \in BOOLEAN
ASSUME BoundAssumption == {MaxLen, MaxSend, MaxRecv, MaxTrouble} \subseteq Nat

VARIABLES
    state,      \* ep->state
    listed,     \* is the endpoint on scif_info.connected?
    closer,     \* the place of scif_close(): "late" and "lost" instead of
                \* "teardown" and "gone" if its wait has timed out
    chan,       \* messages on the node queue pair to each end
    eplock,     \* the holder of ep->lock
    mutex,      \* the holder of sendlock (A) and recvlock (B)
    pc, call,   \* each thread's place, and the call it is in
    stream,     \* every byte committed to the ring, in order
    rd,         \* bytes read from the ring (current_read_offset)
    released,   \* bytes that the published read pointer has passed
    last,       \* each thread's latest result
    used        \* signals and timeouts so far

ep_vars == <<state, listed, closer>>
ring_vars == <<stream, rd, released>>
vars == <<ep_vars, chan, eplock, mutex, pc, call, ring_vars, last, used>>

Places == {"idle", "lock", "enter", "loop", "wait", "asleep"}
Calls == [blk : BOOLEAN, len : Nat, done : Nat, part : Nat, moved : Nat, seq : Nat]
Results == [n : Nat, err : {"none", "ECONNRESET", "ENOTCONN", "EINTR"}, moved : Nat,
            len : Nat]
Messages == {"CLIENT_SENT", "CLIENT_RCVD", "DISCNCT", "DISCNT_ACK"}

NoCall == [blk |-> FALSE, len |-> 0, done |-> 0, part |-> 0, moved |-> 0, seq |-> 0]
NoResult == [n |-> 0, err |-> "none", moved |-> 0, len |-> 0]

(* The two ends are connected.                                              *)
Init ==
    /\ state = [e \in End |-> "CONNECTED"] /\ listed = [e \in End |-> TRUE]
    /\ closer = [e \in End |-> "open"]
    /\ chan = [e \in End |-> <<>>]
    /\ eplock = [e \in End |-> None] /\ mutex = [e \in End |-> None]
    /\ pc = [t \in Thread |-> "idle"] /\ call = [t \in Thread |-> NoCall]
    /\ stream = <<>> /\ rd = 0 /\ released = 0
    /\ last = [t \in Thread |-> NoResult]
    /\ used = 0

(* Mutant: the ring is filled completely. *)
rb_space_full == Size - (Len(stream) - released)

scif_rb_space == Size - 1 - (Len(stream) - released)
scif_rb_count == Len(stream) - rd

(***************************************************************************)
(* The wrappers: scif_send(), scif_recv(), scif_user_send() and            *)
(* scif_user_recv()                                                        *)
(***************************************************************************)
(* Mutant: only calls from user space take the mutex. *)
TakesMutex_user(t) == EndOf(t) \notin Kernel

TakesMutex(t) == EndOf(t) \in Kernel => call[t].blk

scif_call(t, len, blk) ==
    /\ pc[t] = "idle" /\ closer[EndOf(t)] = "open"
    /\ call[t].seq < IF t \in Senders THEN MaxSend ELSE MaxRecv
    /\ EndOf(t) \in Kernel /\ ~Mixed => blk
    /\ call' = [call EXCEPT ![t] = [blk |-> blk, len |-> len, done |-> 0, part |-> 0,
                                    moved |-> 0, seq |-> call[t].seq + 1]]
    /\ pc' = [pc EXCEPT ![t] = "lock"]
    /\ UNCHANGED <<ep_vars, chan, eplock, mutex, ring_vars, last, used>>

mutex_lock(t) ==
    /\ pc[t] = "lock"
    /\ IF TakesMutex(t) THEN /\ mutex[EndOf(t)] = None
                             /\ mutex' = [mutex EXCEPT ![EndOf(t)] = t]
                        ELSE UNCHANGED mutex
    /\ pc' = [pc EXCEPT ![t] = "enter"]
    /\ UNCHANGED <<ep_vars, chan, eplock, call, ring_vars, last, used>>

(* The bytes that the current _scif_send() or _scif_recv() is to move.      *)
Piece(t) == IF EndOf(t) \in Kernel THEN call[t].len
                                   ELSE Least(Chunk, call[t].len - call[t].done)

Return(t, n, err) ==
    /\ pc' = [pc EXCEPT ![t] = "idle"]
    /\ last' = [last EXCEPT ![t] = [n |-> n, err |-> err, moved |-> call[t].moved,
                                    len |-> call[t].len]]
    /\ mutex' = [e \in End |-> IF mutex[e] = t THEN None ELSE mutex[e]]
    /\ UNCHANGED call

(* Mutant: what earlier chunks have moved is forgotten. *)
PieceDone_last(t, err) ==
    LET done == call[t].done + call[t].part IN
    IF err = "none" /\ call[t].part = Piece(t) /\ done < call[t].len
      THEN /\ call' = [call EXCEPT ![t].done = done, ![t].part = 0]
           /\ pc' = [pc EXCEPT ![t] = "enter"]
           /\ UNCHANGED <<mutex, last>>
      ELSE Return(t, IF err = "none" THEN call[t].part ELSE 0, err)

(* An error ends the call whatever earlier pieces have moved; so does a     *)
(* piece that was not moved as a whole.                                     *)
PieceDone(t, err) ==
    LET done == call[t].done + call[t].part IN
    IF err = "none" /\ call[t].part = Piece(t) /\ done < call[t].len
      THEN /\ call' = [call EXCEPT ![t].done = done, ![t].part = 0]
           /\ pc' = [pc EXCEPT ![t] = "enter"]
           /\ UNCHANGED <<mutex, last>>
      ELSE Return(t, IF err = "none" THEN done ELSE 0, err)

(***************************************************************************)
(* _scif_send() and _scif_recv()                                           *)
(***************************************************************************)
Usable(t) == state[EndOf(t)] \in IF t \in Senders THEN {"CONNECTED"}
                                 ELSE {"CONNECTED", "DISCONNECTED"}
More(t) == pc[t] = "loop" /\ call[t].part < Piece(t) /\ Usable(t)
Stuck(t) == (IF t \in Senders THEN scif_rb_space ELSE scif_rb_count) = 0

spin_lock(t) ==
    /\ pc[t] = "enter" /\ eplock[EndOf(t)] = None
    /\ eplock' = [eplock EXCEPT ![EndOf(t)] = t]
    /\ pc' = [pc EXCEPT ![t] = "loop"]
    /\ UNCHANGED <<ep_vars, chan, mutex, call, ring_vars, last, used>>

Moved(t, n) == [call EXCEPT ![t].part = @ + n, ![t].moved = @ + n]

(* Write what fits, commit it and tell the peer.                            *)
send_write(t) ==
    /\ t \in Senders /\ More(t) /\ ~Stuck(t)
    /\ LET n == Least(Piece(t) - call[t].part, scif_rb_space) IN
         /\ stream' = stream \o [i \in 1..n |-> <<t, call[t].seq>>]
         /\ call' = Moved(t, n)
    /\ chan' = [chan EXCEPT !["B"] = Append(@, "CLIENT_SENT")]
    /\ UNCHANGED <<ep_vars, eplock, mutex, pc, rd, released, last, used>>

(* Read what there is; once disconnected the peer's memory is left alone.   *)
recv_read(t) ==
    /\ t \in Receivers /\ More(t) /\ ~Stuck(t)
    /\ LET n == Least(Piece(t) - call[t].part, scif_rb_count) IN
         /\ rd' = rd + n
         /\ call' = Moved(t, n)
    /\ IF state["B"] = "CONNECTED"
         THEN /\ released' = rd'
              /\ chan' = [chan EXCEPT !["A"] = Append(@, "CLIENT_RCVD")]
         ELSE UNCHANGED <<released, chan>>
    /\ UNCHANGED <<ep_vars, eplock, mutex, pc, stream, last, used>>

MustWait(t) == call[t].blk /\ state[EndOf(t)] = "CONNECTED"

wait_event(t) ==
    /\ More(t) /\ Stuck(t) /\ MustWait(t)
    /\ eplock' = [eplock EXCEPT ![EndOf(t)] = None]
    /\ pc' = [pc EXCEPT ![t] = "wait"]
    /\ UNCHANGED <<ep_vars, chan, mutex, call, ring_vars, last, used>>

LoopResult(t) ==
    IF call[t].part > 0 \/ state[EndOf(t)] = "CONNECTED" THEN "none"
    ELSE IF state[EndOf(t)] = "DISCONNECTED" THEN "ECONNRESET" ELSE "ENOTCONN"

(* Mutant: a disconnected endpoint is not drained. *)
finish_undrained(t) ==
    /\ pc[t] = "loop"
    /\ More(t) => (Stuck(t) /\ ~MustWait(t)) \/ state[EndOf(t)] = "DISCONNECTED"
    /\ PieceDone(t, LoopResult(t))
    /\ eplock' = [eplock EXCEPT ![EndOf(t)] = None]
    /\ UNCHANGED <<ep_vars, chan, ring_vars, used>>

finish(t) ==
    /\ pc[t] = "loop"
    /\ More(t) => Stuck(t) /\ ~MustWait(t)
    /\ PieceDone(t, LoopResult(t))
    /\ eplock' = [eplock EXCEPT ![EndOf(t)] = None]
    /\ UNCHANGED <<ep_vars, chan, ring_vars, used>>

(* The condition of wait_event_interruptible(), checked without the lock:   *)
(* the thread is on the wait queue when it is found false.                  *)
Ready(t) == state[EndOf(t)] # "CONNECTED" \/ ~Stuck(t)

check_event(t) ==
    /\ pc[t] = "wait"
    /\ pc' = [pc EXCEPT ![t] = IF Ready(t) THEN "enter" ELSE "asleep"]
    /\ UNCHANGED <<ep_vars, chan, eplock, mutex, call, ring_vars, last, used>>

signal(t) ==
    /\ pc[t] \in {"wait", "asleep"} /\ used < MaxTrouble
    /\ PieceDone(t, IF call[t].part > 0 THEN "none" ELSE "EINTR")
    /\ used' = used + 1
    /\ UNCHANGED <<ep_vars, chan, eplock, ring_vars>>

Woken(ts) == [t \in Thread |-> IF t \in ts /\ pc[t] = "asleep" THEN "wait" ELSE pc[t]]
At(e) == {t \in Thread : EndOf(t) = e}

(***************************************************************************)
(* scif_close()                                                            *)
(***************************************************************************)
close_unchanged == <<eplock, mutex, call, ring_vars, last, used>>

(* A user endpoint is closed when no call is in progress.                   *)
scif_close(e) ==
    /\ closer[e] = "open" /\ eplock[e] = None
    /\ e \notin Kernel => \A t \in At(e) : pc[t] = "idle"
    /\ closer' = [closer EXCEPT ![e] = IF state[e] = "DISCONNECTED" THEN "teardown"
                                                                    ELSE "wake"]
    /\ state' = [state EXCEPT ![e] = "CLOSING"]
    /\ UNCHANGED <<close_unchanged, listed, chan, pc>>

(* Mutant: blocked threads are not woken. *)
close_no_wake(e) ==
    /\ closer[e] = "wake"
    /\ closer' = [closer EXCEPT ![e] = "sync"]
    /\ UNCHANGED <<close_unchanged, state, listed, chan, pc>>

close_wake(e) ==
    /\ closer[e] = "wake"
    /\ closer' = [closer EXCEPT ![e] = "sync"]
    /\ pc' = Woken(At(e))
    /\ UNCHANGED <<close_unchanged, state, listed, chan>>

(* Pass through sendlock and recvlock: a thread that is not inside yet may  *)
(* still come after.                                                        *)
close_sync(e) ==
    /\ closer[e] = "sync" /\ mutex[e] = None
    /\ closer' = [closer EXCEPT ![e] = "disconnect"]
    /\ UNCHANGED <<close_unchanged, state, listed, chan, pc>>

(* Mutant: the peer's acknowledgement is not waited for. *)
scif_disconnect_ep_no_ack(e) ==
    /\ closer[e] = "disconnect"
    /\ listed[e] => eplock[e] = None
    /\ listed' = [listed EXCEPT ![e] = FALSE]
    /\ closer' = [closer EXCEPT ![e] = "teardown"]
    /\ chan' = IF listed[e] THEN [chan EXCEPT ![Peer(e)] = Append(@, "DISCNCT")]
                            ELSE chan
    /\ UNCHANGED <<close_unchanged, state, pc>>

(* Tell the peer and wait for its answer, unless it was faster.             *)
scif_disconnect_ep(e) ==
    /\ closer[e] = "disconnect"
    /\ listed[e] => eplock[e] = None
    /\ listed' = [listed EXCEPT ![e] = FALSE]
    /\ closer' = [closer EXCEPT ![e] = IF listed[e] THEN "ack" ELSE "teardown"]
    /\ chan' = IF listed[e] THEN [chan EXCEPT ![Peer(e)] = Append(@, "DISCNCT")]
                            ELSE chan
    /\ UNCHANGED <<close_unchanged, state, pc>>

(* SCIF_NODE_ALIVE_TIMEOUT has passed without an answer.                    *)
disconnect_timeout(e) ==
    /\ closer[e] = "ack" /\ used < MaxTrouble
    /\ closer' = [closer EXCEPT ![e] = "late"]
    /\ used' = used + 1
    /\ UNCHANGED <<state, listed, chan, eplock, mutex, pc, call, ring_vars, last>>

scif_teardown_ep(e) ==
    /\ closer[e] \in {"teardown", "late"} /\ eplock[e] = None
    /\ closer' = [closer EXCEPT ![e] = IF @ = "late" THEN "lost" ELSE "gone"]
    /\ state' = [state EXCEPT ![e] = "ZOMBIE"]
    /\ UNCHANGED <<close_unchanged, listed, chan, pc>>

(***************************************************************************)
(* The messages                                                            *)
(***************************************************************************)
Received(e, m) == chan[e] # <<>> /\ Head(chan[e]) = m

(* Mutant: the notice of received data wakes nobody. *)
clientrcvd_drops(e) ==
    /\ Received(e, "CLIENT_RCVD")
    /\ chan' = [chan EXCEPT ![e] = Tail(@)]
    /\ UNCHANGED <<close_unchanged, ep_vars, pc>>

scif_clientrcvd(e) ==
    /\ Received(e, "CLIENT_RCVD")
    /\ pc' = Woken(Senders \cap At(e))
    /\ chan' = [chan EXCEPT ![e] = Tail(@)]
    /\ UNCHANGED <<close_unchanged, ep_vars>>

scif_clientsend(e) ==
    /\ Received(e, "CLIENT_SENT")
    /\ pc' = Woken(Receivers \cap At(e))
    /\ chan' = [chan EXCEPT ![e] = Tail(@)]
    /\ UNCHANGED <<close_unchanged, ep_vars>>

(* The peer closes.  An endpoint that is closing itself only answers.       *)
scif_discnct(e) ==
    /\ Received(e, "DISCNCT")
    /\ IF listed[e]
         THEN /\ eplock[e] = None
              /\ state' = [state EXCEPT ![e] = "DISCONNECTED"]
              /\ listed' = [listed EXCEPT ![e] = FALSE]
              /\ pc' = Woken(At(e))
         ELSE UNCHANGED <<state, listed, pc>>
    /\ chan' = [chan EXCEPT ![e] = Tail(@),
                            ![Peer(e)] = Append(@, "DISCNT_ACK")]
    /\ UNCHANGED <<close_unchanged, closer>>

(* A write to an endpoint that is gone reaches nothing that is modelled.    *)
scif_discnt_ack(e) ==
    /\ Received(e, "DISCNT_ACK") /\ eplock[e] = None
    /\ state' = [state EXCEPT ![e] = IF closer[e] = "lost" THEN @ ELSE "DISCONNECTED"]
    /\ closer' = [closer EXCEPT ![e] = IF @ \in {"ack", "late"} THEN "teardown" ELSE @]
    /\ chan' = [chan EXCEPT ![e] = Tail(@)]
    /\ UNCHANGED <<close_unchanged, listed, pc>>

(***************************************************************************)
(* The specification                                                       *)
(***************************************************************************)
Step(t) == \/ mutex_lock(t) \/ spin_lock(t) \/ send_write(t) \/ recv_read(t)
           \/ wait_event(t) \/ finish(t) \/ check_event(t)
Close(e) == close_wake(e) \/ close_sync(e) \/ scif_disconnect_ep(e)
            \/ scif_teardown_ep(e)
Handle(e) == scif_clientrcvd(e) \/ scif_clientsend(e) \/ scif_discnct(e)
             \/ scif_discnt_ack(e)

Next ==
    \/ \E t \in Thread, len \in 1..MaxLen, blk \in BOOLEAN : scif_call(t, len, blk)
    \/ \E t \in Thread : Step(t) \/ signal(t)
    \/ \E e \in End : \/ scif_close(e) \/ Close(e) \/ disconnect_timeout(e)
                      \/ Handle(e)

(* Threads inside the driver go on, and so do the handlers of messages.     *)
(* Nobody has to call it, and no timeout is counted on.                     *)
Fairness ==
    /\ \A t \in Thread : WF_vars(Step(t))
    /\ \A e \in End : WF_vars(Close(e)) /\ WF_vars(Handle(e))

Spec == Init /\ [][Next]_vars
FairSpec == Spec /\ Fairness

(***************************************************************************)
(* Properties                                                              *)
(***************************************************************************)
(* Every variable has its type; the ring holds what is committed and not    *)
(* released, always less than its size (scif_rb_space()).                   *)
TypeOK ==
    /\ state \in [End -> {"CONNECTED", "CLOSING", "DISCONNECTED", "ZOMBIE"}]
    /\ listed \in [End -> BOOLEAN]
    /\ closer \in [End -> {"open", "wake", "sync", "disconnect", "ack",
                           "teardown", "gone", "late", "lost"}]
    /\ chan \in [End -> Seq(Messages)]
    /\ eplock \in [End -> Thread \cup {None}] /\ mutex \in [End -> Thread \cup {None}]
    /\ pc \in [Thread -> Places]
    /\ call \in [Thread -> Calls] /\ last \in [Thread -> Results]
    /\ stream \in Seq(Senders \X Nat) /\ rd \in Nat /\ released \in Nat
    /\ released <= rd /\ rd <= Len(stream) /\ Len(stream) - released < Size

(* The bytes of one call are together in the stream: a message is neither   *)
(* fragmented nor mixed with another one, although its sender gives up the  *)
(* endpoint's lock to wait for room (sendlock; scif_send()).                *)
NotFragmented ==
    \A i, k \in 1..Len(stream) :
      i < k /\ stream[i] = stream[k] => stream[i + 1] = stream[i]

(* A call of thread t with len bytes is not cut into chunks.                *)
OnePiece(t, len) == EndOf(t) \in Kernel \/ len <= Chunk

(* What a successful call returns is what it has put into the stream, or    *)
(* taken out of it, and a call that fails has moved nothing, unless it was  *)
(* made for a user and is longer than a chunk: then scif_user_send() or     *)
(* scif_user_recv() returns the error of a later chunk alone, and its       *)
(* caller does not learn of the bytes of the earlier ones.                  *)
CountsTrue ==
    \A t \in Thread :
      /\ last[t].err = "none" => last[t].n = last[t].moved
      /\ last[t].err # "none" /\ OnePiece(t, last[t].len) => last[t].moved = 0

(* "subsequent calls to scif_recv() will copy all bytes received upto the   *)
(* point of disconnection" (scif.h): a receiver is told that the connection *)
(* has been reset only when it has had every byte that was ever sent.       *)
ResetMeansDrained ==
    \A t \in Receivers : last[t].err = "ECONNRESET" => rd = Len(stream)

(* The handlers that follow the endpoint's address in a message without     *)
(* looking it up (scif_clientsend(), scif_clientrcvd(), scif_discnt_ack())  *)
(* never meet an endpoint that has been torn down by a close which had its  *)
(* answer in time.  (A close that gives up waiting for SCIF_DISCNT_ACK      *)
(* leaves all that is still on its way to a freed endpoint.)                *)
MessageFindsEndpoint ==
    \A e \in End :
      chan[e] # <<>> /\ Head(chan[e]) # "DISCNCT" => closer[e] # "gone"

(* No wakeup is lost: whoever sleeps although it could go on is woken, so   *)
(* that a time comes when nobody does.                                      *)
Overslept == {t \in Thread : pc[t] = "asleep" /\ Ready(t)}
NoLostWakeup == Overslept # {} ~> Overslept = {}

(* Closes return, also while threads are blocked in calls (sendlock and     *)
(* recvlock in scif_disconnect_ep()), and without the timeout.              *)
Closing == {e \in End : closer[e] \notin {"open", "gone", "lost"}}
CloseReturns == Closing # {} ~> Closing = {}

(***************************************************************************)
(* Inductive invariants                                                    *)
(***************************************************************************)
(* A call that is not over has bytes left to move, and those it has moved   *)
(* are in this piece or in earlier ones, if it has several pieces.          *)
CallInv ==
    \A t \in Thread :
      pc[t] # "idle" => /\ call[t].done < call[t].len
                        /\ call[t].moved = call[t].done + call[t].part
                        /\ OnePiece(t, call[t].len) => call[t].done = 0

(* An endpoint that is closing, or has left the list, is not connected; one *)
(* that was disconnected before its close has left the list.                *)
EndInv ==
    \A e \in End :
      /\ closer[e] # "open" \/ ~listed[e] => state[e] # "CONNECTED"
      /\ closer[e] = "open" /\ state[e] = "DISCONNECTED" => ~listed[e]
      /\ closer[e] \in {"ack", "teardown", "gone", "late", "lost"} => ~listed[e]
      /\ state[e] = "DISCONNECTED" => state[Peer(e)] # "CONNECTED"

(* The acknowledgement of its DISCNCT may still come, in time or late.      *)
Owed(e) == closer[e] \in {"ack", "late", "lost"}

(* DISCNCT is the last that an endpoint sends on its own account, and       *)
(* DISCNT_ACK the last of all.                                              *)
MessageInv ==
    \A e \in End : \A i \in 1..Len(chan[e]) :
      /\ chan[e][i] = "DISCNCT" =>
            /\ Owed(Peer(e))
            /\ \A j \in i+1..Len(chan[e]) : chan[e][j] = "DISCNT_ACK"
            /\ \A j \in 1..Len(chan[Peer(e)]) : chan[Peer(e)][j] # "DISCNT_ACK"
      /\ chan[e][i] = "DISCNT_ACK" =>
            /\ Owed(e) /\ i = Len(chan[e]) /\ ~listed[Peer(e)]

(* When the peer has taken its leave, or has acknowledged ours, nothing     *)
(* more is on its way.                                                      *)
QuietInv ==
    \A e \in End :
      ~listed[e] /\ ~Owed(e) => chan[e] = <<>> /\ ~listed[Peer(e)]

(* Who is told of a reset has everything, and nothing more is sent.         *)
ResetInv ==
    \A t \in Receivers :
      last[t].err = "ECONNRESET" => state["A"] # "CONNECTED" /\ rd = Len(stream)

(* A sender inside its call holds sendlock, and the bytes of its unfinished *)
(* message are the last of the stream.                                      *)
LockInv ==
    \A t \in Senders : /\ pc[t] # "idle" => TakesMutex(t)
                       /\ pc[t] \notin {"idle", "lock"} => mutex["A"] = t

SeqInv == \A i \in 1..Len(stream) : stream[i][2] <= call[stream[i][1]].seq

Key(t) == <<t, call[t].seq>>
LastInv ==
    \A t \in Senders : \A i \in 1..Len(stream) :
      pc[t] # "idle" /\ stream[i] = Key(t) =>
        mutex["A"] = t /\ stream[Len(stream)] = Key(t)

WholeInv == LockInv /\ SeqInv /\ LastInv /\ NotFragmented

IInv == /\ TypeOK /\ CallInv /\ CountsTrue /\ EndInv /\ MessageInv /\ QuietInv
        /\ ResetInv

(***************************************************************************)
(* The ring under the connection                                           *)
(***************************************************************************)
taken == [i \in 1..rd |-> stream[i]]

Ring == INSTANCE ByteRing WITH Values <- Senders \X Nat, Room <- Size - 1,
                               in <- stream, pub <- Len(stream),
                               out <- taken, rel <- released

(* Whatever threads, signals, closes and messages do, the connection uses   *)
(* its ring as the bounded queue that ScifRb implements: _scif_send() only  *)
(* adds where there is room, _scif_recv() takes each byte once, in order,   *)
(* and gives back only what it has taken.                                   *)
UsesRing == Ring!Spec
=============================================================================
