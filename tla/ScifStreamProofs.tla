-------------------------- MODULE ScifStreamProofs --------------------------
(***************************************************************************)
(* Proofs about ScifStream, for any number of senders and receivers, any   *)
(* ring, chunk and message size, kernel and user endpoints alike.          *)
(***************************************************************************)
EXTENDS ScifStream, Integers, TLAPS

\* A leaf that names no back end is tried with SMT, again when its translation
\* runs out of time, and then with Zenon.
USE SMTT(60), SMTT(61), SMTT(62), SMTT(63), ZenonT(60)

LEMMA Ends ==
    /\ \A t \in Thread : EndOf(t) \in End
    /\ \A e \in End : Peer(e) \in End /\ Peer(Peer(e)) = e /\ Peer(e) # e
BY DEF End, EndOf, Peer

LEMMA InitInv == Init => IInv
<1> SUFFICES ASSUME Init PROVE IInv
    OBVIOUS
<1> USE ThreadAssumption, SizeAssumption DEF Init
<1>1. TypeOK
  <2>1. NoCall \in Calls /\ NoResult \in Results
      BY DEF NoCall, NoResult, Calls, Results
  <2>2. call \in [Thread -> Calls] /\ last \in [Thread -> Results]
      BY <2>1
  <2>3. stream \in Seq(Senders \X Nat) /\ Len(stream) = 0
      OBVIOUS
  <2>4. chan \in [End -> Seq(Messages)]
      OBVIOUS
  <2>5. /\ eplock \in [End -> Thread \cup {None}]
        /\ mutex \in [End -> Thread \cup {None}]
        /\ pc \in [Thread -> Places]
      BY DEF Places
  <2> QED
      BY <2>2, <2>3, <2>4, <2>5 DEF TypeOK
<1>2. CallInv /\ CountsTrue /\ ResetInv
    BY DEF CallInv, CountsTrue, ResetInv, Thread, NoResult
<1>3. EndInv /\ QuietInv
    BY Ends DEF EndInv, QuietInv, Owed
<1>4. MessageInv
    BY Ends DEF MessageInv
<1> QED
    BY <1>1, <1>2, <1>3, <1>4 DEF IInv

(***************************************************************************)
(* The threads                                                             *)
(***************************************************************************)
(* A step that leaves the endpoints, the messages and the ring alone.       *)
LEMMA ThreadInv ==
    ASSUME IInv, UNCHANGED <<state, listed, closer, chan, stream, rd, released>>,
           eplock' \in [End -> Thread \cup {None}],
           mutex' \in [End -> Thread \cup {None}],
           pc' \in [Thread -> Places], call' \in [Thread -> Calls],
           last' \in [Thread -> Results],
           CallInv', CountsTrue', ResetInv'
    PROVE  IInv'
<1>1. TypeOK /\ EndInv /\ MessageInv /\ QuietInv
    BY DEF IInv
<1>2. TypeOK'
    BY <1>1 DEF TypeOK
<1>3. EndInv' /\ QuietInv'
    BY <1>1 DEF EndInv, QuietInv, Owed
<1>4. MessageInv'
    BY <1>1 DEF MessageInv, Owed
<1> QED
    BY <1>2, <1>3, <1>4 DEF IInv

LEMMA CallStep ==
    ASSUME IInv, NEW t \in Thread, NEW len \in 1..MaxLen, NEW blk \in BOOLEAN,
           scif_call(t, len, blk)
    PROVE  IInv'
<1>1. TypeOK /\ CallInv /\ CountsTrue /\ ResetInv
    BY DEF IInv
<1>2. call[t] \in Calls /\ call[t].seq \in Nat /\ len \in Nat /\ len > 0
    BY <1>1, BoundAssumption DEF TypeOK, Calls
<1> DEFINE c == [blk |-> blk, len |-> len, done |-> 0, part |-> 0, moved |-> 0,
                 seq |-> call[t].seq + 1]
<1>3. /\ call' = [call EXCEPT ![t] = c]
      /\ pc' = [pc EXCEPT ![t] = "lock"]
      /\ UNCHANGED <<state, listed, closer, chan, stream, rd, released>>
      /\ UNCHANGED <<eplock, mutex, last>>
    BY DEF scif_call, ep_vars, ring_vars
<1>4. c \in Calls /\ c.done = 0 /\ c.len = len /\ c.moved = 0 /\ c.part = 0
    BY <1>2 DEF Calls
<1> HIDE DEF c
<1>6. call' \in [Thread -> Calls] /\ pc' \in [Thread -> Places]
    BY <1>1, <1>3, <1>4 DEF TypeOK, Places
<1>7. CallInv'
  <2>1. ASSUME NEW u \in Thread, pc'[u] # "idle"
        PROVE  /\ call'[u].done < call'[u].len
               /\ call'[u].moved = call'[u].done + call'[u].part
               /\ OnePiece(u, call'[u].len) => call'[u].done = 0
    <3>1. CASE u = t
        BY <3>1, <1>1, <1>2, <1>3, <1>4 DEF TypeOK
    <3>2. CASE u # t
        BY <3>2, <2>1, <1>1, <1>3 DEF TypeOK, CallInv
    <3> QED
        BY <3>1, <3>2
  <2> QED
      BY <2>1 DEF CallInv, OnePiece
<1>8. CountsTrue' /\ ResetInv'
    BY <1>1, <1>3 DEF CountsTrue, ResetInv, OnePiece
<1> QED
    BY <1>1, <1>3, <1>6, <1>7, <1>8, ThreadInv DEF TypeOK

(* The end of a piece: another one follows, or the call returns.            *)
LEMMA PieceStep ==
    ASSUME IInv, NEW t \in Thread, pc[t] # "idle",
           NEW err \in {"none", "ECONNRESET", "ENOTCONN", "EINTR"},
           err # "none" => call[t].part = 0,
           PieceDone(t, err)
    PROVE  /\ mutex' \in [End -> Thread \cup {None}]
           /\ pc' \in [Thread -> Places] /\ call' \in [Thread -> Calls]
           /\ last' \in [Thread -> Results]
           /\ CallInv' /\ CountsTrue'
           /\ \A u \in Thread : last'[u].err = "ECONNRESET" =>
                 last[u].err = "ECONNRESET" \/ (u = t /\ err = "ECONNRESET")
<1>1. TypeOK /\ CallInv /\ CountsTrue
    BY DEF IInv
<1>2. /\ call[t] \in Calls /\ call[t].done \in Nat /\ call[t].part \in Nat
      /\ call[t].len \in Nat /\ call[t].moved \in Nat
      /\ call[t].moved = call[t].done + call[t].part
      /\ OnePiece(t, call[t].len) => call[t].done = 0
    BY <1>1 DEF TypeOK, Calls, CallInv
<1> DEFINE done == call[t].done + call[t].part
<1>3. done \in Nat
    BY <1>2
<1>4. CASE err = "none" /\ call[t].part = Piece(t) /\ done < call[t].len
  <2> DEFINE c == [call[t] EXCEPT !.done = done, !.part = 0]
  <2>1. /\ call' = [call EXCEPT ![t].done = done, ![t].part = 0]
        /\ pc' = [pc EXCEPT ![t] = "enter"] /\ UNCHANGED <<mutex, last>>
      BY <1>4 DEF PieceDone
  <2>2. /\ c \in Calls /\ c.done = done /\ c.part = 0
        /\ c.len = call[t].len /\ c.moved = call[t].moved
      BY <1>2, <1>3, ZenonT(60) DEF Calls
  <2>3. call' = [call EXCEPT ![t] = c]
      BY <2>1, <1>1, ZenonT(60) DEF TypeOK
  <2> HIDE DEF c
  <2>4. call' \in [Thread -> Calls] /\ pc' \in [Thread -> Places]
    <3>1. call' \in [Thread -> Calls]
        BY <2>2, <2>3, <1>1 DEF TypeOK
    <3>2. pc' \in [Thread -> Places]
        BY <2>1, <1>1 DEF TypeOK, Places
    <3> QED
        BY <3>1, <3>2
  <2>5. CallInv'
    <3>1. ASSUME NEW u \in Thread, pc'[u] # "idle"
          PROVE  /\ call'[u].done < call'[u].len
                 /\ call'[u].moved = call'[u].done + call'[u].part
                 /\ OnePiece(u, call'[u].len) => call'[u].done = 0
      <4>1. CASE u = t
        <5>1. call'[u] = c
            BY <4>1, <2>3, <1>1 DEF TypeOK
        <5>2. ~OnePiece(t, call[t].len)
            BY <1>2, <1>4, SizeAssumption DEF OnePiece, Piece, Least
        <5> QED
            BY <5>1, <5>2, <4>1, <2>2, <1>2, <1>3, <1>4
      <4>2. CASE u # t
          BY <4>2, <3>1, <2>1, <2>3, <1>1 DEF TypeOK, CallInv
      <4> QED
          BY <4>1, <4>2
    <3> QED
        BY <3>1 DEF CallInv, OnePiece
  <2>6. CountsTrue'
      BY <2>1, <1>1 DEF CountsTrue, OnePiece
  <2> QED
      BY <2>1, <2>4, <2>5, <2>6, <1>1 DEF TypeOK
<1>5. CASE ~(err = "none" /\ call[t].part = Piece(t) /\ done < call[t].len)
  <2> DEFINE r == [n |-> IF err = "none" THEN done ELSE 0, err |-> err,
                   moved |-> call[t].moved, len |-> call[t].len]
  <2>1. /\ pc' = [pc EXCEPT ![t] = "idle"] /\ last' = [last EXCEPT ![t] = r]
        /\ mutex' = [e \in End |-> IF mutex[e] = t THEN None ELSE mutex[e]]
        /\ UNCHANGED call
      BY <1>5 DEF PieceDone, Return
  <2>2. /\ r \in Results /\ r.err = err /\ (err = "none" => r.n = r.moved)
        /\ err # "none" /\ OnePiece(t, r.len) => r.moved = 0
      BY <1>2, <1>3 DEF Results
  <2> HIDE DEF r
  <2>3. last' \in [Thread -> Results] /\ pc' \in [Thread -> Places]
      BY <2>1, <2>2, <1>1 DEF TypeOK, Places
  <2>4. mutex' \in [End -> Thread \cup {None}]
      BY <2>1, <1>1 DEF TypeOK
  <2>5. CallInv'
      BY <2>1, <1>1 DEF CallInv, TypeOK, OnePiece
  <2>6. CountsTrue'
    <3>1. ASSUME NEW u \in Thread
          PROVE  /\ last'[u].err = "none" => last'[u].n = last'[u].moved
                 /\ last'[u].err # "none" /\ OnePiece(u, last'[u].len) =>
                       last'[u].moved = 0
        BY <2>1, <2>2, <1>1 DEF TypeOK, CountsTrue
    <3> QED
        BY <3>1 DEF CountsTrue, OnePiece
  <2>7. \A u \in Thread : last'[u].err = "ECONNRESET" =>
           last[u].err = "ECONNRESET" \/ (u = t /\ err = "ECONNRESET")
      BY <2>1, <2>2, <1>1 DEF TypeOK
  <2> QED
      BY <2>1, <2>3, <2>4, <2>5, <2>6, <2>7, <1>1 DEF TypeOK
<1> QED
    BY <1>4, <1>5

(* A thread that only changes its place, and the locks it holds.            *)
LEMMA PlaceInv ==
    ASSUME IInv, UNCHANGED <<state, listed, closer, chan, stream, rd, released>>,
           UNCHANGED <<call, last>>,
           eplock' \in [End -> Thread \cup {None}],
           mutex' \in [End -> Thread \cup {None}],
           pc' \in [Thread -> Places],
           \A u \in Thread : pc'[u] # "idle" => pc[u] # "idle"
    PROVE  IInv'
<1>1. TypeOK /\ CallInv /\ CountsTrue /\ ResetInv
    BY DEF IInv
<1>2. CallInv'
    BY <1>1 DEF CallInv, OnePiece
<1>3. CountsTrue' /\ ResetInv'
    BY <1>1 DEF CountsTrue, ResetInv, OnePiece
<1> QED
    BY <1>1, <1>2, <1>3, ThreadInv DEF TypeOK

LEMMA LockSteps ==
    ASSUME IInv, NEW t \in Thread,
           mutex_lock(t) \/ spin_lock(t) \/ wait_event(t) \/ check_event(t)
    PROVE  IInv'
<1>1. TypeOK
    BY DEF IInv
<1>2. /\ UNCHANGED <<state, listed, closer, chan, stream, rd, released>>
      /\ UNCHANGED <<call, last>>
    BY DEF mutex_lock, spin_lock, wait_event, check_event, ep_vars, ring_vars
<1>3. /\ eplock' \in [End -> Thread \cup {None}]
      /\ mutex' \in [End -> Thread \cup {None}]
  <2>1. /\ eplock \in [End -> Thread \cup {None}]
        /\ mutex \in [End -> Thread \cup {None}]
      BY <1>1 DEF TypeOK
  <2> QED
      BY <2>1 DEF mutex_lock, spin_lock, wait_event, check_event
<1>4. pc' \in [Thread -> Places] /\ pc[t] # "idle"
  <2>1. pc \in [Thread -> Places]
      BY <1>1 DEF TypeOK
  <2> QED
      BY <2>1 DEF mutex_lock, spin_lock, wait_event, check_event, More, Places
<1>5. \A u \in Thread : pc'[u] # "idle" => pc[u] # "idle"
    BY <1>1, <1>4 DEF mutex_lock, spin_lock, wait_event, check_event, TypeOK
<1> QED
    BY <1>2, <1>3, <1>4, <1>5, PlaceInv

(* A piece is never empty.                                                  *)
LEMMA PieceSize ==
    ASSUME TypeOK, CallInv, NEW t \in Thread, pc[t] # "idle"
    PROVE  Piece(t) \in Nat /\ Piece(t) > 0
<1>1. /\ call[t].done \in Nat /\ call[t].len \in Nat /\ call[t].part \in Nat
      /\ call[t].done < call[t].len
    BY DEF TypeOK, Calls, CallInv
<1> QED
    BY <1>1, SizeAssumption DEF Piece, Least

LEMMA FinishStep ==
    ASSUME IInv, NEW t \in Thread, finish(t)
    PROVE  IInv'
<1>1. TypeOK /\ CallInv /\ ResetInv /\ EndInv
    BY DEF IInv
<1>2. /\ pc[t] = "loop" /\ PieceDone(t, LoopResult(t))
      /\ More(t) => Stuck(t)
      /\ eplock' = [eplock EXCEPT ![EndOf(t)] = None]
      /\ UNCHANGED <<state, listed, closer, chan, stream, rd, released>>
    BY DEF finish, ep_vars, ring_vars
<1>3. /\ LoopResult(t) \in {"none", "ECONNRESET", "ENOTCONN", "EINTR"}
      /\ LoopResult(t) # "none" => call[t].part = 0
    BY <1>1 DEF LoopResult, TypeOK, Calls
<1>4. eplock' \in [End -> Thread \cup {None}]
    BY <1>1, <1>2, ZenonT(60) DEF TypeOK
<1>5. ASSUME t \in Receivers, LoopResult(t) = "ECONNRESET"
      PROVE  state["A"] # "CONNECTED" /\ rd = Len(stream)
  <2>1. EndOf(t) = "B"
      BY <1>5, ThreadAssumption DEF EndOf, Thread
  <2>2. ~(call[t].part > 0) /\ state["B"] = "DISCONNECTED"
      BY <1>5, <2>1 DEF LoopResult
  <2>3. call[t].part \in Nat
      BY <1>1 DEF TypeOK, Calls
  <2>4. More(t)
    <3>1. Usable(t)
        BY <2>1, <2>2, <1>5, ThreadAssumption DEF Usable
    <3>2. Piece(t) \in Nat /\ Piece(t) > 0
        BY <1>1, <1>2, PieceSize
    <3> QED
        BY <3>1, <3>2, <1>2, <2>2, <2>3 DEF More
  <2>5. scif_rb_count = 0
      BY <1>2, <1>5, <2>4, ThreadAssumption DEF Stuck
  <2>6. state["A"] # "CONNECTED"
      BY <1>1, <2>2, Ends DEF EndInv, Peer, End
  <2> QED
      BY <1>1, <2>5, <2>6 DEF scif_rb_count, TypeOK
<1>6. /\ mutex' \in [End -> Thread \cup {None}]
      /\ pc' \in [Thread -> Places] /\ call' \in [Thread -> Calls]
      /\ last' \in [Thread -> Results]
      /\ CallInv' /\ CountsTrue'
      /\ \A u \in Thread : last'[u].err = "ECONNRESET" =>
            last[u].err = "ECONNRESET" \/ (u = t /\ LoopResult(t) = "ECONNRESET")
    BY <1>2, <1>3, PieceStep
<1>7. ResetInv'
  <2> SUFFICES ASSUME NEW u \in Receivers, last'[u].err = "ECONNRESET"
               PROVE  state["A"] # "CONNECTED" /\ rd = Len(stream)
      BY ZenonT(60), <1>2 DEF ResetInv
  <2>1. last[u].err = "ECONNRESET" \/ (u = t /\ LoopResult(t) = "ECONNRESET")
      BY ZenonT(60), <1>6 DEF Thread
  <2>2. CASE last[u].err = "ECONNRESET"
      BY ZenonT(60), <1>1, <2>2 DEF ResetInv
  <2>3. CASE u = t /\ LoopResult(t) = "ECONNRESET"
      BY ZenonT(60), <1>5, <2>3
  <2> QED
      BY <2>1, <2>2, <2>3
<1> QED
    BY <1>2, <1>4, <1>6, <1>7, ThreadInv

LEMMA SignalStep ==
    ASSUME IInv, NEW t \in Thread, signal(t)
    PROVE  IInv'
<1>1. TypeOK /\ ResetInv
    BY DEF IInv
<1> DEFINE err == IF call[t].part > 0 THEN "none" ELSE "EINTR"
<1>2. /\ pc[t] # "idle" /\ PieceDone(t, err)
      /\ UNCHANGED <<state, listed, closer, chan, stream, rd, released>>
      /\ UNCHANGED eplock
    BY DEF signal, ep_vars, ring_vars
<1>3. /\ err \in {"none", "ECONNRESET", "ENOTCONN", "EINTR"} /\ err # "ECONNRESET"
      /\ err # "none" => call[t].part = 0
    BY <1>1 DEF TypeOK, Calls
<1> HIDE DEF err
<1>4. /\ mutex' \in [End -> Thread \cup {None}]
      /\ pc' \in [Thread -> Places] /\ call' \in [Thread -> Calls]
      /\ last' \in [Thread -> Results]
      /\ CallInv' /\ CountsTrue'
      /\ \A u \in Thread : last'[u].err = "ECONNRESET" =>
            last[u].err = "ECONNRESET" \/ (u = t /\ err = "ECONNRESET")
    BY <1>2, <1>3, PieceStep
<1>5. ResetInv'
    BY <1>1, <1>2, <1>3, <1>4 DEF ResetInv, Thread
<1> QED
    BY <1>1, <1>2, <1>4, <1>5, ThreadInv DEF TypeOK

(***************************************************************************)
(* The ring                                                                *)
(***************************************************************************)
(* A connected endpoint may send: no leave has been taken on either side.   *)
LEMMA DataMessage ==
    ASSUME TypeOK, EndInv, MessageInv, QuietInv, NEW e \in End,
           state[e] = "CONNECTED", NEW m \in {"CLIENT_SENT", "CLIENT_RCVD"},
           chan' = [chan EXCEPT ![Peer(e)] = Append(@, m)],
           UNCHANGED <<state, listed, closer>>
    PROVE  chan' \in [End -> Seq(Messages)] /\ EndInv' /\ MessageInv' /\ QuietInv'
<1> DEFINE p == Peer(e)
<1>1. p \in End /\ Peer(p) = e /\ p # e /\ End = {e, p}
    BY Ends DEF End, Peer
<1>2. closer[e] = "open" /\ listed[e]
    BY DEF EndInv
<1>3. \A i \in 1..Len(chan[p]) : chan[p][i] \notin {"DISCNCT", "DISCNT_ACK"}
    BY <1>1, <1>2 DEF MessageInv, Owed
<1>4. chan[p] \in Seq(Messages) /\ m \in Messages
    BY <1>1 DEF TypeOK, Messages
<1>5. chan'[p] = Append(chan[p], m) /\ chan'[e] = chan[e]
    BY <1>1 DEF TypeOK
<1> HIDE DEF p
<1>6. \A i \in 1..Len(chan'[p]) : chan'[p][i] \notin {"DISCNCT", "DISCNT_ACK"}
    BY <1>3, <1>4, <1>5
<1>7. MessageInv'
  <2>1. Peer(e) = p
      BY DEF p
  <2> QED
      BY <1>1, <1>2, <1>5, <1>6, <2>1 DEF MessageInv, Owed
<1>8. chan' \in [End -> Seq(Messages)]
  <2>1. Append(chan[p], m) \in Seq(Messages)
      BY <1>4
  <2> QED
      BY <1>1, <2>1 DEF TypeOK, p
<1>9. QuietInv'
  <2>1. Peer(e) = p
      BY DEF p
  <2> QED
      BY <1>1, <1>2, <1>5, <2>1 DEF QuietInv, Owed
<1> QED
    BY <1>7, <1>8, <1>9 DEF EndInv

LEMMA MovedInv ==
    ASSUME TypeOK, CallInv, NEW t \in Thread, NEW n \in Nat, call' = Moved(t, n),
           UNCHANGED pc
    PROVE  call' \in [Thread -> Calls] /\ CallInv'
<1>1. /\ call[t] \in Calls /\ call[t].part \in Nat /\ call[t].moved \in Nat
      /\ call[t].done \in Nat /\ call[t].len \in Nat
    BY DEF TypeOK, Calls
<1> DEFINE a == call[t].part + n
           b == call[t].moved + n
           c == [call[t] EXCEPT !.part = a, !.moved = b]
<1>2. call' = [call EXCEPT ![t] = c]
    BY ZenonT(60) DEF Moved, TypeOK
<1>3. /\ c \in Calls /\ c.part = a /\ c.moved = b
      /\ c.done = call[t].done /\ c.len = call[t].len
  <2>1. a \in Nat /\ b \in Nat
      BY <1>1
  <2> HIDE DEF a, b
  <2> QED
      BY <1>1, <2>1, ZenonT(60) DEF Calls
<1> HIDE DEF c
<1>4. call' \in [Thread -> Calls]
    BY <1>2, <1>3 DEF TypeOK
<1>5. ASSUME NEW u \in Thread, pc'[u] # "idle"
      PROVE  /\ call'[u].done < call'[u].len
             /\ call'[u].moved = call'[u].done + call'[u].part
             /\ OnePiece(u, call'[u].len) => call'[u].done = 0
  <2>1. CASE u = t
    <3>1. call'[u] = c
        BY <2>1, <1>2 DEF TypeOK
    <3>2. /\ call[t].done < call[t].len
          /\ call[t].moved = call[t].done + call[t].part
          /\ OnePiece(t, call[t].len) => call[t].done = 0
        BY <2>1, <1>5 DEF CallInv
    <3> QED
        BY <3>1, <3>2, <2>1, <1>1, <1>3
  <2>2. CASE u # t
      BY <2>2, <1>2, <1>5 DEF TypeOK, CallInv
  <2> QED
      BY <2>1, <2>2
<1> QED
    BY <1>4, <1>5 DEF CallInv, OnePiece

LEMMA SendStep ==
    ASSUME IInv, NEW t \in Thread, send_write(t)
    PROVE  IInv'
<1>1. /\ TypeOK /\ CallInv /\ EndInv /\ MessageInv /\ QuietInv /\ ResetInv
      /\ CountsTrue
    BY DEF IInv
<1> DEFINE n == Least(Piece(t) - call[t].part, scif_rb_space)
<1>2. /\ t \in Senders /\ More(t) /\ ~Stuck(t)
      /\ stream' = stream \o [i \in 1..n |-> <<t, call[t].seq>>]
      /\ call' = Moved(t, n)
      /\ chan' = [chan EXCEPT !["B"] = Append(@, "CLIENT_SENT")]
      /\ UNCHANGED <<state, listed, closer>>
      /\ UNCHANGED <<eplock, mutex, pc, last>>
      /\ UNCHANGED <<rd, released>>
    BY ZenonT(60) DEF send_write, ep_vars
<1>3. pc[t] = "loop" /\ state["A"] = "CONNECTED"
    BY <1>2 DEF More, Usable, EndOf
<1>4. n \in Nat /\ n <= scif_rb_space
  <2>1. /\ call[t].part \in Nat /\ call[t].part < Piece(t)
        /\ Piece(t) \in Nat
      BY <1>1, <1>2, <1>3, PieceSize DEF More, TypeOK, Calls
  <2>2. scif_rb_space \in Nat
      BY <1>1, SizeAssumption DEF scif_rb_space, TypeOK
  <2> QED
      BY <2>1, <2>2 DEF Least
<1> HIDE DEF n
<1>5. call' \in [Thread -> Calls] /\ CallInv'
    BY <1>1, <1>2, <1>4, MovedInv
<1>6. stream' \in Seq(Senders \X Nat) /\ Len(stream') = Len(stream) + n
  <2>1. <<t, call[t].seq>> \in Senders \X Nat
      BY <1>1, <1>2 DEF TypeOK, Calls
  <2> DEFINE s == [i \in 1..n |-> <<t, call[t].seq>>]
  <2>2. s \in Seq(Senders \X Nat) /\ Len(s) = n
      BY <1>4, <2>1
  <2>3. stream \in Seq(Senders \X Nat) /\ stream' = stream \o s
      BY <1>1, <1>2 DEF TypeOK
  <2> DEFINE S == Senders \X Nat
  <2>4. ASSUME NEW a \in Seq(S), NEW b \in Seq(S)
        PROVE  a \o b \in Seq(S) /\ Len(a \o b) = Len(a) + Len(b)
    <3> HIDE DEF S
    <3> QED
        OBVIOUS
  <2> HIDE DEF s
  <2> QED
      BY <2>2, <2>3, <2>4, ZenonT(60)
<1>7. /\ released' <= rd' /\ rd' <= Len(stream')
      /\ Len(stream') - released' < Size
    BY <1>1, <1>2, <1>4, <1>6, SizeAssumption DEF TypeOK, scif_rb_space
<1>8. chan' \in [End -> Seq(Messages)] /\ EndInv' /\ MessageInv' /\ QuietInv'
  <2>1. "A" \in End /\ Peer("A") = "B"
      BY DEF End, Peer
  <2> QED
      BY <1>1, <1>2, <1>3, <2>1, DataMessage, ZenonT(60)
<1>9. TypeOK'
    BY <1>1, <1>2, <1>5, <1>6, <1>7, <1>8, ZenonT(60) DEF TypeOK
<1>10. CountsTrue' /\ ResetInv'
    BY <1>1, <1>2, <1>3 DEF CountsTrue, ResetInv, OnePiece
<1> QED
    BY <1>5, <1>8, <1>9, <1>10 DEF IInv

LEMMA RecvStep ==
    ASSUME IInv, NEW t \in Thread, recv_read(t)
    PROVE  IInv'
<1>1. /\ TypeOK /\ CallInv /\ EndInv /\ MessageInv /\ QuietInv /\ ResetInv
      /\ CountsTrue
    BY DEF IInv
<1> DEFINE n == Least(Piece(t) - call[t].part, scif_rb_count)
<1>2. /\ t \in Receivers /\ More(t) /\ ~Stuck(t)
      /\ rd' = rd + n /\ call' = Moved(t, n)
      /\ IF state["B"] = "CONNECTED"
           THEN /\ released' = rd'
                /\ chan' = [chan EXCEPT !["A"] = Append(@, "CLIENT_RCVD")]
           ELSE UNCHANGED <<released, chan>>
      /\ UNCHANGED <<state, listed, closer>>
      /\ UNCHANGED <<eplock, mutex, pc, last>>
      /\ UNCHANGED stream
    BY DEF recv_read, ep_vars
<1>3. pc[t] = "loop" /\ scif_rb_count # 0
    BY <1>2, ThreadAssumption DEF More, Stuck
<1>4. n \in Nat /\ n <= scif_rb_count
  <2>1. /\ call[t].part \in Nat /\ call[t].part < Piece(t)
        /\ Piece(t) \in Nat
      BY <1>1, <1>2, <1>3, PieceSize DEF More, TypeOK, Calls
  <2>2. scif_rb_count \in Nat
      BY <1>1 DEF scif_rb_count, TypeOK
  <2> QED
      BY <2>1, <2>2 DEF Least
<1> HIDE DEF n
<1>5. call' \in [Thread -> Calls] /\ CallInv'
    BY <1>1, <1>2, <1>4, MovedInv
<1>6. /\ rd' \in Nat /\ released' \in Nat
      /\ released' <= rd' /\ rd' <= Len(stream')
      /\ Len(stream') - released' < Size
    BY <1>1, <1>2, <1>4, SizeAssumption DEF TypeOK, scif_rb_count
<1>7. chan' \in [End -> Seq(Messages)] /\ EndInv' /\ MessageInv' /\ QuietInv'
  <2>1. "B" \in End /\ Peer("B") = "A"
      BY DEF End, Peer
  <2>2. CASE state["B"] = "CONNECTED"
      BY <1>1, <1>2, <2>1, <2>2, DataMessage
  <2>3. CASE state["B"] # "CONNECTED"
    <3>1. UNCHANGED <<state, listed, closer, chan>>
        BY <1>2, <2>3
    <3>2. EndInv' /\ QuietInv'
        BY <1>1, <3>1 DEF EndInv, QuietInv, Owed
    <3>3. MessageInv'
        BY <1>1, <3>1 DEF MessageInv, Owed
    <3> QED
        BY <1>1, <3>1, <3>2, <3>3 DEF TypeOK
  <2> QED
      BY <2>2, <2>3
<1>8. TypeOK'
    BY <1>1, <1>2, <1>5, <1>6, <1>7 DEF TypeOK
<1>9. ResetInv'
    BY <1>1, <1>2, <1>3 DEF ResetInv, TypeOK, scif_rb_count
<1>10. CountsTrue'
    BY <1>1, <1>2 DEF CountsTrue, OnePiece
<1> QED
    BY <1>5, <1>7, <1>8, <1>9, <1>10 DEF IInv

(***************************************************************************)
(* The endpoints                                                           *)
(***************************************************************************)
(* A step that leaves the ring, the calls and their results alone.          *)
LEMMA EndStep ==
    ASSUME IInv, UNCHANGED <<eplock, mutex, call, stream, rd, released, last>>,
           state' \in [End -> {"CONNECTED", "CLOSING", "DISCONNECTED", "ZOMBIE"}],
           listed' \in [End -> BOOLEAN],
           closer' \in [End -> {"open", "wake", "sync", "disconnect", "ack",
                                "teardown", "gone", "late", "lost"}],
           chan' \in [End -> Seq(Messages)],
           \/ UNCHANGED pc
           \/ \E ts : pc' = Woken(ts),
           \A e \in End : state[e] # "CONNECTED" => state'[e] # "CONNECTED",
           EndInv', MessageInv', QuietInv'
    PROVE  IInv'
<1>1. TypeOK /\ CallInv /\ CountsTrue /\ ResetInv
    BY DEF IInv
<1>2. /\ pc' \in [Thread -> Places]
      /\ \A u \in Thread : pc'[u] # "idle" => pc[u] # "idle"
    BY <1>1 DEF Woken, TypeOK, Places
<1>3. TypeOK'
    BY <1>1, <1>2 DEF TypeOK
<1>4. CallInv'
    BY <1>1, <1>2 DEF CallInv, OnePiece
<1>5. CountsTrue'
    BY <1>1 DEF CountsTrue, OnePiece
<1>6. ResetInv'
    BY <1>1 DEF ResetInv, End
<1> QED
    BY <1>3, <1>4, <1>5, <1>6 DEF IInv

(* A close that goes on without a message: whether an acknowledgement is    *)
(* owed stays as it is.                                                     *)
LEMMA CloserInv ==
    ASSUME TypeOK, MessageInv, QuietInv, NEW e \in End, NEW c,
           closer' = [closer EXCEPT ![e] = c],
           c \in {"ack", "late", "lost"} <=> Owed(e),
           UNCHANGED <<listed, chan>>
    PROVE  MessageInv' /\ QuietInv'
<1>1. \A x \in End : Owed(x)' <=> Owed(x)
    BY DEF TypeOK, Owed
<1>2. MessageInv'
    BY <1>1, Ends DEF MessageInv
<1>3. QuietInv'
    BY <1>1, Ends DEF QuietInv
<1> QED
    BY <1>2, <1>3

LEMMA CloseSteps ==
    ASSUME IInv, NEW e \in End,
           \/ scif_close(e) \/ close_wake(e) \/ close_sync(e)
           \/ disconnect_timeout(e) \/ scif_teardown_ep(e)
    PROVE  IInv'
<1>1. TypeOK /\ EndInv /\ MessageInv /\ QuietInv
    BY DEF IInv
<1>2. /\ UNCHANGED <<eplock, mutex, call, stream, rd, released, last>>
      /\ UNCHANGED <<listed, chan>>
    BY DEF scif_close, close_wake, close_sync, disconnect_timeout, scif_teardown_ep,
           close_unchanged, ring_vars
<1>3. PICK c \in {"wake", "sync", "teardown", "disconnect", "gone", "late", "lost"} :
        /\ closer' = [closer EXCEPT ![e] = c]
        /\ c \in {"ack", "late", "lost"} <=> Owed(e)
  <2>1. CASE scif_close(e)
      BY <2>1, ZenonT(60) DEF scif_close, Owed
  <2>2. CASE close_wake(e)
      BY <2>2 DEF close_wake, Owed
  <2>3. CASE close_sync(e)
      BY <2>3 DEF close_sync, Owed
  <2>4. CASE disconnect_timeout(e)
      BY <2>4 DEF disconnect_timeout, Owed
  <2>5. CASE scif_teardown_ep(e)
    <3>1. closer' = [closer EXCEPT ![e] = IF closer[e] = "late" THEN "lost" ELSE "gone"]
        BY <2>5, <1>1 DEF scif_teardown_ep, TypeOK
    <3> QED
        BY <2>5, <3>1, ZenonT(60) DEF scif_teardown_ep, Owed
  <2> QED
      BY <2>1, <2>2, <2>3, <2>4, <2>5
<1>4. \/ UNCHANGED pc
      \/ \E ts : pc' = Woken(ts)
    BY DEF scif_close, close_wake, close_sync, disconnect_timeout, scif_teardown_ep
<1>5. /\ state' \in [End -> {"CONNECTED", "CLOSING", "DISCONNECTED", "ZOMBIE"}]
      /\ \A x \in End : state[x] # "CONNECTED" => state'[x] # "CONNECTED"
    BY <1>1, ZenonT(60) DEF scif_close, close_wake, close_sync, disconnect_timeout,
                            scif_teardown_ep, TypeOK
<1>6. closer' \in [End -> {"open", "wake", "sync", "disconnect", "ack",
                           "teardown", "gone", "late", "lost"}]
    BY <1>1, <1>3 DEF TypeOK
<1>7. EndInv'
  <2>1. CASE scif_close(e)
      BY <2>1, <1>1, Ends DEF scif_close, EndInv, TypeOK
  <2>2. CASE close_wake(e)
      BY <2>2, <1>1, Ends DEF close_wake, EndInv, TypeOK
  <2>3. CASE close_sync(e)
      BY <2>3, <1>1, Ends DEF close_sync, EndInv, TypeOK
  <2>4. CASE disconnect_timeout(e)
      BY <2>4, <1>1, Ends DEF disconnect_timeout, EndInv, TypeOK
  <2>5. CASE scif_teardown_ep(e)
      BY <2>5, <1>1, Ends DEF scif_teardown_ep, EndInv, TypeOK
  <2> QED
      BY <2>1, <2>2, <2>3, <2>4, <2>5
<1>8. MessageInv' /\ QuietInv'
    BY <1>1, <1>2, <1>3, CloserInv, ZenonT(60)
<1> QED
    BY <1>1, <1>2, <1>4, <1>5, <1>6, <1>7, <1>8, EndStep DEF TypeOK

(* DISCNCT is sent while nothing that it would overtake can still be sent.  *)
LEMMA DisconnectStep ==
    ASSUME IInv, NEW e \in End, scif_disconnect_ep(e)
    PROVE  IInv'
<1>1. TypeOK /\ EndInv /\ MessageInv /\ QuietInv
    BY DEF IInv
<1>2. /\ UNCHANGED <<eplock, mutex, call, stream, rd, released, last>>
      /\ UNCHANGED <<state, pc>>
      /\ closer[e] = "disconnect"
      /\ listed' = [listed EXCEPT ![e] = FALSE]
      /\ closer' = [closer EXCEPT ![e] = IF listed[e] THEN "ack" ELSE "teardown"]
      /\ chan' = IF listed[e] THEN [chan EXCEPT ![Peer(e)] = Append(@, "DISCNCT")]
                              ELSE chan
    BY ZenonT(60) DEF scif_disconnect_ep, close_unchanged, ring_vars
<1>3. /\ listed' \in [End -> BOOLEAN]
      /\ closer' \in [End -> {"open", "wake", "sync", "disconnect", "ack",
                              "teardown", "gone", "late", "lost"}]
    BY <1>1, <1>2 DEF TypeOK
<1>4. EndInv'
    BY <1>1, <1>2, Ends DEF EndInv, TypeOK
<1>5. CASE ~listed[e]
  <2>1. UNCHANGED <<listed, chan>> /\ closer' = [closer EXCEPT ![e] = "teardown"]
      BY <1>1, <1>2, <1>5 DEF TypeOK
  <2>2. ~Owed(e)
      BY <1>2 DEF Owed
  <2>3. MessageInv' /\ QuietInv'
      BY <1>1, <1>2, <2>1, <2>2, CloserInv, ZenonT(60)
  <2> QED
      BY <1>1, <1>2, <1>3, <1>4, <2>1, <2>3, EndStep DEF TypeOK
<1>6. CASE listed[e]
  <2>1. PICK p \in End : p = Peer(e) /\ Peer(p) = e /\ p # e /\ End = {e, p}
      BY Ends DEF End, Peer
  <2>2. /\ chan[p] \in Seq(Messages) /\ "DISCNCT" \in Messages
        /\ chan'[p] = Append(chan[p], "DISCNCT") /\ chan'[e] = chan[e]
        /\ ~Owed(e) /\ Owed(e)' /\ (Owed(p)' <=> Owed(p))
        /\ ~listed'[e] /\ listed'[p] = listed[p]
      BY <1>1, <1>2, <1>6, <2>1 DEF TypeOK, Messages, Owed
  <2>3. \A i \in 1..Len(chan[p]) : chan[p][i] \notin {"DISCNCT", "DISCNT_ACK"}
      BY <1>1, <1>6, <2>1, <2>2 DEF MessageInv
  <2>4. \A i \in 1..Len(chan[e]) : chan[e][i] # "DISCNT_ACK"
      BY <1>1, <2>2 DEF MessageInv
  <2>5. chan' \in [End -> Seq(Messages)]
    <3>1. Append(chan[p], "DISCNCT") \in Seq(Messages)
        BY <2>2
    <3> QED
        BY <1>1, <1>2, <1>6, <2>1, <3>1 DEF TypeOK
  <2>6. /\ Len(chan'[p]) = Len(chan[p]) + 1
        /\ \A i \in 1..Len(chan[p]) : chan'[p][i] = chan[p][i]
        /\ chan'[p][Len(chan'[p])] = "DISCNCT"
        /\ Len(chan[p]) \in Nat
      BY <2>2
  <2>7. \A i \in 1..Len(chan'[p]) :
          chan'[p][i] # "DISCNT_ACK" /\ (chan'[p][i] = "DISCNCT" => i = Len(chan'[p]))
      BY <2>3, <2>6
  <2>8. MessageInv'
    <3>1. ASSUME NEW i \in 1..Len(chan'[p])
          PROVE  /\ chan'[p][i] = "DISCNCT" =>
                      /\ Owed(e)'
                      /\ \A j \in i+1..Len(chan'[p]) : chan'[p][j] = "DISCNT_ACK"
                      /\ \A j \in 1..Len(chan'[e]) : chan'[e][j] # "DISCNT_ACK"
                 /\ chan'[p][i] # "DISCNT_ACK"
        BY <2>2, <2>4, <2>6, <2>7
    <3>2. ASSUME NEW i \in 1..Len(chan'[e])
          PROVE  /\ chan'[e][i] = "DISCNCT" =>
                      /\ Owed(p)'
                      /\ \A j \in i+1..Len(chan'[e]) : chan'[e][j] = "DISCNT_ACK"
                      /\ \A j \in 1..Len(chan'[p]) : chan'[p][j] # "DISCNT_ACK"
                 /\ chan'[e][i] # "DISCNT_ACK"
        BY <1>1, <2>1, <2>2, <2>4, <2>7 DEF MessageInv
    <3> QED
        BY <2>1, <3>1, <3>2 DEF MessageInv
  <2>9. QuietInv'
      BY <1>1, <1>6, <2>1, <2>2 DEF QuietInv
  <2> QED
      BY <1>1, <1>2, <1>3, <1>4, <2>5, <2>8, <2>9, EndStep DEF TypeOK
<1> QED
    BY <1>5, <1>6

(* What is left of a queue after its head.                                  *)
LEMMA Rest ==
    ASSUME NEW S, NEW s \in Seq(S), s # <<>>
    PROVE  /\ Tail(s) \in Seq(S) /\ Len(Tail(s)) = Len(s) - 1 /\ Len(s) > 0
           /\ Head(s) = s[1] /\ Len(s) \in Nat
           /\ \A i \in 1..Len(Tail(s)) : i + 1 \in 1..Len(s) /\ Tail(s)[i] = s[i + 1]
OBVIOUS

(* MessageInv for one message.                                              *)
LEMMA Message ==
    ASSUME MessageInv, NEW e \in End, NEW k \in 1..Len(chan[e])
    PROVE  /\ chan[e][k] = "DISCNCT" =>
                 /\ Owed(Peer(e))
                 /\ \A j \in k+1..Len(chan[e]) : chan[e][j] = "DISCNT_ACK"
                 /\ \A j \in 1..Len(chan[Peer(e)]) : chan[Peer(e)][j] # "DISCNT_ACK"
           /\ chan[e][k] = "DISCNT_ACK" =>
                 Owed(e) /\ k = Len(chan[e]) /\ ~listed[Peer(e)]
BY DEF MessageInv

LEMMA DataStep ==
    ASSUME IInv, NEW e \in End, scif_clientrcvd(e) \/ scif_clientsend(e)
    PROVE  IInv'
<1>1. TypeOK /\ EndInv /\ MessageInv /\ QuietInv
    BY DEF IInv
<1>2. /\ UNCHANGED <<eplock, mutex, call, stream, rd, released, last>>
      /\ UNCHANGED <<state, listed, closer>>
      /\ \E ts : pc' = Woken(ts)
      /\ chan[e] # <<>> /\ Head(chan[e]) \in {"CLIENT_RCVD", "CLIENT_SENT"}
      /\ chan' = [chan EXCEPT ![e] = Tail(@)]
    BY DEF scif_clientrcvd, scif_clientsend, close_unchanged, ring_vars, ep_vars,
           Received
<1>3. PICK p \in End : p = Peer(e) /\ Peer(p) = e /\ p # e /\ End = {e, p}
    BY Ends DEF End, Peer
<1>4. /\ chan[e] \in Seq(Messages) /\ chan'[e] = Tail(chan[e])
      /\ chan'[p] = chan[p]
      /\ Owed(e)' <=> Owed(e)
      /\ Owed(p)' <=> Owed(p)
    BY <1>1, <1>2, <1>3 DEF TypeOK, Owed
<1>5. /\ chan'[e] \in Seq(Messages) /\ Len(chan'[e]) = Len(chan[e]) - 1
      /\ Len(chan[e]) \in Nat
      /\ \A i \in 1..Len(chan'[e]) :
            i + 1 \in 1..Len(chan[e]) /\ chan'[e][i] = chan[e][i + 1]
    BY ZenonT(60), <1>2, <1>4, Rest, ZenonT(60)
<1>6. chan' \in [End -> Seq(Messages)]
    BY <1>1, <1>2, <1>4, <1>5 DEF TypeOK
<1>7. EndInv' /\ QuietInv'
    BY <1>1, <1>2, <1>3, <1>4 DEF EndInv, QuietInv
<1>8. MessageInv'
  <2>1. ASSUME NEW i \in 1..Len(chan'[e])
        PROVE  /\ chan'[e][i] = "DISCNCT" =>
                    /\ Owed(p)'
                    /\ \A j \in i+1..Len(chan'[e]) : chan'[e][j] = "DISCNT_ACK"
                    /\ \A j \in 1..Len(chan'[p]) : chan'[p][j] # "DISCNT_ACK"
               /\ chan'[e][i] = "DISCNT_ACK" =>
                    /\ Owed(e)' /\ i = Len(chan'[e]) /\ ~listed'[p]
    <3>1. PICK k \in 1..Len(chan[e]) : k = i + 1 /\ chan'[e][i] = chan[e][k]
        BY <2>1, <1>5
    <3>2. ASSUME chan'[e][i] = "DISCNCT"
          PROVE  /\ Owed(p)'
                 /\ \A j \in i+1..Len(chan'[e]) : chan'[e][j] = "DISCNT_ACK"
                 /\ \A j \in 1..Len(chan'[p]) : chan'[p][j] # "DISCNT_ACK"
      <4>1. /\ Owed(p)
            /\ \A j \in k+1..Len(chan[e]) : chan[e][j] = "DISCNT_ACK"
            /\ \A j \in 1..Len(chan[p]) : chan[p][j] # "DISCNT_ACK"
        <5>1. chan[e][k] = "DISCNCT"
            BY <3>1, <3>2
        <5> QED
            BY <5>1, <1>1, <1>3, Message
      <4>2. ASSUME NEW j \in i+1..Len(chan'[e])
            PROVE  chan'[e][j] = "DISCNT_ACK"
        <5>1. j \in 1..Len(chan'[e]) /\ j + 1 \in k+1..Len(chan[e])
            BY <2>1, <3>1, <4>2, <1>5
        <5>2. chan'[e][j] = chan[e][j + 1]
            BY <5>1, <1>5, ZenonT(60)
        <5> QED
            BY <5>1, <5>2, <4>1, ZenonT(60)
      <4> QED
          BY <4>1, <4>2, <1>2, <1>4, ZenonT(60)
    <3>3. ASSUME chan'[e][i] = "DISCNT_ACK"
          PROVE  Owed(e)' /\ i = Len(chan'[e]) /\ ~listed'[p]
      <4>1. Owed(e) /\ k = Len(chan[e]) /\ ~listed[p]
        <5>1. chan[e][k] = "DISCNT_ACK"
            BY <3>1, <3>3
        <5> QED
            BY <5>1, <1>1, <1>3, Message
      <4> QED
          BY <3>1, <4>1, <1>2, <1>4, <1>5
    <3> QED
        BY <3>2, <3>3
  <2>2. ASSUME NEW i \in 1..Len(chan'[p])
        PROVE  /\ chan'[p][i] = "DISCNCT" =>
                    /\ Owed(e)'
                    /\ \A j \in i+1..Len(chan'[p]) : chan'[p][j] = "DISCNT_ACK"
                    /\ \A j \in 1..Len(chan'[e]) : chan'[e][j] # "DISCNT_ACK"
               /\ chan'[p][i] = "DISCNT_ACK" =>
                    /\ Owed(p)' /\ i = Len(chan'[p]) /\ ~listed'[e]
      BY <1>1, <1>2, <1>3, <1>4, <1>5 DEF MessageInv
  <2> QED
      BY <1>3, <2>1, <2>2 DEF MessageInv
<1> QED
    BY <1>1, <1>2, <1>6, <1>7, <1>8, EndStep DEF TypeOK

(* After the peer's DISCNCT only its acknowledgement can follow, and that   *)
(* only if this end has sent a DISCNCT of its own.                          *)
LEMMA DiscnctStep ==
    ASSUME IInv, NEW e \in End, scif_discnct(e)
    PROVE  IInv'
<1>1. TypeOK /\ EndInv /\ MessageInv /\ QuietInv
    BY DEF IInv
<1>2. /\ UNCHANGED <<eplock, mutex, call, stream, rd, released, last>>
      /\ UNCHANGED closer
      /\ chan[e] # <<>> /\ Head(chan[e]) = "DISCNCT"
      /\ chan' = [chan EXCEPT ![e] = Tail(@), ![Peer(e)] = Append(@, "DISCNT_ACK")]
    BY ZenonT(60) DEF scif_discnct, close_unchanged, ring_vars, Received
<1>3. PICK p \in End : p = Peer(e) /\ Peer(p) = e /\ p # e /\ End = {e, p}
    BY Ends DEF End, Peer
<1>4. /\ chan[e] \in Seq(Messages) /\ chan'[e] = Tail(chan[e])
      /\ chan[p] \in Seq(Messages) /\ "DISCNT_ACK" \in Messages
      /\ chan'[p] = Append(chan[p], "DISCNT_ACK")
      /\ Owed(e)' <=> Owed(e)
      /\ Owed(p)' <=> Owed(p)
    BY <1>1, <1>2, <1>3 DEF TypeOK, Messages, Owed
<1>5. /\ chan'[e] \in Seq(Messages) /\ Len(chan'[e]) = Len(chan[e]) - 1
      /\ Len(chan[e]) \in Nat /\ Len(chan[e]) > 0 /\ chan[e][1] = "DISCNCT"
      /\ \A i \in 1..Len(chan'[e]) :
            i + 1 \in 1..Len(chan[e]) /\ chan'[e][i] = chan[e][i + 1]
    BY ZenonT(60), <1>2, <1>4, Rest, ZenonT(60)
<1>6. /\ chan'[p] \in Seq(Messages) /\ Len(chan'[p]) = Len(chan[p]) + 1
      /\ Len(chan[p]) \in Nat
      /\ \A i \in 1..Len(chan[p]) : chan'[p][i] = chan[p][i]
      /\ chan'[p][Len(chan[p]) + 1] = "DISCNT_ACK"
    BY <1>4
<1>7. /\ Owed(p)
      /\ \A j \in 2..Len(chan[e]) : chan[e][j] = "DISCNT_ACK"
      /\ \A j \in 1..Len(chan[p]) : chan[p][j] # "DISCNT_ACK"
  <2>1. 1 \in 1..Len(chan[e]) /\ 1 + 1 = 2 /\ chan[e][1] = "DISCNCT"
      BY <1>5
  <2>2. /\ Owed(p)
        /\ \A j \in 1+1..Len(chan[e]) : chan[e][j] = "DISCNT_ACK"
        /\ \A j \in 1..Len(chan[p]) : chan[p][j] # "DISCNT_ACK"
      BY <1>1, <1>3, <2>1, Message, ZenonT(60)
  <2> QED
      BY <2>1, <2>2
<1>8. ~listed[p] /\ state[p] # "CONNECTED"
    BY ZenonT(60), <1>1, <1>7 DEF EndInv, Owed
<1>9. /\ state' \in [End -> {"CONNECTED", "CLOSING", "DISCONNECTED", "ZOMBIE"}]
      /\ listed' \in [End -> BOOLEAN]
      /\ \A x \in End : state[x] # "CONNECTED" => state'[x] # "CONNECTED"
      /\ ~listed'[e] /\ listed'[p] = listed[p] /\ state'[p] = state[p]
      /\ listed[e] => state'[e] = "DISCONNECTED"
      /\ ~listed[e] => state'[e] = state[e]
  <2>1. /\ state \in [End -> {"CONNECTED", "CLOSING", "DISCONNECTED", "ZOMBIE"}]
        /\ listed \in [End -> BOOLEAN]
      BY <1>1 DEF TypeOK
  <2>2. CASE listed[e]
    <3>1. /\ state' = [state EXCEPT ![e] = "DISCONNECTED"]
          /\ listed' = [listed EXCEPT ![e] = FALSE]
        BY <2>2 DEF scif_discnct
    <3> QED
        BY <2>1, <2>2, <3>1, <1>3
  <2>3. CASE ~listed[e]
    <3>1. UNCHANGED <<state, listed>>
        BY <2>3 DEF scif_discnct
    <3> QED
        BY <2>1, <2>3, <3>1
  <2> QED
      BY <2>2, <2>3
<1>10. chan' \in [End -> Seq(Messages)]
    BY <1>1, <1>2, <1>3, <1>4, <1>5, <1>6 DEF TypeOK
<1>11. EndInv'
    BY <1>1, <1>2, <1>3, <1>7, <1>8, <1>9, ZenonT(60) DEF EndInv
<1>12. \A i \in 1..Len(chan'[e]) : chan'[e][i] = "DISCNT_ACK"
    BY <1>5, <1>7
<1>13. ASSUME NEW i \in 1..Len(chan'[e])
       PROVE  Owed(e) /\ i = Len(chan'[e])
  <2>1. i + 1 \in 1..Len(chan[e]) /\ chan[e][i + 1] = "DISCNT_ACK"
      BY <1>13, <1>5, <1>12, ZenonT(60)
  <2>2. Owed(e) /\ i + 1 = Len(chan[e])
      BY <1>1, <2>1 DEF MessageInv
  <2> QED
      BY <2>2, <1>5
<1>14. MessageInv'
  <2>1. ASSUME NEW i \in 1..Len(chan'[p])
        PROVE  /\ chan'[p][i] = "DISCNCT" =>
                    /\ Owed(e)'
                    /\ \A j \in i+1..Len(chan'[p]) : chan'[p][j] = "DISCNT_ACK"
                    /\ \A j \in 1..Len(chan'[e]) : chan'[e][j] # "DISCNT_ACK"
               /\ chan'[p][i] = "DISCNT_ACK" =>
                    /\ Owed(p)' /\ i = Len(chan'[p]) /\ ~listed'[e]
    <3>1. CASE i = Len(chan[p]) + 1
        BY <3>1, <1>2, <1>4, <1>6, <1>7, <1>9
    <3>2. CASE i \in 1..Len(chan[p])
      <4>1. chan'[p][i] = chan[p][i] /\ chan[p][i] # "DISCNT_ACK"
          BY <3>2, <1>6, <1>7
      <4>2. ASSUME chan[p][i] = "DISCNCT"
            PROVE  /\ Owed(e)
                   /\ \A j \in i+1..Len(chan[p]) : chan[p][j] = "DISCNT_ACK"
                   /\ \A j \in 1..Len(chan[e]) : chan[e][j] # "DISCNT_ACK"
          BY <4>2, <3>2, <1>1, <1>3, Message, ZenonT(60)
      <4>3. ASSUME chan[p][i] = "DISCNCT"
            PROVE  \A j \in i+1..Len(chan'[p]) : chan'[p][j] = "DISCNT_ACK"
        <5>1. ASSUME NEW j \in i+1..Len(chan'[p])
              PROVE  chan'[p][j] = "DISCNT_ACK"
          <6>1. CASE j = Len(chan[p]) + 1
              BY <6>1, <1>6
          <6>2. CASE j \in i+1..Len(chan[p])
              BY <6>2, <4>2, <4>3, <3>2, <1>6
          <6> QED
              BY <5>1, <6>1, <6>2, <1>6
        <5> QED
            BY <5>1
      <4>4. ASSUME chan[p][i] = "DISCNCT"
            PROVE  \A j \in 1..Len(chan'[e]) : chan'[e][j] # "DISCNT_ACK"
          BY <4>2, <4>4, <1>5, ZenonT(60)
      <4> QED
          BY <4>1, <4>2, <4>3, <4>4, <1>2, <1>4, ZenonT(60)
    <3> QED
        BY <2>1, <3>1, <3>2, <1>6
  <2>2. ASSUME NEW i \in 1..Len(chan'[e])
        PROVE  /\ chan'[e][i] = "DISCNT_ACK" /\ Owed(e)'
               /\ i = Len(chan'[e]) /\ ~listed'[p]
    <3>1. chan'[e][i] = "DISCNT_ACK" /\ Owed(e) /\ i = Len(chan'[e])
        BY <2>2, <1>12, <1>13
    <3> QED
        BY <3>1, <1>2, <1>4, <1>8, <1>9
  <2> QED
      BY <1>3, <2>1, <2>2 DEF MessageInv
<1>15. QuietInv'
  <2>1. ~Owed(e)' => chan'[e] = <<>>
    <3>1. ASSUME Len(chan'[e]) # 0
          PROVE  Owed(e)
      <4>1. 1 \in 1..Len(chan'[e])
        <5>1. Len(chan'[e]) \in Nat
            BY <1>5
        <5> QED
            BY <5>1, <3>1
      <4> QED
          BY <4>1, <1>13
    <3> QED
        BY <3>1, <1>2, <1>4, <1>5
  <2> QED
      BY <2>1, <1>2, <1>3, <1>4, <1>7, <1>8, <1>9, ZenonT(60) DEF QuietInv
<1>16. \/ UNCHANGED pc
       \/ \E ts : pc' = Woken(ts)
    BY DEF scif_discnct
<1> QED
    BY <1>1, <1>2, <1>9, <1>10, <1>11, <1>14, <1>15, <1>16, EndStep, ZenonT(60) DEF TypeOK

(* The acknowledgement is the last message: the endpoint may be torn down,  *)
(* if it has not given up waiting and been so already.                      *)
LEMMA AckStep ==
    ASSUME IInv, NEW e \in End, scif_discnt_ack(e)
    PROVE  IInv'
<1>1. TypeOK /\ EndInv /\ MessageInv /\ QuietInv
    BY DEF IInv
<1>2. /\ UNCHANGED <<eplock, mutex, call, stream, rd, released, last>>
      /\ UNCHANGED <<listed, pc>>
      /\ chan[e] # <<>> /\ Head(chan[e]) = "DISCNT_ACK"
      /\ state' = [state EXCEPT ![e] = IF closer[e] = "lost" THEN @ ELSE "DISCONNECTED"]
      /\ closer' = [closer EXCEPT ![e] = IF @ \in {"ack", "late"} THEN "teardown" ELSE @]
      /\ chan' = [chan EXCEPT ![e] = Tail(@)]
    BY ZenonT(60) DEF scif_discnt_ack, close_unchanged, ring_vars, Received
<1>3. PICK p \in End : p = Peer(e) /\ Peer(p) = e /\ p # e /\ End = {e, p}
    BY Ends DEF End, Peer
<1>4. /\ chan[e] \in Seq(Messages) /\ chan'[e] = Tail(chan[e])
      /\ chan'[p] = chan[p]
    BY <1>1, <1>2, <1>3 DEF TypeOK
<1>5. /\ chan'[e] \in Seq(Messages) /\ Len(chan'[e]) = Len(chan[e]) - 1
      /\ Len(chan[e]) \in Nat /\ 1 \in 1..Len(chan[e]) /\ chan[e][1] = "DISCNT_ACK"
  <2>1. /\ Tail(chan[e]) \in Seq(Messages) /\ Len(Tail(chan[e])) = Len(chan[e]) - 1
        /\ Len(chan[e]) > 0 /\ Len(chan[e]) \in Nat /\ Head(chan[e]) = chan[e][1]
      BY <1>2, <1>4, Rest, ZenonT(60)
  <2>2. 1 \in 1..Len(chan[e])
      BY <2>1
  <2> QED
      BY <2>1, <2>2, <1>2, <1>4, ZenonT(60)
<1>6. Owed(e) /\ 1 = Len(chan[e]) /\ ~listed[p]
    BY <1>1, <1>3, <1>5, Message, ZenonT(60)
<1>7. ~listed[e] /\ state[p] # "CONNECTED" /\ state[e] # "CONNECTED"
    BY ZenonT(60), <1>1, <1>3, <1>6 DEF EndInv, Owed
<1>8. Len(chan'[e]) = 0 /\ chan'[e] = <<>>
  <2>1. Len(chan'[e]) = 0
      BY <1>5, <1>6
  <2>2. \A s \in Seq(Messages) : Len(s) = 0 => s = <<>>
      OBVIOUS
  <2> QED
      BY <2>1, <2>2, <1>5
<1>9. /\ closer'[e] \in {"teardown", "lost"} /\ closer'[p] = closer[p]
      /\ state'[e] \in {state[e], "DISCONNECTED"} /\ state'[p] = state[p]
      /\ Owed(p)' <=> Owed(p)
    BY <1>1, <1>2, <1>3, <1>6 DEF TypeOK, Owed
<1>10. /\ state' \in [End -> {"CONNECTED", "CLOSING", "DISCONNECTED", "ZOMBIE"}]
       /\ closer' \in [End -> {"open", "wake", "sync", "disconnect", "ack",
                               "teardown", "gone", "late", "lost"}]
    BY <1>1, <1>2 DEF TypeOK
<1>11. chan' \in [End -> Seq(Messages)]
    BY <1>1, <1>2, <1>4, <1>5 DEF TypeOK
<1>12. EndInv'
    BY <1>1, <1>2, <1>3, <1>7, <1>9 DEF EndInv
<1>13. ASSUME NEW i \in 1..Len(chan[p])
       PROVE  /\ chan[p][i] # "DISCNCT"
              /\ chan[p][i] = "DISCNT_ACK" => Owed(p) /\ i = Len(chan[p])
    BY <1>1, <1>3, <1>5, Message, ZenonT(60)
<1>14. MessageInv'
  <2>1. ASSUME NEW i \in 1..Len(chan'[e])
        PROVE  FALSE
      BY <2>1, <1>8
  <2>2. ASSUME NEW i \in 1..Len(chan'[p])
        PROVE  /\ chan'[p][i] # "DISCNCT"
               /\ chan'[p][i] = "DISCNT_ACK" =>
                    Owed(p)' /\ i = Len(chan'[p]) /\ ~listed'[e]
      BY <2>2, <1>2, <1>4, <1>7, <1>9, <1>13
  <2> QED
      BY <1>3, <2>1, <2>2, ZenonT(60) DEF MessageInv
<1>15. QuietInv'
    BY <1>1, <1>2, <1>3, <1>4, <1>6, <1>7, <1>8, <1>9 DEF QuietInv
<1>16. \A x \in End : state[x] # "CONNECTED" => state'[x] # "CONNECTED"
    BY <1>1, <1>2 DEF TypeOK
<1> QED
    BY <1>1, <1>2, <1>10, <1>11, <1>12, <1>14, <1>15, <1>16, EndStep DEF TypeOK

(***************************************************************************)
(* Theorems                                                                *)
(***************************************************************************)
LEMMA NextInv == IInv /\ [Next]_vars => IInv'
<1> SUFFICES ASSUME IInv, [Next]_vars PROVE IInv'
    OBVIOUS
<1>1. CASE \E t \in Thread, len \in 1..MaxLen, blk \in BOOLEAN : scif_call(t, len, blk)
    BY <1>1, CallStep
<1>2. CASE \E t \in Thread : Step(t) \/ signal(t)
    BY <1>2, LockSteps, SendStep, RecvStep, FinishStep, SignalStep DEF Step
<1>3. CASE \E e \in End : scif_close(e) \/ Close(e) \/ disconnect_timeout(e) \/ Handle(e)
    BY <1>3, CloseSteps, DisconnectStep, DataStep, DiscnctStep, AckStep
    DEF Close, Handle
<1>4. CASE UNCHANGED vars
  <2>1. /\ UNCHANGED <<state, listed, closer, chan, stream, rd, released>>
        /\ UNCHANGED <<call, last>> /\ UNCHANGED <<eplock, mutex, pc>>
      BY <1>4 DEF vars, ep_vars, ring_vars
  <2>2. TypeOK
      BY DEF IInv
  <2> QED
      BY <2>1, <2>2, PlaceInv DEF TypeOK
<1> QED
    BY <1>1, <1>2, <1>3, <1>4 DEF Next

(* The inductive invariant of the stream and of the closing handshake.      *)
THEOREM Invariance == Spec => []IInv
BY InitInv, NextInv, PTL DEF Spec

(* Every variable of the model of scif_send(), scif_recv() and scif_close() *)
(* keeps its type; the ring never holds more than Size - 1 bytes.           *)
THEOREM TypeCorrect == Spec => []TypeOK
<1>1. IInv => TypeOK
    BY DEF IInv
<1> QED
    BY Invariance, <1>1, PTL

(* What a successful scif_send() or scif_recv() returns is what it moved,   *)
(* and one that fails has moved nothing unless a user's call was cut into   *)
(* chunks.                                                                  *)
THEOREM Counts == Spec => []CountsTrue
<1>1. IInv => CountsTrue
    BY DEF IInv
<1> QED
    BY Invariance, <1>1, PTL

(* _scif_recv() returns ECONNRESET only when every byte sent was received.  *)
THEOREM Drained == Spec => []ResetMeansDrained
<1>1. IInv => ResetMeansDrained
    BY DEF IInv, ResetInv, ResetMeansDrained
<1> QED
    BY Invariance, <1>1, PTL

(* The closing handshake of scif_disconnect_ep() keeps the endpoint until   *)
(* the last message that holds its address has been handled, unless its own *)
(* wait times out.                                                          *)
THEOREM NoStrayMessage == Spec => []MessageFindsEndpoint
<1>1. IInv => MessageFindsEndpoint
  <2> SUFFICES ASSUME IInv, NEW e \in End, closer[e] = "gone"
               PROVE  chan[e] = <<>>
      BY DEF MessageFindsEndpoint
  <2>1. ~listed[e]
      BY DEF IInv, EndInv
  <2> QED
      BY <2>1 DEF IInv, QuietInv, Owed
<1> QED
    BY Invariance, <1>1, PTL

(***************************************************************************)
(* Messages are not fragmented, provided that kernel clients always block  *)
(***************************************************************************)
LEMMA WholeInit == Init => WholeInv
<1> SUFFICES ASSUME Init PROVE WholeInv
    OBVIOUS
<1>1. LockInv
    BY DEF Init, LockInv, Thread
<1>2. stream = <<>> /\ 1..Len(stream) = {}
    BY DEF Init
<1> QED
    BY <1>1, <1>2 DEF WholeInv, SeqInv, LastInv, NotFragmented

(* What the proofs need of TypeOK.                                          *)
LEMMA Types ==
    ASSUME TypeOK
    PROVE  /\ pc \in [Thread -> Places] /\ call \in [Thread -> Calls]
           /\ mutex \in [End -> Thread \cup {None}]
           /\ stream \in Seq(Senders \X Nat)
BY DEF TypeOK

(* A byte of the stream is known by its sender and the number of its call.  *)
LEMMA Bytes ==
    ASSUME stream \in Seq(Senders \X Nat), NEW i \in 1..Len(stream)
    PROVE  stream[i][1] \in Thread /\ stream[i][2] \in Nat
<1>1. stream[i] \in Senders \X Nat
    OBVIOUS
<1> QED
    BY <1>1 DEF Thread

(* A step that sends nothing and starts no call.                            *)
LEMMA WholeFrame ==
    ASSUME WholeInv, UNCHANGED stream,
           \A t \in Thread : call'[t].seq = call[t].seq /\ call'[t].blk = call[t].blk,
           \A t \in Senders : pc'[t] # "idle" => pc[t] # "idle",
           \A t \in Senders : pc'[t] \notin {"idle", "lock"} => mutex'["A"] = t,
           \A t \in Senders : pc'[t] # "idle" /\ mutex["A"] = t => mutex'["A"] = t,
           TypeOK
    PROVE  WholeInv'
<1>1. LockInv /\ SeqInv /\ LastInv /\ NotFragmented
    BY DEF WholeInv
<1>2. \A t \in Senders : t \in Thread /\ Key(t)' = Key(t) /\ TakesMutex(t)' = TakesMutex(t)
    BY DEF Key, TakesMutex, Thread
<1>3. LockInv'
    BY <1>1, <1>2 DEF LockInv
<1>4. SeqInv'
  <2>1. \A i \in 1..Len(stream) : stream[i][1] \in Thread
      BY Types, Bytes
  <2> QED
      BY <1>1, <2>1 DEF SeqInv
<1>5. LastInv'
    BY <1>1, <1>2 DEF LastInv
<1>6. NotFragmented'
    BY <1>1 DEF NotFragmented
<1> QED
    BY <1>3, <1>4, <1>5, <1>6 DEF WholeInv

LEMMA WholePiece ==
    ASSUME TypeOK, WholeInv, NEW t \in Thread, pc[t] \notin {"idle", "lock"}, NEW err,
           PieceDone(t, err), UNCHANGED stream
    PROVE  WholeInv'
<1> DEFINE done == call[t].done + call[t].part
<1>0. pc \in [Thread -> Places] /\ call \in [Thread -> Calls] /\ LockInv
    BY Types DEF WholeInv
<1>1. CASE err = "none" /\ call[t].part = Piece(t) /\ done < call[t].len
  <2>1. /\ call' = [call EXCEPT ![t].done = done, ![t].part = 0]
        /\ pc' = [pc EXCEPT ![t] = "enter"] /\ UNCHANGED mutex
      BY <1>1 DEF PieceDone
  <2>2. \A u \in Thread : call'[u].seq = call[u].seq /\ call'[u].blk = call[u].blk
    <3> HIDE DEF done
    <3> QED
        BY <2>1, <1>0 DEF Calls
  <2>3. \A u \in Senders : /\ pc'[u] # "idle" => pc[u] # "idle"
                           /\ pc'[u] \notin {"idle", "lock"} => mutex'["A"] = u
      BY <2>1, <1>0 DEF LockInv, Thread
  <2> QED
      BY <2>1, <2>2, <2>3, WholeFrame, ZenonT(60)
<1>2. CASE ~(err = "none" /\ call[t].part = Piece(t) /\ done < call[t].len)
  <2>1. /\ pc' = [pc EXCEPT ![t] = "idle"] /\ UNCHANGED call
        /\ mutex' = [e \in End |-> IF mutex[e] = t THEN None ELSE mutex[e]]
      BY <1>2 DEF PieceDone, Return
  <2>2. mutex'["A"] = IF mutex["A"] = t THEN None ELSE mutex["A"]
      BY <2>1 DEF End
  <2>3. \A u \in Senders : pc'[u] # "idle" => u # t /\ pc'[u] = pc[u]
      BY <2>1, <1>0 DEF Thread
  <2>4. \A u \in Senders : /\ pc'[u] \notin {"idle", "lock"} => mutex'["A"] = u
                           /\ pc'[u] # "idle" /\ mutex["A"] = u => mutex'["A"] = u
      BY <2>2, <2>3, <1>0 DEF LockInv
  <2> QED
      BY <2>1, <2>3, <2>4, WholeFrame
<1> QED
    BY <1>1, <1>2

(* A new call has a key of its own, and waits for the lock first.           *)
LEMMA WholeCall ==
    ASSUME TypeOK, WholeInv, ~Mixed, NEW t \in Thread, NEW len \in 1..MaxLen,
           NEW blk \in BOOLEAN, scif_call(t, len, blk)
    PROVE  WholeInv'
<1>0. /\ pc \in [Thread -> Places] /\ call \in [Thread -> Calls]
      /\ LockInv /\ SeqInv /\ LastInv /\ NotFragmented
    BY Types DEF WholeInv
<1>1. /\ pc[t] = "idle" /\ (EndOf(t) \in Kernel => blk)
      /\ call' = [call EXCEPT ![t] = [blk |-> blk, len |-> len, done |-> 0, part |-> 0,
                                      moved |-> 0, seq |-> call[t].seq + 1]]
      /\ pc' = [pc EXCEPT ![t] = "lock"]
      /\ UNCHANGED <<stream, mutex>>
    BY DEF scif_call, ring_vars
<1>2. /\ call'[t].seq = call[t].seq + 1 /\ call'[t].blk = blk
      /\ \A u \in Thread : u # t => call'[u] = call[u]
    BY <1>0, <1>1
<1>3. pc'[t] = "lock" /\ \A u \in Thread : u # t => pc'[u] = pc[u]
    BY <1>0, <1>1
<1>4. \A u \in Thread : call[u].seq \in Nat
    BY <1>0 DEF Calls
<1>5. LockInv'
  <2>1. ASSUME NEW u \in Senders, pc'[u] # "idle"
        PROVE  TakesMutex(u)'
    <3>1. CASE u = t
        BY <3>1, <1>1, <1>2, ZenonT(60) DEF TakesMutex
    <3>2. CASE u # t
        BY <3>2, <2>1, <1>0, <1>2, <1>3 DEF TakesMutex, LockInv, Thread
    <3> QED
        BY <3>1, <3>2
  <2>2. \A u \in Senders : pc'[u] \notin {"idle", "lock"} => mutex'["A"] = u
      BY <1>0, <1>1, <1>3 DEF LockInv, Thread
  <2> QED
      BY <2>1, <2>2 DEF LockInv
<1>6. SeqInv'
  <2>1. ASSUME NEW i \in 1..Len(stream)
        PROVE  stream[i][2] <= call'[stream[i][1]].seq
    <3>1. stream[i][1] \in Thread /\ stream[i][2] \in Nat
        BY Types, Bytes
    <3>2. stream[i][2] <= call[stream[i][1]].seq
        BY <1>0 DEF SeqInv
    <3> QED
        BY <3>1, <3>2, <1>2, <1>4
  <2> QED
      BY <2>1, <1>1, ZenonT(60) DEF SeqInv
<1>7. ASSUME NEW u \in Senders, NEW i \in 1..Len(stream), pc'[u] # "idle",
             stream[i] = Key(u)'
      PROVE  mutex["A"] = u /\ stream[Len(stream)] = Key(u)'
  <2>1. CASE u = t
    <3>1. stream[i][1] = t /\ stream[i][2] = call[t].seq + 1
        BY <2>1, <1>2, <1>7 DEF Key
    <3>2. stream[i][2] <= call[t].seq
        BY <3>1, <1>0 DEF SeqInv
    <3> QED
        BY <3>1, <3>2, <1>4
  <2>2. CASE u # t
    <3>1. Key(u)' = Key(u) /\ pc[u] # "idle"
        BY <2>2, <1>2, <1>3, <1>7 DEF Key, Thread
    <3> QED
        BY <3>1, <1>0, <1>7 DEF LastInv
  <2> QED
      BY <2>1, <2>2
<1>8. LastInv'
    BY <1>1, <1>7 DEF LastInv
<1>9. NotFragmented'
    BY <1>0, <1>1 DEF NotFragmented
<1> QED
    BY <1>5, <1>6, <1>8, <1>9 DEF WholeInv

LEMMA Concatenation ==
    ASSUME NEW S, NEW a \in Seq(S), NEW b \in Seq(S)
    PROVE  /\ Len(a) \in Nat /\ Len(a \o b) = Len(a) + Len(b)
           /\ \A i \in 1..Len(a) + Len(b) :
                 (a \o b)[i] = IF i <= Len(a) THEN a[i] ELSE b[i - Len(a)]
OBVIOUS

(* New bytes continue the sender's message, or begin it.                    *)
LEMMA WholeSend ==
    ASSUME TypeOK, CallInv, WholeInv, NEW t \in Thread, send_write(t)
    PROVE  WholeInv'
<1> DEFINE n == Least(Piece(t) - call[t].part, scif_rb_space)
<1>0. /\ call \in [Thread -> Calls] /\ stream \in Seq(Senders \X Nat)
      /\ LockInv /\ SeqInv /\ LastInv /\ NotFragmented
    BY Types DEF WholeInv
<1>1. /\ t \in Senders /\ More(t) /\ ~Stuck(t)
      /\ stream' = stream \o [i \in 1..n |-> Key(t)]
      /\ call' = Moved(t, n) /\ UNCHANGED <<mutex, pc>>
    BY DEF send_write, Key
<1>2. n \in Nat \ {0}
  <2>1. /\ pc[t] # "idle" /\ call[t].part \in Nat /\ call[t].part < Piece(t)
        /\ Piece(t) \in Nat
      BY <1>1, PieceSize DEF More, TypeOK, Calls
  <2>2. scif_rb_space \in Nat /\ scif_rb_space # 0
      BY <1>1, SizeAssumption DEF scif_rb_space, TypeOK, Stuck
  <2> QED
      BY <2>1, <2>2 DEF Least
<1>3. \A u \in Thread : call'[u].seq = call[u].seq /\ call'[u].blk = call[u].blk
  <2> HIDE DEF n
  <2> QED
      BY <1>0, <1>1 DEF Moved, Calls
<1> HIDE DEF n
<1>4. \A u \in Senders : u \in Thread /\ Key(u)' = Key(u) /\ TakesMutex(u)' = TakesMutex(u)
    BY <1>3 DEF Key, TakesMutex, Thread
<1> DEFINE L == Len(stream)
           k == Key(t)
<1>5. mutex["A"] = t /\ pc[t] # "idle"
    BY <1>0, <1>1 DEF More, LockInv
<1>6. /\ L \in Nat /\ Len(stream') = L + n
      /\ \A i \in 1..L : stream'[i] = stream[i]
      /\ \A i \in L+1..L+n : stream'[i] = k
  <2> DEFINE s == [i \in 1..n |-> k]
             S == Senders \X Nat
  <2>1. k \in S /\ stream \in Seq(S)
      BY <1>0, <1>1 DEF Key, Calls
  <2> HIDE DEF k, S
  <2>2. s \in Seq(S) /\ Len(s) = n /\ \A i \in 1..n : s[i] = k
      BY <1>2, <2>1
  <2>3. stream' = stream \o s
      BY <1>1 DEF k
  <2> HIDE DEF s
  <2>4. /\ L \in Nat /\ Len(stream') = L + n
        /\ \A i \in 1..L+n : stream'[i] = IF i <= L THEN stream[i] ELSE s[i - L]
      BY ZenonT(60), <2>1, <2>2, <2>3, Concatenation
  <2> QED
      BY <1>2, <2>2, <2>4
<1>7. \A i \in 1..L : stream[i] = k => stream[L] = k
    BY <1>0, <1>1, <1>5 DEF LastInv
<1>8. k[1] = t /\ k[2] = call[t].seq /\ call[t].seq \in Nat
    BY <1>0 DEF Key, Calls
<1>9. \A i \in 1..L : stream[i][2] <= call[stream[i][1]].seq /\ stream[i][1] \in Thread
    BY <1>0, Bytes DEF SeqInv
<1> HIDE DEF L, k
<1>10. \A i \in 1..L+n : i \in 1..L \/ i \in L+1..L+n
    BY <1>2, <1>6
<1>11. \A i \in 1..L+n : stream'[i][2] <= call'[stream'[i][1]].seq
  <2>1. \A i \in 1..L : stream'[i][2] <= call'[stream'[i][1]].seq
      BY <1>3, <1>6, <1>9
  <2>2. \A i \in L+1..L+n : stream'[i][2] <= call'[stream'[i][1]].seq
      BY <1>3, <1>6, <1>8
  <2> QED
      BY <1>10, <2>1, <2>2
<1>12. ASSUME NEW u \in Senders, NEW i \in 1..L+n, pc'[u] # "idle",
              stream'[i] = Key(u)'
       PROVE  mutex'["A"] = u /\ stream'[L + n] = Key(u)'
  <2>1. u = t
    <3>1. CASE i \in 1..L
        BY <3>1, <1>0, <1>1, <1>4, <1>5, <1>6, <1>12, ZenonT(60) DEF LastInv, L
    <3>2. CASE i \in L+1..L+n
      <4>1. k = Key(u)
          BY ZenonT(60), <3>2, <1>4, <1>6, <1>12
      <4> QED
          BY <4>1, <1>8 DEF Key
    <3> QED
        BY <3>1, <3>2, <1>10
  <2>2. L + n \in L+1..L+n
      BY <1>2, <1>6
  <2> QED
      BY <2>1, <2>2, <1>1, <1>4, <1>5, <1>6, ZenonT(60) DEF k
<1>13. ASSUME NEW i \in 1..L+n, NEW j \in 1..L+n, i < j, stream'[i] = stream'[j]
       PROVE  stream'[i + 1] = stream'[i]
  <2>1. CASE j \in 1..L
    <3>1. i \in 1..L /\ i + 1 \in 1..L
        BY <2>1, <1>6, <1>13
    <3>2. stream[i] = stream[j]
        BY <2>1, <3>1, <1>6, <1>13
    <3>3. stream[i + 1] = stream[i]
        BY <2>1, <3>1, <3>2, <1>0, <1>13 DEF NotFragmented, L
    <3> QED
        BY <3>1, <3>3, <1>6
  <2>2. CASE j \in L+1..L+n
    <3>1. stream'[i] = k
        BY <2>2, <1>6, <1>13
    <3>2. CASE i \in 1..L /\ i # L
      <4>1. stream[i] = k /\ stream[L] = k /\ i + 1 \in 1..L /\ L \in 1..L /\ i < L
          BY <3>1, <3>2, <1>6, <1>7
      <4>2. stream[i + 1] = stream[i]
          BY <4>1, <3>2, <1>0 DEF NotFragmented, L
      <4> QED
          BY <4>1, <4>2, <3>2, <1>6
    <3>3. CASE i = L \/ i \in L+1..L+n
      <4>1. i + 1 \in L+1..L+n
          BY <3>3, <2>2, <1>6, <1>2, <1>13
      <4> QED
          BY <4>1, <3>1, <1>6
    <3> QED
        BY <3>2, <3>3, <1>10
  <2> QED
      BY <2>1, <2>2, <1>10
<1>14. NotFragmented'
    BY <1>6, <1>13 DEF NotFragmented
<1>15. LockInv'
    BY ZenonT(60), <1>0, <1>1, <1>4 DEF LockInv
<1>16. SeqInv' /\ LastInv'
    BY <1>6, <1>11, <1>12 DEF SeqInv, LastInv
<1> QED
    BY <1>14, <1>15, <1>16 DEF WholeInv

LEMMA WholeNext ==
    ASSUME IInv, WholeInv, ~Mixed, [Next]_vars
    PROVE  WholeInv'
<1>0. TypeOK /\ CallInv
    BY DEF IInv
<1>1. /\ pc \in [Thread -> Places] /\ call \in [Thread -> Calls]
      /\ mutex \in [End -> Thread \cup {None}] /\ LockInv
    BY <1>0, Types DEF WholeInv
<1>2. CASE \E t \in Thread, len \in 1..MaxLen, blk \in BOOLEAN : scif_call(t, len, blk)
    BY <1>0, <1>2, WholeCall
<1>3. ASSUME NEW t \in Thread, finish(t) \/ signal(t)
      PROVE  WholeInv'
  <2>1. pc[t] \notin {"idle", "lock"} /\ UNCHANGED stream
      BY ZenonT(60), <1>3 DEF finish, signal, ring_vars
  <2>2. PICK err : PieceDone(t, err)
      BY <1>3 DEF finish, signal
  <2> QED
      BY <1>0, <2>1, <2>2, WholePiece
<1>4. ASSUME NEW t \in Thread, send_write(t)
      PROVE  WholeInv'
    BY <1>0, <1>4, WholeSend
<1>5. ASSUME NEW t \in Thread, recv_read(t)
      PROVE  WholeInv'
  <2>1. PICK n : call' = Moved(t, n)
      BY <1>5, ZenonT(60) DEF recv_read
  <2>2. \A u \in Thread : call'[u].seq = call[u].seq /\ call'[u].blk = call[u].blk
      BY <1>1, <2>1 DEF Moved, Calls
  <2>3. UNCHANGED <<stream, mutex, pc>>
      BY <1>5, ZenonT(60) DEF recv_read
  <2> QED
      BY <1>0, <1>1, <2>2, <2>3, WholeFrame DEF LockInv
<1>6. ASSUME NEW t \in Thread, mutex_lock(t)
      PROVE  WholeInv'
  <2>1. /\ pc[t] = "lock" /\ pc' = [pc EXCEPT ![t] = "enter"]
        /\ IF TakesMutex(t) THEN /\ mutex[EndOf(t)] = None
                                 /\ mutex' = [mutex EXCEPT ![EndOf(t)] = t]
                            ELSE UNCHANGED mutex
        /\ UNCHANGED <<stream, call>>
      BY <1>6 DEF mutex_lock, ring_vars
  <2>2. \A u \in Senders : pc'[u] # "idle" => pc[u] # "idle"
      BY <1>1, <2>1 DEF Thread
  <2>3. \A u \in Senders : u # t /\ pc'[u] # "idle" =>
                              pc'[u] = pc[u] /\ (mutex["A"] = u => mutex'["A"] = u)
      BY <1>1, <2>1, ThreadAssumption DEF Thread, EndOf, End
  <2>4. t \in Senders => mutex["A"] = None /\ mutex'["A"] = t
      BY <1>1, <2>1 DEF EndOf, End, LockInv
  <2>5. \A u \in Senders : /\ pc'[u] \notin {"idle", "lock"} => mutex'["A"] = u
                           /\ pc'[u] # "idle" /\ mutex["A"] = u => mutex'["A"] = u
    <3> TAKE u \in Senders
    <3>1. CASE u = t
        BY ZenonT(60), <2>4, <3>1
    <3>2. CASE u # t
        BY ZenonT(60), <1>1, <2>3, <3>2 DEF LockInv
    <3> QED
        BY ZenonT(60), <3>1, <3>2
  <2> QED
      BY <1>0, <2>1, <2>2, <2>5, WholeFrame
<1>7. ASSUME NEW t \in Thread, spin_lock(t) \/ wait_event(t) \/ check_event(t)
      PROVE  WholeInv'
  <2>1. UNCHANGED <<stream, call, mutex>> /\ pc[t] \notin {"idle", "lock"}
      BY <1>7 DEF spin_lock, wait_event, check_event, ring_vars, More
  <2>2. \A u \in Thread : u # t => pc'[u] = pc[u]
      BY <1>1, <1>7, ZenonT(60) DEF spin_lock, wait_event, check_event
  <2>3. \A u \in Senders : /\ pc'[u] # "idle" => pc[u] # "idle"
                           /\ pc'[u] \notin {"idle", "lock"} => mutex'["A"] = u
      BY <1>1, <2>1, <2>2 DEF LockInv, Thread
  <2> QED
      BY <1>0, <2>1, <2>3, WholeFrame
<1>8. ASSUME UNCHANGED <<stream, call, mutex>>,
             \/ UNCHANGED pc
             \/ \E ts : pc' = Woken(ts)
      PROVE  WholeInv'
  <2>1. \A u \in Senders : /\ pc'[u] # "idle" => pc[u] # "idle"
                           /\ pc'[u] \notin {"idle", "lock"} => mutex'["A"] = u
    <3>1. \A u \in Senders : pc[u] \notin {"idle", "lock"} => mutex'["A"] = u
        BY <1>1, <1>8 DEF LockInv
    <3>2. CASE UNCHANGED pc
        BY <3>1, <3>2
    <3>3. ASSUME NEW ts, pc' = Woken(ts)
          PROVE  \A u \in Senders : pc'[u] = IF u \in ts /\ pc[u] = "asleep"
                                             THEN "wait" ELSE pc[u]
        BY <3>3 DEF Woken, Thread
    <3> QED
        BY <3>1, <3>2, <3>3, <1>8
  <2> QED
      BY <1>0, <1>8, <2>1, WholeFrame
<1>9. CASE \E e \in End : scif_close(e) \/ Close(e) \/ disconnect_timeout(e) \/ Handle(e)
  <2>1. UNCHANGED <<stream, call, mutex>>
      BY <1>9, ZenonT(60) DEF Close, Handle, scif_close, close_wake, close_sync,
         scif_disconnect_ep, disconnect_timeout, scif_teardown_ep,
         scif_clientrcvd, scif_clientsend, scif_discnct, scif_discnt_ack,
         close_unchanged, ring_vars
  <2>2. \/ UNCHANGED pc
        \/ \E ts : pc' = Woken(ts)
      BY <1>9, ZenonT(60) DEF Close, Handle, scif_close, close_wake, close_sync,
         scif_disconnect_ep, disconnect_timeout, scif_teardown_ep,
         scif_clientrcvd, scif_clientsend, scif_discnct, scif_discnt_ack
  <2> QED
      BY <2>1, <2>2, <1>8
<1>10. CASE UNCHANGED vars
    BY <1>8, <1>10 DEF vars, ring_vars
<1> QED
    BY <1>2, <1>3, <1>4, <1>5, <1>6, <1>7, <1>9, <1>10 DEF Next, Step

(* scif_send() keeps a message in one piece if kernel clients always pass   *)
(* SCIF_SEND_BLOCK: those that do not send without sendlock.                *)
THEOREM Whole == ~Mixed => (Spec => []NotFragmented)
<1> SUFFICES ASSUME ~Mixed PROVE Spec => []NotFragmented
    OBVIOUS
<1>1. Init => IInv /\ WholeInv
    BY InitInv, WholeInit
<1>2. IInv /\ WholeInv /\ [Next]_vars => (IInv /\ WholeInv)'
    BY NextInv, WholeNext
<1>3. WholeInv => NotFragmented
    BY DEF WholeInv
<1> QED
    BY <1>1, <1>2, <1>3, PTL DEF Spec

(***************************************************************************)
(* The connection uses its ring as a bounded queue                         *)
(***************************************************************************)
(* A beginning of a sequence.                                               *)
LEMMA Beginning ==
    ASSUME NEW S, NEW s \in Seq(S), NEW n \in Nat, n <= Len(s)
    PROVE  /\ Len([i \in 1..n |-> s[i]]) = n
           /\ \A k \in 1..n : [i \in 1..n |-> s[i]][k] = s[k]
<1>1. \A i \in 1..n : s[i] \in S
    OBVIOUS
<1>2. [i \in 1..n |-> s[i]] \in Seq(S)
    BY <1>1
<1> QED
    BY <1>2

(* What has been taken is a beginning of the stream.                        *)
LEMMA Taken ==
    ASSUME TypeOK
    PROVE  Len(taken) = rd /\ \A i \in 1..rd : taken[i] = stream[i]
<1>1. stream \in Seq(Senders \X Nat) /\ rd \in Nat /\ rd <= Len(stream)
    BY DEF TypeOK
<1> QED
    BY <1>1, Beginning, ZenonT(60) DEF taken

(* A step that leaves the ring alone.                                       *)
LEMMA RingFrame ==
    ASSUME UNCHANGED <<stream, rd, released>>
    PROVE  UNCHANGED Ring!ringvars
BY DEF Ring!ringvars, taken

(* send_write() puts bytes in where there is room.                          *)
LEMMA SendWrites ==
    ASSUME TypeOK, TypeOK', CallInv, NEW t \in Thread, send_write(t)
    PROVE  Ring!Write
<1> DEFINE n == Least(Piece(t) - call[t].part, scif_rb_space)
           s == [i \in 1..n |-> <<t, call[t].seq>>]
<1>1. /\ t \in Senders /\ More(t) /\ stream' = stream \o s
      /\ UNCHANGED <<rd, released>>
    BY ZenonT(60) DEF send_write
<1>2. /\ stream \in Seq(Senders \X Nat) /\ stream' \in Seq(Senders \X Nat)
      /\ rd \in Nat /\ released \in Nat /\ rd <= Len(stream) /\ released <= rd
    BY ZenonT(60) DEF TypeOK
<1>3. Len(stream') - released < Size
  <2>1. Len(stream') - released' < Size
      BY ZenonT(60) DEF TypeOK
  <2> QED
      BY <1>1, <2>1, ZenonT(60)
<1>4. n \in Nat
  <2>1. pc[t] = "loop"
      BY <1>1 DEF More
  <2>2. /\ call[t].part \in Nat /\ call[t].part < Piece(t) /\ Piece(t) \in Nat
      BY <1>1, <2>1, PieceSize DEF More, TypeOK, Calls
  <2>3. scif_rb_space \in Nat
      BY SizeAssumption DEF scif_rb_space, TypeOK
  <2> QED
      BY <2>2, <2>3 DEF Least
<1> HIDE DEF n
<1>5. s \in Seq(Senders \X Nat) /\ Len(s) = n
  <2>1. <<t, call[t].seq>> \in Senders \X Nat
      BY <1>1 DEF TypeOK, Calls
  <2> QED
      BY <1>4, <2>1
<1>6. Len(stream') = Len(stream) + n /\ \A i \in 1..Len(stream) : stream'[i] = stream[i]
  <2> DEFINE S == Senders \X Nat
  <2>1. ASSUME NEW a \in Seq(S), NEW b \in Seq(S)
        PROVE  Len(a \o b) = Len(a) + Len(b) /\ \A i \in 1..Len(a) : (a \o b)[i] = a[i]
    <3> HIDE DEF S
    <3> QED
        OBVIOUS
  <2> HIDE DEF s
  <2> QED
      BY <1>1, <1>2, <1>5, <2>1, ZenonT(60)
<1>7. taken' = taken
  <2>1. \A i \in 1..rd : stream'[i] = stream[i]
      BY <1>2, <1>6
  <2> QED
      BY <1>1, <2>1, ZenonT(60) DEF taken
<1>8. Len(stream) <= Len(stream') /\ Len(stream') - released <= Size - 1
      /\ Len(stream') \in Len(stream)..Len(stream')
    BY <1>2, <1>3, <1>4, <1>6, SizeAssumption
<1>9. \A i \in 1..Len(stream) : stream[i] = stream'[i]
    BY <1>6
<1> QED
    BY <1>1, <1>2, <1>7, <1>8, <1>9, ZenonT(60) DEF Ring!Write, Ring!Begins

(* recv_read() takes bytes out and gives back no more than it has taken.    *)
LEMMA RecvReads ==
    ASSUME TypeOK, TypeOK', CallInv, NEW t \in Thread, recv_read(t)
    PROVE  Ring!Read
<1> DEFINE n == Least(Piece(t) - call[t].part, scif_rb_count)
<1>1. /\ More(t) /\ rd' = rd + n /\ stream' = stream
      /\ released' = rd' \/ released' = released
    BY ZenonT(60) DEF recv_read
<1>2. /\ rd \in Nat /\ released \in Nat /\ rd <= Len(stream) /\ released <= rd
      /\ Len(stream) \in Nat
    BY DEF TypeOK
<1>3. rd' \in Nat /\ released' \in Nat /\ rd' <= Len(stream) /\ released' <= rd'
  <2>1. rd' \in Nat /\ released' \in Nat /\ rd' <= Len(stream') /\ released' <= rd'
      BY ZenonT(60) DEF TypeOK
  <2> QED
      BY <1>1, <2>1, ZenonT(60)
<1>4. n \in Nat
  <2>1. pc[t] = "loop"
      BY <1>1 DEF More
  <2>2. /\ call[t].part \in Nat /\ call[t].part < Piece(t) /\ Piece(t) \in Nat
      BY <1>1, <2>1, PieceSize DEF More, TypeOK, Calls
  <2>3. scif_rb_count \in Nat
      BY <1>2 DEF scif_rb_count
  <2> QED
      BY <2>2, <2>3 DEF Least
<1> HIDE DEF n
<1>5. Len(taken) = rd /\ \A i \in 1..rd : taken[i] = stream[i]
    BY Taken
<1>6. Len(taken') = rd' /\ \A i \in 1..rd' : taken'[i] = stream[i]
  <2>1. stream \in Seq(Senders \X Nat)
      BY DEF TypeOK
  <2>2. taken' = [i \in 1..rd' |-> stream[i]]
      BY <1>1 DEF taken
  <2> QED
      BY <1>3, <2>1, <2>2, Beginning, ZenonT(60)
<1>7. Ring!Begins(taken, taken')
    BY <1>1, <1>2, <1>3, <1>4, <1>5, <1>6 DEF Ring!Begins
<1>8. Ring!Begins(taken', stream)
    BY <1>3, <1>6 DEF Ring!Begins
<1>9. Len(taken') <= Len(stream) /\ released' \in released..Len(taken')
    BY <1>1, <1>2, <1>3, <1>4, <1>6
<1> QED
    BY <1>1, <1>7, <1>8, <1>9, ZenonT(60) DEF Ring!Read

(* Whatever threads, signals, closes and messages do, _scif_send() and      *)
(* _scif_recv() use the ring as the bounded queue which ScifRb implements,  *)
(* for any number of threads and any ring size.                             *)
THEOREM Refinement == Spec => UsesRing
<1>1. Init => Ring!Init
    BY DEF Init, Ring!Init, taken
<1>2. IInv /\ IInv' /\ [Next]_vars => [Ring!Write \/ Ring!Read]_(Ring!ringvars)
  <2> SUFFICES ASSUME IInv, IInv', [Next]_vars
               PROVE  [Ring!Write \/ Ring!Read]_(Ring!ringvars)
      OBVIOUS
  <2>1. TypeOK /\ TypeOK'
      BY DEF IInv
  <2>2. ASSUME NEW t \in Thread, send_write(t) PROVE Ring!Write
      BY <2>1, <2>2, SendWrites DEF IInv
  <2>3. ASSUME NEW t \in Thread, recv_read(t) PROVE Ring!Read
      BY <2>1, <2>3, RecvReads DEF IInv
  <2>4. \/ \E t \in Thread : send_write(t) \/ recv_read(t)
        \/ UNCHANGED <<stream, rd, released>>
    <3>1. ASSUME NEW t \in Thread, Step(t) \/ signal(t)
          PROVE  send_write(t) \/ recv_read(t) \/ UNCHANGED <<stream, rd, released>>
        BY <3>1, ZenonT(60) DEF Step, signal, mutex_lock, spin_lock, wait_event, finish, check_event,
                    ring_vars
    <3>2. ASSUME NEW e \in End,
                 scif_close(e) \/ Close(e) \/ disconnect_timeout(e) \/ Handle(e)
          PROVE  UNCHANGED <<stream, rd, released>>
        BY <3>2, ZenonT(60) DEF scif_close, Close, Handle, close_wake, close_sync,
                    scif_disconnect_ep, disconnect_timeout, scif_teardown_ep,
                    scif_clientrcvd, scif_clientsend, scif_discnct, scif_discnt_ack,
                    close_unchanged, ring_vars
    <3>3. ASSUME NEW t \in Thread, NEW len \in 1..MaxLen, NEW blk \in BOOLEAN,
                 scif_call(t, len, blk)
          PROVE  UNCHANGED <<stream, rd, released>>
        BY <3>3 DEF scif_call, ring_vars
    <3>4. CASE UNCHANGED vars
        BY <3>4 DEF vars, ring_vars
    <3> QED
        BY <3>1, <3>2, <3>3, <3>4 DEF Next
  <2> QED
      BY <2>2, <2>3, <2>4, RingFrame
<1> QED
    BY <1>1, <1>2, Invariance, PTL DEF Spec, UsesRing, Ring!Spec
=============================================================================
