-------------------------- MODULE ScifFenceProofs --------------------------
(***************************************************************************)
(* Proof that a fence wait covers what it promises to cover (WaitedDone),  *)
(* for every number of threads, every sequence of calls, closes and lost   *)
(* nodes.  The inductive invariant follows a mark and a wait through the   *)
(* messages: while a message belongs to the latest call of its thread, it  *)
(* agrees with that call, a MARK_ACK carries a cookie behind what the call *)
(* is to cover, and a WAIT_ACK is sent after the completion of its mark.   *)
(***************************************************************************)
EXTENDS ScifFence, TLAPS

\* A leaf that names no back end is tried with SMT, again when its translation
\* runs out of time, and then with Zenon.
USE SMTT(60), SMTT(61), SMTT(62), SMTT(63), ZenonT(60)

MarkUops == {"MARK", "MARK_ACK", "MARK_NACK"}
WaitUops == {"WAIT", "WAIT_ACK", "WAIT_NACK"}
SigUops == {"SIG_LOCAL", "SIG_REMOTE", "SIG_ACK", "SIG_NACK"}

\* Message m, on its way to e, agrees with call c of its thread.
Agrees(e, m, c) ==
    /\ m.n <= c.n
    /\ m.n = c.n =>
         /\ m.uop \in MarkUops => c.op = "mark"
         /\ m.uop = "MARK" => c.covers <= Len(chan[e])
         /\ m.uop = "MARK_ACK" => c.covers <= m.mark
         /\ m.uop \in WaitUops => c.op = "wait" /\ m.mark = c.cookie
         /\ m.uop = "WAIT_ACK" => m.mark <= done[Peer(e)]
         /\ m.uop \in SigUops => c.op = "signal"

Good(e, m) ==
    m.uop \notin {"DISCNCT", "DISCNT_ACK"} =>
        /\ m.thread \in Threads
        /\ EndOf[m.thread] = (IF m.uop \in Requests THEN Peer(e) ELSE e)
        /\ Agrees(e, m, call[m.thread])

CallOK(t) ==
    LET c == call[t] IN
    /\ c.op = "wait" \/ c.pc = "submitted" => c.covers <= c.cookie
    /\ c.pc = "submitted" => c.op = "mark"
    /\ c.pc = "signalling" => c.op = "signal"
    /\ c.pc = "waiting" => c.op = "wait" /\ ~c.peer
    /\ c.pc = "sent" => c.peer
    /\ c.pc = "sent" /\ req[t].state = "OP_COMPLETED" =>
         /\ c.op = "wait" => c.cookie <= done[Peer(EndOf[t])]
         /\ c.op = "mark" => c.covers <= req[t].dma_mark
    /\ c.pc = "idle" /\ c.op = "wait" /\ c.res = "ok" => c.cookie <= done[Target(t)]

CallsOK == \A t \in Threads : CallOK(t)
MarksOK == \A e \in Ends : \A m \in marks[e] : m.covers <= m.cookie
WiresOK == \A e \in Ends : \A i \in 1 .. Len(wire[e]) : Good(e, wire[e][i])
HandlersOK == \A e \in Ends : handler[e] # None =>
                 handler[e].uop = "MARK_ACK" /\ Good(Peer(e), handler[e])
FencesOK == \A e \in Ends : \A i \in 1 .. Len(fence[e]) :
                 fence[e][i].uop = "WAIT" /\ Good(e, fence[e][i])
WorksOK == \A e \in Ends : work[e].pc = "waiting" =>
             work[e].fence \in Messages /\ work[e].fence.uop = "WAIT" /\ Good(e, work[e].fence)

\* The inductive invariant.
FenceInv == TypeOK /\ CallsOK /\ MarksOK /\ WiresOK /\ HandlersOK /\ FencesOK /\ WorksOK

-----------------------------------------------------------------------------
(* What every step keeps of calls, channels and messages *)

\* A step keeps the fields of a call that messages refer to, or starts the
\* next call; channels grow and completion advances.
Grows ==
    /\ \A e \in Ends : Len(chan[e]) <= Len(chan'[e]) /\ done[e] <= done'[e]
    /\ \A t \in Threads :
          \/ call[t].n < call'[t].n
          \/ /\ call'[t].n = call[t].n /\ call'[t].op = call[t].op
             /\ call'[t].cookie = call[t].cookie /\ call'[t].covers = call[t].covers

\* The other end.
LEMMA PeerEnd == \A e \in Ends : Peer(e) \in Ends /\ Peer(e) # e /\ Peer(Peer(e)) = e
BY DEF Ends, Peer

\* A message stays good.
LEMMA GoodGrows ==
    ASSUME TypeOK, TypeOK', Grows, NEW e \in Ends, NEW m \in Messages, Good(e, m)
    PROVE  Good(e, m)'
<1>1. CASE m.uop \in {"DISCNCT", "DISCNT_ACK"}
  BY <1>1 DEF Good
<1>2. CASE m.uop \notin {"DISCNCT", "DISCNT_ACK"}
  <2> DEFINE t == m.thread
  <2>1. t \in Threads /\ Agrees(e, m, call[t])
    BY <1>2 DEF Good
  <2>2. call[t] \in Calls /\ call'[t] \in Calls /\ m.n \in Nat /\ m.mark \in Nat
    BY <2>1 DEF TypeOK, Messages
  <2>3. call[t].n \in Nat /\ call'[t].n \in Nat /\ call[t].covers \in Nat /\ call'[t].covers \in Nat
    BY <2>2 DEF Calls
  <2>4. /\ Len(chan[e]) \in Nat /\ Len(chan'[e]) \in Nat
        /\ done[Peer(e)] \in Nat /\ done'[Peer(e)] \in Nat
    <3>1. chan[e] \in Seq(Entries) /\ chan'[e] \in Seq(Entries)
      BY DEF TypeOK
    <3>2. done[Peer(e)] \in Nat /\ done'[Peer(e)] \in Nat
      BY PeerEnd DEF TypeOK
    <3> QED BY <3>1, <3>2
  <2>5. Len(chan[e]) <= Len(chan'[e]) /\ done[Peer(e)] <= done'[Peer(e)]
    BY PeerEnd DEF Grows
  <2>6. \/ call[t].n < call'[t].n
        \/ /\ call'[t].n = call[t].n /\ call'[t].op = call[t].op
           /\ call'[t].cookie = call[t].cookie /\ call'[t].covers = call[t].covers
    BY <2>1 DEF Grows
  <2>7. Agrees(e, m, call[t])'
    BY <2>1, <2>2, <2>3, <2>4, <2>5, <2>6 DEF Agrees, MarkUops, WaitUops,
       SigUops, Peer
  <2> QED BY <1>2, <2>1, <2>7 DEF Good
<1> QED BY <1>1, <1>2

\* Wires stay good when each message on them was there before or is good.
LEMMA WiresGrow ==
    ASSUME TypeOK, TypeOK', Grows, WiresOK,
           \A e \in Ends : \A i \in 1 .. Len(wire'[e]) :
               \/ \E j \in 1 .. Len(wire[e]) : wire'[e][i] = wire[e][j]
               \/ Good(e, wire[e][i])'
    PROVE  WiresOK'
<1> SUFFICES ASSUME NEW e \in Ends, NEW i \in 1 .. Len(wire'[e])
             PROVE  Good(e, wire[e][i])'
  BY DEF WiresOK
<1>1. CASE \E j \in 1 .. Len(wire[e]) : wire'[e][i] = wire[e][j]
  <2>1. PICK j \in 1 .. Len(wire[e]) : wire'[e][i] = wire[e][j]
    BY <1>1
  <2>2. wire'[e] \in Seq(Messages)
    BY DEF TypeOK
  <2>3. PICK m \in Messages : m = wire'[e][i]
    BY <2>2
  <2>4. Good(e, m)
    BY <2>1, <2>3 DEF WiresOK
  <2>5. Good(e, m)'
    BY <2>4, GoodGrows
  <2> QED BY <2>3, <2>5 DEF Good, Agrees
<1> QED BY <1>1

\* A message is taken.
LEMMA WiresTail ==
    ASSUME TypeOK, TypeOK', Grows, WiresOK, NEW e \in Ends, wire[e] # <<>>,
           wire' = [wire EXCEPT ![e] = Tail(@)]
    PROVE  WiresOK'
<1>1. \A x \in Ends : \A i \in 1 .. Len(wire'[x]) : \E j \in 1 .. Len(wire[x]) : wire'[x][i] = wire[x][j]
  <2> SUFFICES ASSUME NEW x \in Ends, NEW i \in 1 .. Len(wire'[x])
               PROVE  \E j \in 1 .. Len(wire[x]) : wire'[x][i] = wire[x][j]
    OBVIOUS
  <2>1. wire[x] \in Seq(Messages) /\ wire[e] \in Seq(Messages) /\ wire \in [Ends -> Seq(Messages)]
    BY DEF TypeOK
  <2>2. CASE x = e
    <3>1. wire'[x] = Tail(wire[x])
      BY <2>1, <2>2
    <3>2. i + 1 \in 1 .. Len(wire[x]) /\ wire'[x][i] = wire[x][i + 1]
      BY <2>1, <2>2, <3>1
    <3> QED BY <3>2
  <2>3. CASE x # e
    BY <2>1, <2>3
  <2> QED BY <2>2, <2>3
<1> QED BY <1>1, WiresGrow

\* A message is sent.
LEMMA WiresSend ==
    ASSUME TypeOK, TypeOK', Grows, WiresOK, NEW e \in Ends, NEW m \in Messages,
           Good(Peer(e), m)', scif_nodeqp_send(e, m)
    PROVE  WiresOK'
<1>1. \A x \in Ends : \A i \in 1 .. Len(wire'[x]) :
         (\E j \in 1 .. Len(wire[x]) : wire'[x][i] = wire[x][j]) \/ Good(x, wire[x][i])'
  <2> SUFFICES ASSUME NEW x \in Ends, NEW i \in 1 .. Len(wire'[x])
               PROVE  \/ \E j \in 1 .. Len(wire[x]) : wire'[x][i] = wire[x][j]
                      \/ x = Peer(e) /\ wire'[x][i] = m
    BY DEF Good, Agrees
  <2>1. wire[x] \in Seq(Messages) /\ wire \in [Ends -> Seq(Messages)] /\ Peer(e) \in Ends
    BY PeerEnd DEF TypeOK
  <2>2. CASE alive[e] /\ x = Peer(e)
    <3>1. wire'[x] = Append(wire[x], m)
      BY <2>1, <2>2 DEF scif_nodeqp_send
    <3> QED BY <2>1, <2>2, <3>1
  <2>3. CASE ~(alive[e] /\ x = Peer(e))
    BY <2>1, <2>3 DEF scif_nodeqp_send
  <2> QED BY <2>2, <2>3
<1> QED BY <1>1, WiresGrow

\* A message is taken and answered.
LEMMA WiresAnswer ==
    ASSUME TypeOK, TypeOK', Grows, WiresOK, NEW e \in Ends, wire[e] # <<>>, NEW m \in Messages,
           Good(Peer(e), m)', Answer(e, m)
    PROVE  WiresOK'
<1>1. \A x \in Ends : \A i \in 1 .. Len(wire'[x]) :
         (\E j \in 1 .. Len(wire[x]) : wire'[x][i] = wire[x][j]) \/ Good(x, wire[x][i])'
  <2> SUFFICES ASSUME NEW x \in Ends, NEW i \in 1 .. Len(wire'[x])
               PROVE  \/ \E j \in 1 .. Len(wire[x]) : wire'[x][i] = wire[x][j]
                      \/ x = Peer(e) /\ wire'[x][i] = m
    BY DEF Good, Agrees
  <2>1. /\ wire[x] \in Seq(Messages) /\ wire[e] \in Seq(Messages)
        /\ wire \in [Ends -> Seq(Messages)] /\ Peer(e) \in Ends /\ Peer(e) # e
    BY PeerEnd DEF TypeOK
  <2>2. CASE x = e
    <3>1. wire'[x] = Tail(wire[x])
      BY <2>1, <2>2 DEF Answer
    <3>2. i + 1 \in 1 .. Len(wire[x]) /\ wire'[x][i] = wire[x][i + 1]
      BY <2>1, <2>2, <3>1
    <3> QED BY <3>2
  <2>3. CASE x = Peer(e)
    <3>1. wire'[x] = Append(wire[x], m) \/ wire'[x] = wire[x]
      BY <2>1, <2>3 DEF Answer
    <3>2. CASE wire'[x] = wire[x]
      BY <3>2
    <3>3. CASE wire'[x] = Append(wire[x], m)
      <4>1. (i \in 1 .. Len(wire[x]) /\ wire'[x][i] = wire[x][i]) \/ wire'[x][i] = m
        BY <2>1, <3>3
      <4> QED BY <2>3, <4>1
    <3> QED BY <3>1, <3>2, <3>3
  <2>4. x = e \/ x = Peer(e)
    BY DEF Ends, Peer
  <2> QED BY <2>2, <2>3, <2>4
<1> QED BY <1>1, WiresGrow

\* The messages that handlers and work queues hold.
LEMMA HandlersGrow ==
    ASSUME TypeOK, TypeOK', Grows, HandlersOK,
           \A e \in Ends : handler'[e] \in {handler[e], None}
    PROVE  HandlersOK'
<1> SUFFICES ASSUME NEW e \in Ends, handler'[e] # None
             PROVE  (handler[e].uop = "MARK_ACK" /\ Good(Peer(e), handler[e]))'
  BY DEF HandlersOK
<1>1. handler'[e] = handler[e] /\ handler'[e] \in Messages /\ Peer(e) \in Ends
  BY PeerEnd DEF TypeOK
<1>2. PICK m \in Messages : m = handler'[e]
  BY <1>1
<1>3. m.uop = "MARK_ACK" /\ Good(Peer(e), m)
  BY <1>1, <1>2 DEF HandlersOK
<1>4. Good(Peer(e), m)'
  BY <1>1, <1>3, GoodGrows
<1> QED BY <1>2, <1>3, <1>4 DEF Good, Agrees

LEMMA FencesGrow ==
    ASSUME TypeOK, TypeOK', Grows, FencesOK,
           \A e \in Ends : fence'[e] = fence[e] \/ (fence[e] # <<>> /\ fence'[e] = Tail(fence[e]))
    PROVE  FencesOK'
<1> SUFFICES ASSUME NEW e \in Ends, NEW i \in 1 .. Len(fence'[e])
             PROVE  (fence[e][i].uop = "WAIT")' /\ Good(e, fence[e][i])'
  BY DEF FencesOK
<1>1. fence[e] \in Seq(Messages) /\ fence'[e] \in Seq(Messages)
  BY DEF TypeOK
<1>2. PICK m \in Messages : m = fence'[e][i]
  BY <1>1
<1>3. \E j \in 1 .. Len(fence[e]) : m = fence[e][j]
  <2>1. CASE fence'[e] = fence[e]
    BY <1>2, <2>1
  <2>2. CASE fence[e] # <<>> /\ fence'[e] = Tail(fence[e])
    <3>1. i + 1 \in 1 .. Len(fence[e]) /\ m = fence[e][i + 1]
      BY <1>1, <1>2, <2>2
    <3> QED BY <3>1
  <2> QED BY <2>1, <2>2
<1>4. m.uop = "WAIT" /\ Good(e, m)
  BY <1>3 DEF FencesOK
<1>5. Good(e, m)'
  BY <1>4, GoodGrows
<1> QED BY <1>2, <1>4, <1>5 DEF Good, Agrees

LEMMA WorksGrow ==
    ASSUME TypeOK, TypeOK', Grows, WorksOK,
           \A e \in Ends : work'[e].pc = "waiting" =>
                               work[e].pc = "waiting" /\ work'[e].fence = work[e].fence
    PROVE  WorksOK'
<1> SUFFICES ASSUME NEW e \in Ends, work'[e].pc = "waiting"
             PROVE  (work[e].fence \in Messages /\ work[e].fence.uop = "WAIT" /\ Good(e, work[e].fence))'
  BY DEF WorksOK
<1>1. PICK m \in Messages : m = work'[e].fence
  BY DEF WorksOK
<1>2. m.uop = "WAIT" /\ Good(e, m)
  BY <1>1 DEF WorksOK
<1>3. Good(e, m)'
  BY <1>2, GoodGrows
<1> QED BY <1>1, <1>2, <1>3 DEF Good, Agrees

-----------------------------------------------------------------------------
(* The parts of the handlers *)

\* A message is sent or answered: the wires stay of their type.
LEMMA SendType ==
    ASSUME TypeOK, NEW e \in Ends, NEW m \in Messages, scif_nodeqp_send(e, m)
    PROVE  wire' \in [Ends -> Seq(Messages)]
BY PeerEnd DEF TypeOK, scif_nodeqp_send

LEMMA AnswerType ==
    ASSUME TypeOK, NEW e \in Ends, wire[e] # <<>>, NEW m \in Messages, Answer(e, m)
    PROVE  wire' \in [Ends -> Seq(Messages)]
<1>1. wire \in [Ends -> Seq(Messages)] /\ Tail(wire[e]) \in Seq(Messages)
  BY DEF TypeOK
<1>2. Append(wire[Peer(e)], m) \in Seq(Messages)
  BY <1>1, PeerEnd
<1> QED BY ZenonT(60), <1>1, <1>2, PeerEnd DEF Answer

LEMMA TailType ==
    ASSUME TypeOK, NEW e \in Ends, wire[e] # <<>>, wire' = [wire EXCEPT ![e] = Tail(@)]
    PROVE  wire' \in [Ends -> Seq(Messages)]
<1>1. wire \in [Ends -> Seq(Messages)] /\ Tail(wire[e]) \in Seq(Messages)
  BY DEF TypeOK
<1> QED BY <1>1

\* The message at the head of a wire.
LEMMA HeadGood ==
    ASSUME FenceInv, NEW e \in Ends, wire[e] # <<>>
    PROVE  Head(wire[e]) \in Messages /\ Good(e, Head(wire[e]))
<1>1. wire[e] \in Seq(Messages)
  BY DEF FenceInv, TypeOK
<1>2. 1 \in 1 .. Len(wire[e]) /\ Head(wire[e]) = wire[e][1] /\ wire[e][1] \in Messages
  BY <1>1
<1> QED BY <1>2 DEF FenceInv, WiresOK

\* A descriptor is submitted.
LEMMA SubmitFacts ==
    ASSUME TypeOK, NEW e \in Ends, NEW tx \in Entries, scif_dma_submit(e, tx)
    PROVE  /\ chan' \in [Ends -> Seq(Entries)]
           /\ Len(chan'[e]) = Len(chan[e]) + 1
           /\ \A x \in Ends : /\ Len(chan[x]) \in Nat /\ Len(chan'[x]) \in Nat
                              /\ Len(chan[x]) <= Len(chan'[x])
                              /\ called[x] <= done[x] /\ done[x] <= Len(chan'[x])
<1>1. chan \in [Ends -> Seq(Entries)]
  BY DEF TypeOK
<1>2. chan'[e] = Append(chan[e], tx) /\ \A x \in Ends \ {e} : chan'[x] = chan[x]
  BY <1>1 DEF scif_dma_submit
<1>3. Len(Append(chan[e], tx)) = Len(chan[e]) + 1 /\ Append(chan[e], tx) \in Seq(Entries)
  BY <1>1
<1>4. \A x \in Ends : Len(chan[x]) \in Nat
  BY <1>1
<1>5. chan' \in [Ends -> Seq(Entries)]
  BY <1>1, <1>3 DEF scif_dma_submit
<1>6. \A x \in Ends : Len(chan'[x]) \in Nat /\ Len(chan[x]) <= Len(chan'[x])
  BY <1>2, <1>3, <1>4
<1>7. \A x \in Ends : done[x] \in Nat /\ called[x] <= done[x] /\ done[x] <= Len(chan[x])
  BY DEF TypeOK
<1> QED BY <1>2, <1>3, <1>4, <1>5, <1>6, <1>7

\* The references of an endpoint are counted, or its state is set.
LEMMA RefsType ==
    ASSUME TypeOK, NEW e \in Ends, NEW k \in Int, RefsPlus(e, k)
    PROVE  ep' \in [Ends -> Endpoints]
<1>1. ep \in [Ends -> Endpoints] /\ ep[e] \in Endpoints
  BY DEF TypeOK
<1>2. [ep[e] EXCEPT !.fence_refcount = @ + k] \in Endpoints
  BY <1>1 DEF Endpoints
<1>3. ep' = [ep EXCEPT ![e] = [ep[e] EXCEPT !.fence_refcount = @ + k]]
  BY DEF RefsPlus
<1> QED BY <1>1, <1>2, <1>3

LEMMA StateType ==
    ASSUME TypeOK, NEW e \in Ends, NEW st \in {"DISCONNECTED", "ZOMBIE", "FREED"},
           ep' = [ep EXCEPT ![e].state = st]
    PROVE  ep' \in [Ends -> Endpoints]
<1>1. ep \in [Ends -> Endpoints] /\ ep[e] \in Endpoints
  BY DEF TypeOK
<1>2. [ep[e] EXCEPT !.state = st] \in Endpoints
  BY <1>1 DEF Endpoints
<1>3. ep' = [ep EXCEPT ![e] = [ep[e] EXCEPT !.state = st]]
  OBVIOUS
<1> QED BY <1>1, <1>2, <1>3

\* A work queue takes a new state.
LEMMA WorkType ==
    ASSUME TypeOK, NEW e \in Ends, NEW w \in Works, work' = [work EXCEPT ![e] = w]
    PROVE  work' \in [Ends -> Works] /\ work'[e] = w /\ \A x \in Ends \ {e} : work'[x] = work[x]
BY DEF TypeOK

LEMMA ScheduleFacts ==
    ASSUME TypeOK, NEW e \in Ends, schedule_work(e)
    PROVE  /\ work' \in [Ends -> Works]
           /\ \A x \in Ends : work'[x].pc = work[x].pc /\ work'[x].fence = work[x].fence
<1>1. work \in [Ends -> Works] /\ work[e] \in Works
  BY DEF TypeOK
<1> DEFINE w == [work[e] EXCEPT !.queued = TRUE]
<1>2. w \in Works /\ w.pc = work[e].pc /\ w.fence = work[e].fence
  BY ZenonT(60), <1>1 DEF Works
<1>3. work' = [work EXCEPT ![e] = w]
  BY DEF schedule_work
<1> HIDE DEF w
<1>4. work' \in [Ends -> Works] /\ work'[e] = w /\ \A x \in Ends \ {e} : work'[x] = work[x]
  BY ZenonT(60), <1>2, <1>3, WorkType
<1> QED BY <1>2, <1>4

\* A call starts.
LEMMA BeginFacts ==
    ASSUME TypeOK, NEW t \in Threads, NEW c \in Calls, Begin(t, c)
    PROVE  /\ call' \in [Threads -> Calls]
           /\ call[t].n < call'[t].n /\ call'[t].n = call[t].n + 1
           /\ call'[t].pc = c.pc /\ call'[t].op = c.op /\ call'[t].peer = c.peer
           /\ call'[t].cookie = c.cookie /\ call'[t].covers = c.covers
           /\ call'[t].res = c.res
           /\ \A u \in Threads \ {t} : call'[u] = call[u]
<1>1. call \in [Threads -> Calls] /\ call[t].n \in Nat
  BY DEF TypeOK, Calls
<1>2. [c EXCEPT !.n = call[t].n + 1] \in Calls
  BY <1>1 DEF Calls
<1>3. call'[t] = [c EXCEPT !.n = call[t].n + 1]
  BY <1>1 DEF Begin
<1>4. call' \in [Threads -> Calls] /\ \A u \in Threads \ {t} : call'[u] = call[u]
  BY <1>1, <1>2 DEF Begin
<1> QED BY <1>1, <1>3, <1>4 DEF Calls

\* A call returns.
LEMMA ReturnFacts ==
    ASSUME TypeOK, NEW t \in Threads, NEW res \in {"ok", "err"}, Return(t, res)
    PROVE  /\ call' \in [Threads -> Calls]
           /\ call'[t].n = call[t].n /\ call'[t].op = call[t].op /\ call'[t].peer = call[t].peer
           /\ call'[t].cookie = call[t].cookie /\ call'[t].covers = call[t].covers
           /\ call'[t].pc = "idle" /\ call'[t].res = res
           /\ \A u \in Threads \ {t} : call'[u] = call[u]
<1> DEFINE c == [call[t] EXCEPT !.pc = "idle", !.res = res]
<1>1. call \in [Threads -> Calls] /\ call[t] \in Calls
  BY DEF TypeOK
<1>2. c \in Calls /\ c.n = call[t].n /\ c.op = call[t].op /\ c.peer = call[t].peer
      /\ c.cookie = call[t].cookie /\ c.covers = call[t].covers /\ c.pc = "idle" /\ c.res = res
  BY ZenonT(60), <1>1 DEF Calls
<1>3. call' = [call EXCEPT ![t] = c]
  BY ZenonT(60), <1>1 DEF Return
<1> HIDE DEF c
<1>4. call' \in [Threads -> Calls] /\ call'[t] = c /\ \A u \in Threads \ {t} : call'[u] = call[u]
  BY <1>1, <1>2, <1>3
<1> QED BY <1>2, <1>4

\* Nothing that messages refer to changes.
LEMMA GrowsSame ==
    ASSUME TypeOK, UNCHANGED <<chan, call>>,
           \A e \in Ends : done[e] <= done'[e]
    PROVE  Grows
<1>1. \A e \in Ends : Len(chan[e]) \in Nat
  BY DEF TypeOK
<1> QED BY <1>1 DEF Grows

\* What calls are to cover stays covered when nothing but completion changes.
LEMMA CallsSame ==
    ASSUME TypeOK, TypeOK', CallsOK, UNCHANGED <<call, req>>, \A e \in Ends : done[e] <= done'[e]
    PROVE  CallsOK'
<1> SUFFICES ASSUME NEW t \in Threads PROVE CallOK(t)'
  BY DEF CallsOK
<1>1. CallOK(t)
  BY DEF CallsOK
<1>2. EndOf[t] \in Ends /\ Peer(EndOf[t]) \in Ends
  BY FenceAssumption, PeerEnd
<1>3. /\ done \in [Ends -> Nat] /\ done' \in [Ends -> Nat]
      /\ call[t].cookie \in Nat
  BY DEF TypeOK, Calls
<1>4. done[EndOf[t]] <= done'[EndOf[t]] /\ done[Peer(EndOf[t])] <= done'[Peer(EndOf[t])]
  BY <1>2
<1> QED BY <1>1, <1>2, <1>3, <1>4 DEF CallOK, Target, Peer

\* A step that changes no call, request, channel or mark.
LEMMA Quiet ==
    ASSUME FenceInv, TypeOK', UNCHANGED <<chan, call, req, marks>>,
           \A e \in Ends : done[e] <= done'[e],
           Grows => WiresOK',
           \A e \in Ends : handler'[e] \in {handler[e], None},
           \A e \in Ends : fence'[e] = fence[e] \/ (fence[e] # <<>> /\ fence'[e] = Tail(fence[e])),
           Grows => WorksOK'
    PROVE  FenceInv'
<1>1. Grows
  BY GrowsSame DEF FenceInv
<1>2. CallsOK'
  BY CallsSame DEF FenceInv
<1>3. MarksOK'
  BY DEF FenceInv, MarksOK
<1>4. HandlersOK' /\ FencesOK'
  BY <1>1, HandlersGrow, FencesGrow DEF FenceInv
<1> QED BY <1>1, <1>2, <1>3, <1>4 DEF FenceInv

\* Wires and work queues that do not change.
LEMMA WiresSame ==
    ASSUME TypeOK, TypeOK', Grows, WiresOK, UNCHANGED wire
    PROVE  WiresOK'
BY WiresGrow DEF TypeOK

LEMMA WorksSame ==
    ASSUME TypeOK, TypeOK', Grows, WorksOK,
           \A e \in Ends : work'[e].pc = work[e].pc /\ work'[e].fence = work[e].fence
    PROVE  WorksOK'
BY WorksGrow

-----------------------------------------------------------------------------
(* The channel, the close and the work queue *)

LEMMA EngineStep ==
    ASSUME FenceInv, NEW e \in Ends, Engine(e)
    PROVE  FenceInv'
<1>1. /\ done \in [Ends -> Nat] /\ called \in [Ends -> Nat] /\ chan \in [Ends -> Seq(Entries)]
      /\ \A x \in Ends : called[x] <= done[x] /\ done[x] <= Len(chan[x])
  BY DEF FenceInv, TypeOK
<1>2. \A x \in Ends : Len(chan[x]) \in Nat
  BY <1>1
<1>3. /\ done' \in [Ends -> Nat] /\ \A x \in Ends : done[x] <= done'[x]
      /\ \A x \in Ends : called[x] <= done'[x] /\ done'[x] <= Len(chan[x])
  BY <1>1, <1>2 DEF Engine
<1>4. TypeOK'
  BY <1>3 DEF FenceInv, TypeOK, Engine
<1> QED BY <1>3, <1>4, Quiet, WiresSame, WorksSame DEF FenceInv, Engine

LEMMA CallbackStep ==
    ASSUME FenceInv, NEW e \in Ends, Callback(e)
    PROVE  FenceInv'
<1>1. TypeOK
  BY DEF FenceInv
<1>2. ep' \in [Ends -> Endpoints]
  <2>1. RefsPlus(e, -1) \/ UNCHANGED ep
    BY DEF Callback
  <2>2. -1 \in Int
    OBVIOUS
  <2> QED BY <1>1, <2>1, <2>2, RefsType DEF TypeOK
<1>3. /\ called' \in [Ends -> Nat] /\ \A x \in Ends : called'[x] <= done[x]
  BY <1>1 DEF TypeOK, Callback
<1>4. TypeOK'
  BY <1>1, <1>2, <1>3 DEF TypeOK, Callback
<1>5. \A x \in Ends : done[x] <= done[x]
  BY <1>1 DEF TypeOK
<1> QED BY <1>1, <1>4, <1>5, Quiet, WiresSame, WorksSame DEF FenceInv, Callback

\* A step that leaves all but endpoints, nodes and the schedule of the work
\* queues as it is.
LEMMA EndpointStep ==
    ASSUME FenceInv, ep' \in [Ends -> Endpoints], alive' \in [Ends -> BOOLEAN],
           work' \in [Ends -> Works],
           \A e \in Ends : /\ work'[e].fence = work[e].fence
                           /\ work'[e].pc = "waiting" => work[e].pc = "waiting",
           UNCHANGED <<plan, chan, done, called, wire, handler, fence, call, req, marks>>
    PROVE  FenceInv'
<1>1. TypeOK
  BY DEF FenceInv
<1>2. TypeOK'
  BY <1>1 DEF TypeOK
<1>3. \A x \in Ends : done[x] <= done[x]
  BY <1>1 DEF TypeOK
<1>4. Grows => WorksOK'
  BY <1>1, <1>2, WorksGrow DEF FenceInv
<1> QED BY <1>1, <1>2, <1>3, <1>4, Quiet, WiresSame DEF FenceInv

LEMMA MiscStep ==
    ASSUME FenceInv, NEW e \in Ends, scif_misc_handler(e)
    PROVE  FenceInv'
<1>1. TypeOK /\ work[e] \in Works
  BY DEF FenceInv, TypeOK
<1> DEFINE w == [work[e] EXCEPT !.queued = FALSE, !.pc = "fences"]
<1>2. w \in Works /\ w.pc = "fences" /\ w.fence = work[e].fence
  BY ZenonT(60), <1>1 DEF Works
<1>3. work' = [work EXCEPT ![e] = w]
  BY ZenonT(60) DEF scif_misc_handler
<1> HIDE DEF w
<1>4. work' \in [Ends -> Works] /\ work'[e] = w /\ \A x \in Ends \ {e} : work'[x] = work[x]
  BY ZenonT(60), <1>1, <1>2, <1>3, WorkType
<1>5. ep' \in [Ends -> Endpoints] /\ alive' \in [Ends -> BOOLEAN]
  BY <1>1 DEF TypeOK, scif_misc_handler
<1> QED BY <1>2, <1>4, <1>5, EndpointStep DEF scif_misc_handler

LEMMA ZombieStep ==
    ASSUME FenceInv, NEW e \in Ends, scif_cleanup_zombie_epd(e)
    PROVE  FenceInv'
<1>1. TypeOK /\ work[e] \in Works
  BY DEF FenceInv, TypeOK
<1> DEFINE w == [work[e] EXCEPT !.pc = "idle"]
<1>2. w \in Works /\ w.pc = "idle" /\ w.fence = work[e].fence
  BY <1>1 DEF Works
<1>3. work' = [work EXCEPT ![e] = w]
  BY DEF scif_cleanup_zombie_epd
<1> HIDE DEF w
<1>4. work' \in [Ends -> Works] /\ work'[e] = w /\ \A x \in Ends \ {e} : work'[x] = work[x]
  BY ZenonT(60), <1>1, <1>2, <1>3, WorkType
<1>5. ep' \in [Ends -> Endpoints] /\ alive' \in [Ends -> BOOLEAN]
  BY ZenonT(60), <1>1, StateType DEF TypeOK, scif_cleanup_zombie_epd
<1> QED BY <1>2, <1>4, <1>5, EndpointStep DEF scif_cleanup_zombie_epd

LEMMA CloseEndStep ==
    ASSUME FenceInv, NEW e \in Ends, scif_close_end(e)
    PROVE  FenceInv'
<1>1. TypeOK
  BY DEF FenceInv
<1>2. ep' \in [Ends -> Endpoints] /\ alive' \in [Ends -> BOOLEAN]
  <2>1. ep \in [Ends -> Endpoints] /\ ep[e] \in Endpoints
    BY <1>1 DEF TypeOK
  <2> DEFINE r == [ep[e] EXCEPT !.closer = IF ep[e].state = "CLOSING" THEN "late" ELSE "zombie",
                                !.state = "ZOMBIE"]
  <2>2. r \in Endpoints
    BY ZenonT(60), <2>1 DEF Endpoints
  <2>3. ep' = [ep EXCEPT ![e] = r]
    BY ZenonT(60) DEF scif_close_end
  <2> QED BY <1>1, <2>1, <2>2, <2>3 DEF TypeOK, scif_close_end
<1>3. /\ work' \in [Ends -> Works]
      /\ \A x \in Ends : work'[x].pc = work[x].pc /\ work'[x].fence = work[x].fence
  BY <1>1, ScheduleFacts DEF scif_close_end
<1> QED BY <1>2, <1>3, EndpointStep DEF scif_close_end

LEMMA NodeGoneStep ==
    ASSUME FenceInv, NEW e \in Ends, NodeGone(e)
    PROVE  FenceInv'
<1>1. TypeOK
  BY DEF FenceInv
<1>2. ep' \in [Ends -> Endpoints] /\ alive' \in [Ends -> BOOLEAN]
  BY ZenonT(60), <1>1, StateType DEF TypeOK, NodeGone
<1>3. work' \in [Ends -> Works]
  BY <1>1 DEF TypeOK, NodeGone
<1> QED BY <1>2, <1>3, EndpointStep DEF NodeGone

-----------------------------------------------------------------------------
(* Messages *)

\* A step that may submit a descriptor and sends or takes messages.
LEMMA MessageStep ==
    ASSUME FenceInv, TypeOK', UNCHANGED <<done, call, req, marks>>,
           \A e \in Ends : Len(chan[e]) <= Len(chan'[e]),
           Grows => WiresOK' /\ HandlersOK' /\ FencesOK' /\ WorksOK'
    PROVE  FenceInv'
<1>1. \A e \in Ends : done[e] <= done[e]
  BY DEF FenceInv, TypeOK
<1>2. Grows
  BY <1>1 DEF Grows
<1>3. CallsOK'
  BY <1>1, CallsSame DEF FenceInv
<1>4. MarksOK'
  BY DEF FenceInv, MarksOK
<1> QED BY <1>2, <1>3, <1>4 DEF FenceInv

\* What handlers, fences and work queues hold does not change.
LEMMA HeldSame ==
    ASSUME FenceInv, TypeOK', Grows, UNCHANGED <<handler, fence, work>>
    PROVE  HandlersOK' /\ FencesOK' /\ WorksOK'
BY HandlersGrow, FencesGrow, WorksGrow DEF FenceInv

LEMMA LenSame ==
    ASSUME TypeOK
    PROVE  \A e \in Ends : Len(chan[e]) <= Len(chan[e])
<1>1. \A e \in Ends : Len(chan[e]) \in Nat
  BY DEF TypeOK
<1> QED BY <1>1

LEMMA LostStep ==
    ASSUME FenceInv, NEW e \in Ends, lost_message(e)
    PROVE  FenceInv'
<1>1. TypeOK
  BY DEF FenceInv
<1>2. TypeOK'
  BY ZenonT(60), <1>1, TailType DEF TypeOK, lost_message
<1>3. Grows => WiresOK'
  BY ZenonT(60), <1>1, <1>2, WiresTail DEF FenceInv, lost_message
<1>4. \A x \in Ends : Len(chan[x]) <= Len(chan'[x])
  BY <1>1, LenSame DEF lost_message
<1> QED BY <1>2, <1>3, <1>4, HeldSame, MessageStep DEF lost_message

LEMMA DiscntAckStep ==
    ASSUME FenceInv, NEW e \in Ends, scif_discnt_ack(e)
    PROVE  FenceInv'
<1>1. TypeOK
  BY DEF FenceInv
<1>2. TypeOK'
  BY ZenonT(60), <1>1, TailType, StateType DEF TypeOK, scif_discnt_ack, Takes
<1>3. Grows => WiresOK'
  BY ZenonT(60), <1>1, <1>2, WiresTail DEF FenceInv, scif_discnt_ack, Takes
<1>4. \A x \in Ends : Len(chan[x]) <= Len(chan'[x])
  BY <1>1, LenSame DEF scif_discnt_ack
<1> QED BY <1>2, <1>3, <1>4, HeldSame, MessageStep DEF scif_discnt_ack

\* The messages of a close belong to no call.
LEMMA CloseMessages ==
    \A u \in {"DISCNCT", "DISCNT_ACK"} : /\ Message(u) \in Messages
                                         /\ \A e \in Ends : Good(e, Message(u))'
BY DEF Message, Messages, Good

LEMMA DiscnctStep ==
    ASSUME FenceInv, NEW e \in Ends, scif_discnct(e)
    PROVE  FenceInv'
<1>1. TypeOK /\ Message("DISCNT_ACK") \in Messages /\ Good(Peer(e), Message("DISCNT_ACK"))'
  BY CloseMessages, PeerEnd DEF FenceInv
<1>2. ep' \in [Ends -> Endpoints]
  BY ZenonT(60), <1>1, StateType DEF TypeOK, scif_discnct
<1>3. wire' \in [Ends -> Seq(Messages)]
  BY <1>1, AnswerType DEF scif_discnct
<1>4. TypeOK'
  BY <1>1, <1>2, <1>3 DEF TypeOK, scif_discnct
<1>5. Grows => WiresOK'
  BY <1>1, <1>4, WiresAnswer DEF FenceInv, scif_discnct
<1>6. \A x \in Ends : Len(chan[x]) <= Len(chan'[x])
  BY <1>1, LenSame DEF scif_discnct
<1> QED BY <1>4, <1>5, <1>6, HeldSame, MessageStep DEF scif_discnct

LEMMA CloseStep ==
    ASSUME FenceInv, NEW e \in Ends, scif_close(e)
    PROVE  FenceInv'
<1>1. TypeOK /\ Message("DISCNCT") \in Messages /\ Good(Peer(e), Message("DISCNCT"))'
  BY CloseMessages, PeerEnd DEF FenceInv
<1>2. ep' \in [Ends -> Endpoints]
  <2>1. ep \in [Ends -> Endpoints] /\ ep[e] \in Endpoints
    BY <1>1 DEF TypeOK
  <2> DEFINE r == [ep[e] EXCEPT !.closer = "closing",
                                !.state = IF @ = "CONNECTED" THEN "CLOSING" ELSE @]
  <2>2. r \in Endpoints
    BY ZenonT(60), <2>1 DEF Endpoints
  <2>3. ep' = [ep EXCEPT ![e] = r]
    BY ZenonT(60) DEF scif_close
  <2> HIDE DEF r
  <2> QED BY ZenonT(60), <2>1, <2>2, <2>3
<1>3. plan' \in Scenario
  BY ZenonT(60), <1>1 DEF TypeOK, Scenario, scif_close
<1>4. wire' \in [Ends -> Seq(Messages)]
  BY <1>1, SendType DEF scif_close, TypeOK
<1>5. TypeOK'
  BY ZenonT(60), <1>1, <1>2, <1>3, <1>4 DEF TypeOK, scif_close
<1>6. Grows => WiresOK'
  BY <1>1, <1>5, WiresSend, WiresSame DEF FenceInv, scif_close
<1>7. \A x \in Ends : Len(chan[x]) <= Len(chan'[x])
  BY <1>1, LenSame DEF scif_close
<1> QED BY <1>5, <1>6, <1>7, HeldSame, MessageStep DEF scif_close

\* The answer to a good request is good.
LEMMA AnswerGood ==
    ASSUME TypeOK, NEW e \in Ends, NEW m \in Messages, Good(e, m),
           NEW a \in Messages, a.thread = m.thread, a.n = m.n,
           \/ m.uop = "MARK" /\ a.uop = "MARK_NACK"
           \/ m.uop = "MARK" /\ a.uop = "MARK_ACK" /\ a.mark = Len(chan[e]) + 1
           \/ m.uop = "WAIT" /\ a.uop = "WAIT_NACK" /\ a.mark = m.mark
           \/ m.uop = "WAIT" /\ a.uop = "WAIT_ACK" /\ a.mark = m.mark /\ m.mark <= done[e]
           \/ m.uop \in {"SIG_LOCAL", "SIG_REMOTE"} /\ a.uop \in {"SIG_ACK", "SIG_NACK"}
    PROVE  Good(Peer(e), a)
<1>1. /\ m.thread \in Threads /\ EndOf[m.thread] = Peer(e)
      /\ Agrees(e, m, call[m.thread])
  BY DEF Good, Requests
<1>2. call[m.thread].covers \in Nat /\ Len(chan[e]) \in Nat
  <2>1. chan[e] \in Seq(Entries) /\ call[m.thread] \in Calls
    BY <1>1 DEF TypeOK
  <2> QED BY <2>1 DEF Calls
<1>3. Agrees(Peer(e), a, call[a.thread])
  BY <1>1, <1>2, PeerEnd DEF Agrees, MarkUops, WaitUops, SigUops
<1> QED BY <1>1, <1>3 DEF Good, Requests

\* The message that a handler makes out of a request.
LEMMA AnswerFields ==
    ASSUME NEW m \in Messages, NEW u \in Acks \cup Nacks
    PROVE  LET a == [m EXCEPT !.uop = u]
           IN  /\ a \in Messages /\ a.uop = u /\ a.mark = m.mark
               /\ a.thread = m.thread /\ a.n = m.n
BY DEF Messages

LEMMA RecvMarkStep ==
    ASSUME FenceInv, NEW e \in Ends, scif_recv_mark(e)
    PROVE  FenceInv'
<1> DEFINE m == Head(wire[e])
           k == [m EXCEPT !.uop = "MARK_ACK", !.mark = Len(chan[e]) + 1]
           a == [m EXCEPT !.uop = "MARK_NACK"]
<1>1. TypeOK /\ wire[e] # <<>> /\ m.uop = "MARK" /\ m \in Messages /\ Good(e, m)
      /\ Peer(e) \in Ends
  BY HeadGood, PeerEnd DEF FenceInv, scif_recv_mark, Takes
<1>2. Len(chan[e]) \in Nat
  <2>1. chan[e] \in Seq(Entries)
    BY <1>1 DEF TypeOK
  <2> QED BY <2>1
<1>3. /\ k \in Messages /\ k.uop = "MARK_ACK" /\ k.mark = Len(chan[e]) + 1
      /\ k.thread = m.thread /\ k.n = m.n
      /\ a \in Messages /\ a.uop = "MARK_NACK" /\ a.thread = m.thread /\ a.n = m.n
  <2>1. Len(chan[e]) + 1 \in Nat /\ "MARK_ACK" \in Acks \cup Nacks /\ "MARK_NACK" \in Acks \cup Nacks
    BY <1>2 DEF Acks, Nacks
  <2> HIDE DEF m
  <2>2. /\ k \in Messages /\ k.uop = "MARK_ACK" /\ k.mark = Len(chan[e]) + 1
        /\ k.thread = m.thread /\ k.n = m.n
    BY ZenonT(60), <1>1, <2>1 DEF Messages
  <2>3. a \in Messages /\ a.uop = "MARK_NACK" /\ a.thread = m.thread /\ a.n = m.n
    BY <1>1, <2>1, AnswerFields
  <2> QED BY <2>2, <2>3
<1> HIDE DEF k, a
<1>4. Good(Peer(e), k) /\ Good(Peer(e), a)
  BY <1>1, <1>3, AnswerGood
<1>5. CASE /\ scif_dma_submit(e, Mark)
           /\ handler' = [handler EXCEPT ![e] = k]
           /\ wire' = [wire EXCEPT ![e] = Tail(@)]
  <2>1. Mark \in Entries
    BY DEF Mark, Entries
  <2>2. /\ chan' \in [Ends -> Seq(Entries)]
        /\ \A x \in Ends : /\ Len(chan[x]) \in Nat /\ Len(chan'[x]) \in Nat
                           /\ Len(chan[x]) <= Len(chan'[x])
                           /\ called[x] <= done[x] /\ done[x] <= Len(chan'[x])
    BY <1>1, <1>5, <2>1, SubmitFacts
  <2>4. /\ handler' \in [Ends -> Messages \cup {None}]
        /\ handler'[e] = k /\ \A x \in Ends \ {e} : handler'[x] = handler[x]
    BY <1>1, <1>3, <1>5 DEF TypeOK
  <2>5. wire' \in [Ends -> Seq(Messages)]
    BY ZenonT(60), <1>1, <1>5, TailType
  <2>6. TypeOK'
    BY ZenonT(60), <1>1, <2>2, <2>4, <2>5 DEF TypeOK, scif_recv_mark
  <2>7. ASSUME Grows PROVE HandlersOK'
    <3> SUFFICES ASSUME NEW x \in Ends, handler'[x] # None
                 PROVE  (handler[x].uop = "MARK_ACK" /\ Good(Peer(x), handler[x]))'
      BY DEF HandlersOK
    <3>1. PICK h \in Messages : h = handler'[x]
      BY <2>4
    <3>2. h.uop = "MARK_ACK" /\ Good(Peer(x), h)
      <4>1. CASE x = e
        BY <1>3, <1>4, <2>4, <3>1, <4>1
      <4>2. CASE x # e
        BY <2>4, <3>1, <4>2 DEF FenceInv, HandlersOK
      <4> QED BY <4>1, <4>2
    <3>3. Good(Peer(x), h)'
      BY <1>1, <2>6, <2>7, <3>2, GoodGrows, PeerEnd
    <3> QED BY ZenonT(60), <3>1, <3>2, <3>3 DEF Good, Agrees
  <2>8. Grows => WiresOK'
    BY ZenonT(60), <1>1, <1>5, <2>6, WiresTail DEF FenceInv
  <2>9. Grows => FencesOK' /\ WorksOK'
    BY <1>1, <2>6, FencesGrow, WorksGrow DEF FenceInv, scif_recv_mark
  <2> QED BY <2>2, <2>6, <2>7, <2>8, <2>9, MessageStep DEF scif_recv_mark
<1>6. CASE Answer(e, a) /\ UNCHANGED <<chan, handler>>
  <2>1. TypeOK'
    BY ZenonT(60), <1>1, <1>3, <1>6, AnswerType DEF TypeOK, scif_recv_mark
  <2>2. Grows => WiresOK'
    BY <1>1, <1>3, <1>4, <1>6, <2>1, GoodGrows, WiresAnswer DEF FenceInv
  <2>3. \A x \in Ends : Len(chan[x]) <= Len(chan'[x])
    BY <1>1, <1>6, LenSame
  <2> QED BY <1>6, <2>1, <2>2, <2>3, HeldSame, MessageStep DEF scif_recv_mark
<1> QED BY <1>5, <1>6 DEF scif_recv_mark, k, a

LEMMA RecvMarkRefStep ==
    ASSUME FenceInv, NEW e \in Ends, recv_mark_ref(e)
    PROVE  FenceInv'
<1> DEFINE h == handler[e]
<1>1. TypeOK /\ Peer(e) \in Ends /\ h \in Messages /\ Good(Peer(e), h) /\ 1 \in Int
  BY PeerEnd DEF FenceInv, TypeOK, HandlersOK, recv_mark_ref
<1>2. PICK m \in Messages : m = h
  BY <1>1
<1>3. scif_nodeqp_send(e, m) /\ Good(Peer(e), m)
  BY <1>1, <1>2 DEF recv_mark_ref
<1> HIDE DEF h
<1>4. wire' \in [Ends -> Seq(Messages)] /\ ep' \in [Ends -> Endpoints]
  BY <1>1, <1>3, SendType, RefsType DEF recv_mark_ref
<1>5. /\ handler' \in [Ends -> Messages \cup {None}]
      /\ \A x \in Ends : handler'[x] \in {handler[x], None}
  BY <1>1 DEF TypeOK, recv_mark_ref
<1>6. TypeOK'
  BY <1>1, <1>4, <1>5 DEF TypeOK, recv_mark_ref
<1>7. ASSUME Grows PROVE WiresOK' /\ HandlersOK' /\ FencesOK' /\ WorksOK'
  <2>1. Good(Peer(e), m)'
    BY <1>1, <1>3, <1>6, <1>7, GoodGrows
  <2> QED BY ZenonT(60), <1>1, <1>3, <1>5, <1>6, <1>7, <2>1, WiresSend,
             HandlersGrow, FencesGrow, WorksGrow
          DEF FenceInv, recv_mark_ref
<1>8. \A x \in Ends : Len(chan[x]) <= Len(chan'[x])
  BY <1>1, LenSame DEF recv_mark_ref
<1> QED BY <1>6, <1>7, <1>8, MessageStep DEF recv_mark_ref

LEMMA RecvWaitStep ==
    ASSUME FenceInv, NEW e \in Ends, scif_recv_wait(e)
    PROVE  FenceInv'
<1> DEFINE m == Head(wire[e])
           a == [m EXCEPT !.uop = "WAIT_NACK"]
<1>1. TypeOK /\ wire[e] # <<>> /\ m.uop = "WAIT" /\ m \in Messages /\ Good(e, m)
      /\ Peer(e) \in Ends
  BY HeadGood, PeerEnd DEF FenceInv, scif_recv_wait, Takes
<1>2. /\ a \in Messages /\ a.uop = "WAIT_NACK" /\ a.mark = m.mark
      /\ a.thread = m.thread /\ a.n = m.n
  <2>1. "WAIT_NACK" \in Acks \cup Nacks
    BY DEF Nacks
  <2> HIDE DEF m
  <2> QED BY <1>1, <2>1, AnswerFields
<1> HIDE DEF a
<1>3. Good(Peer(e), a)
  BY <1>1, <1>2, AnswerGood
<1>4. \A x \in Ends : Len(chan[x]) <= Len(chan'[x])
  BY <1>1, LenSame DEF scif_recv_wait
<1>5. CASE /\ fence' = [fence EXCEPT ![e] = Append(@, m)]
           /\ RefsPlus(e, 1)
           /\ schedule_work(e)
           /\ wire' = [wire EXCEPT ![e] = Tail(@)]
  <2>1. PICK w \in Messages : w = m
    BY <1>1
  <2>2. /\ fence \in [Ends -> Seq(Messages)] /\ fence' \in [Ends -> Seq(Messages)]
        /\ fence'[e] = Append(fence[e], w) /\ \A x \in Ends \ {e} : fence'[x] = fence[x]
    <3>1. fence \in [Ends -> Seq(Messages)]
      BY <1>1 DEF TypeOK
    <3>2. Append(fence[e], w) \in Seq(Messages)
      BY <3>1
    <3>3. fence' = [fence EXCEPT ![e] = Append(fence[e], w)]
      BY <1>5, <2>1
    <3> QED BY <3>1, <3>2, <3>3
  <2>3. wire' \in [Ends -> Seq(Messages)] /\ ep' \in [Ends -> Endpoints]
    <3>1. 1 \in Int
      OBVIOUS
    <3> QED BY ZenonT(60), <1>1, <1>5, <3>1, TailType, RefsType
  <2>4. /\ work' \in [Ends -> Works]
        /\ \A x \in Ends : work'[x].pc = work[x].pc /\ work'[x].fence = work[x].fence
    BY <1>1, <1>5, ScheduleFacts
  <2>5. TypeOK'
    BY ZenonT(60), <1>1, <2>2, <2>3, <2>4 DEF TypeOK, scif_recv_wait
  <2>6. ASSUME Grows PROVE FencesOK'
    <3> SUFFICES ASSUME NEW x \in Ends, NEW i \in 1 .. Len(fence'[x])
                 PROVE  (fence[x][i].uop = "WAIT")' /\ Good(x, fence[x][i])'
      BY DEF FencesOK
    <3>1. PICK f \in Messages : f = fence'[x][i]
      BY <2>2
    <3>2. f.uop = "WAIT" /\ Good(x, f)
      <4>1. CASE x = e /\ i = Len(fence[e]) + 1
        BY <1>1, <2>1, <2>2, <3>1, <4>1
      <4>2. CASE ~(x = e /\ i = Len(fence[e]) + 1)
        <5>1. i \in 1 .. Len(fence[x]) /\ f = fence[x][i]
          BY <2>2, <3>1, <4>2
        <5> QED BY <5>1 DEF FenceInv, FencesOK
      <4> QED BY <4>1, <4>2
    <3>3. Good(x, f)'
      BY <1>1, <2>5, <2>6, <3>2, GoodGrows
    <3> QED BY ZenonT(60), <3>1, <3>2, <3>3 DEF Good, Agrees
  <2>7. Grows => WiresOK' /\ HandlersOK' /\ WorksOK'
    BY ZenonT(60), <1>1, <1>5, <2>4, <2>5, WiresTail, HandlersGrow,
       WorksSame DEF FenceInv, scif_recv_wait
  <2> QED BY <1>4, <2>5, <2>6, <2>7, MessageStep DEF scif_recv_wait
<1>6. CASE Answer(e, a) /\ UNCHANGED <<ep, fence, work>>
  <2>1. TypeOK'
    BY ZenonT(60), <1>1, <1>2, <1>6, AnswerType DEF TypeOK, scif_recv_wait
  <2>2. Grows => WiresOK'
    BY <1>1, <1>2, <1>3, <1>6, <2>1, GoodGrows, WiresAnswer DEF FenceInv
  <2> QED BY <1>4, <1>6, <2>1, <2>2, HeldSame, MessageStep DEF scif_recv_wait
<1> QED BY <1>5, <1>6 DEF scif_recv_wait, a

LEMMA RecvSigStep ==
    ASSUME FenceInv, NEW e \in Ends, NEW flag \in Flags, recv_sig(e, flag)
    PROVE  FenceInv'
<1> DEFINE m == Head(wire[e])
<1>1. /\ TypeOK /\ wire[e] # <<>> /\ m.uop \in {"SIG_LOCAL", "SIG_REMOTE"} /\ m \in Messages
      /\ Good(e, m) /\ Peer(e) \in Ends /\ m.thread \in Threads /\ m.n \in Nat
  <2>1. TypeOK /\ wire[e] # <<>> /\ m.uop \in {"SIG_LOCAL", "SIG_REMOTE"} /\ Peer(e) \in Ends
    BY PeerEnd DEF FenceInv, recv_sig, Takes, SigUop
  <2>2. m \in Messages /\ Good(e, m)
    BY <2>1, HeadGood
  <2> QED BY <2>1, <2>2 DEF Good, Messages
<1>2. PICK u \in {"SIG_ACK", "SIG_NACK"} :
         /\ Answer(e, [m EXCEPT !.uop = u])
         /\ scif_dma_submit(e, Signal(m.thread, m.n, flag)) \/ UNCHANGED chan
  BY DEF recv_sig
<1> DEFINE a == [m EXCEPT !.uop = u]
<1>3. /\ a \in Messages /\ a.uop \in {"SIG_ACK", "SIG_NACK"} /\ a.mark = m.mark
      /\ a.thread = m.thread /\ a.n = m.n
  <2>1. u \in Acks \cup Nacks
    BY DEF Acks, Nacks
  <2> HIDE DEF m
  <2> QED BY ZenonT(60), <1>1, <2>1, AnswerFields
<1>4. Answer(e, a)
  BY <1>2
<1> HIDE DEF a
<1>5. Good(Peer(e), a)
  BY <1>1, <1>3, AnswerGood
<1>6. /\ chan' \in [Ends -> Seq(Entries)]
      /\ \A x \in Ends : Len(chan[x]) <= Len(chan'[x]) /\ called[x] <= done[x] /\ done[x] <= Len(chan'[x])
  <2>1. Signal(m.thread, m.n, flag) \in Entries
    BY <1>1 DEF Signal, Entries
  <2>2. CASE scif_dma_submit(e, Signal(m.thread, m.n, flag))
    BY <1>1, <2>1, <2>2, SubmitFacts
  <2>3. CASE UNCHANGED chan
    BY <1>1, <2>3, LenSame DEF TypeOK
  <2> QED BY <1>2, <2>2, <2>3
<1>7. wire' \in [Ends -> Seq(Messages)]
  BY ZenonT(60), <1>1, <1>3, <1>4, AnswerType
<1>8. TypeOK'
  BY ZenonT(60), <1>1, <1>6, <1>7 DEF TypeOK, recv_sig
<1>9. Grows => WiresOK'
  BY ZenonT(60), <1>1, <1>3, <1>4, <1>5, <1>8, GoodGrows, WiresAnswer
     DEF FenceInv
<1> QED BY <1>6, <1>8, <1>9, HeldSame, MessageStep DEF recv_sig

LEMMA HandleFencesStep ==
    ASSUME FenceInv, NEW e \in Ends, scif_rma_handle_remote_fences(e)
    PROVE  FenceInv'
<1>1. TypeOK /\ work[e] \in Works /\ fence \in [Ends -> Seq(Messages)]
  BY DEF FenceInv, TypeOK
<1>2. \A x \in Ends : Len(chan[x]) <= Len(chan'[x])
  BY <1>1, LenSame DEF scif_rma_handle_remote_fences
<1>3. CASE fence[e] = <<>>
  <2> DEFINE w == [work[e] EXCEPT !.pc = "zombies"]
  <2>1. w \in Works /\ w.pc = "zombies" /\ w.fence = work[e].fence
    BY ZenonT(60), <1>1 DEF Works
  <2>2. work' = [work EXCEPT ![e] = w]
    BY <1>3 DEF scif_rma_handle_remote_fences
  <2> HIDE DEF w
  <2>3. work' \in [Ends -> Works] /\ work'[e] = w /\ \A x \in Ends \ {e} : work'[x] = work[x]
    BY ZenonT(60), <1>1, <2>1, <2>2, WorkType
  <2>4. ep' \in [Ends -> Endpoints] /\ alive' \in [Ends -> BOOLEAN]
    BY <1>1 DEF TypeOK, scif_rma_handle_remote_fences
  <2> QED BY <1>3, <2>1, <2>3, <2>4, EndpointStep
             DEF scif_rma_handle_remote_fences
<1>4. CASE fence[e] # <<>>
  <2>1. PICK m \in Messages : m = Head(fence[e])
    BY <1>1, <1>4
  <2>2. m.uop = "WAIT" /\ Good(e, m)
    <3>1. 1 \in 1 .. Len(fence[e]) /\ m = fence[e][1]
      BY <1>1, <1>4, <2>1
    <3> QED BY <3>1 DEF FenceInv, FencesOK
  <2> DEFINE w == [work[e] EXCEPT !.pc = "waiting", !.fence = m]
  <2>3. w \in Works /\ w.fence = m
    BY ZenonT(60), <1>1 DEF Works
  <2>4. work' = [work EXCEPT ![e] = w]
    BY ZenonT(60), <1>4, <2>1 DEF scif_rma_handle_remote_fences
  <2> HIDE DEF w
  <2>5. work' \in [Ends -> Works] /\ work'[e] = w /\ \A x \in Ends \ {e} : work'[x] = work[x]
    BY ZenonT(60), <1>1, <2>3, <2>4, WorkType
  <2>6. /\ fence' \in [Ends -> Seq(Messages)]
        /\ \A x \in Ends : fence'[x] = fence[x] \/ (fence[x] # <<>> /\ fence'[x] = Tail(fence[x]))
    <3>1. Tail(fence[e]) \in Seq(Messages)
      BY <1>1, <1>4
    <3> QED BY ZenonT(60), <1>1, <1>4, <3>1 DEF scif_rma_handle_remote_fences
  <2>7. TypeOK'
    BY <1>1, <2>5, <2>6 DEF TypeOK, scif_rma_handle_remote_fences
  <2>8. ASSUME Grows PROVE WorksOK'
    <3> SUFFICES ASSUME NEW x \in Ends, work'[x].pc = "waiting"
                 PROVE  (/\ work[x].fence \in Messages /\ work[x].fence.uop = "WAIT"
                         /\ Good(x, work[x].fence))'
      BY DEF WorksOK
    <3>1. PICK f \in Messages : f = work'[x].fence /\ f.uop = "WAIT" /\ Good(x, f)
      BY <2>2, <2>3, <2>5 DEF FenceInv, WorksOK
    <3>2. Good(x, f)'
      BY <1>1, <2>7, <2>8, <3>1, GoodGrows
    <3> QED BY ZenonT(60), <3>1, <3>2 DEF Good, Agrees
  <2>9. Grows => WiresOK' /\ HandlersOK' /\ FencesOK'
    BY <1>1, <2>6, <2>7, WiresSame, HandlersGrow, FencesGrow
       DEF FenceInv, scif_rma_handle_remote_fences
  <2> QED BY <1>2, <2>7, <2>8, <2>9, MessageStep
             DEF scif_rma_handle_remote_fences
<1> QED BY <1>3, <1>4

LEMMA RemoteWaitedStep ==
    ASSUME FenceInv, NEW e \in Ends, remote_fence_waited(e)
    PROVE  FenceInv'
<1>1. TypeOK /\ Peer(e) \in Ends /\ work[e] \in Works /\ -1 \in Int
  BY PeerEnd DEF FenceInv, TypeOK
<1>2. PICK m \in Messages : m = work[e].fence
  BY DEF FenceInv, WorksOK, remote_fence_waited
<1>3. m.uop = "WAIT" /\ Good(e, m) /\ m.mark \in Nat
  BY <1>2 DEF FenceInv, WorksOK, Messages, remote_fence_waited
<1>4. PICK u \in {"WAIT_ACK", "WAIT_NACK"} :
         scif_nodeqp_send(e, [m EXCEPT !.uop = u]) /\ (u = "WAIT_ACK" => done[e] >= m.mark)
  BY <1>2 DEF remote_fence_waited, WaitResults, Complete
<1> DEFINE a == [m EXCEPT !.uop = u]
<1>5. /\ a \in Messages /\ a.uop = u /\ a.mark = m.mark /\ a.thread = m.thread /\ a.n = m.n
  <2>1. u \in Acks \cup Nacks
    BY DEF Acks, Nacks
  <2> QED BY <2>1, AnswerFields
<1>6. scif_nodeqp_send(e, a)
  BY <1>4
<1> HIDE DEF a
<1>7. Good(Peer(e), a)
  <2>1. u = "WAIT_ACK" => m.mark <= done[e]
    BY <1>1, <1>3, <1>4 DEF TypeOK
  <2> QED BY <1>1, <1>3, <1>5, <2>1, AnswerGood
<1> DEFINE w == [work[e] EXCEPT !.pc = "fences", !.fence = None,
                                !.queued = @ \/ ep[e].fence_refcount = 1]
<1>8. w \in Works /\ w.pc = "fences" /\ w.fence = None
  BY ZenonT(60), <1>1 DEF Works
<1>9. work' = [work EXCEPT ![e] = w]
  BY ZenonT(60) DEF remote_fence_waited
<1> HIDE DEF w
<1>10. work' \in [Ends -> Works] /\ work'[e] = w /\ \A x \in Ends \ {e} : work'[x] = work[x]
  BY ZenonT(60), <1>1, <1>8, <1>9, WorkType
<1>11. wire' \in [Ends -> Seq(Messages)] /\ ep' \in [Ends -> Endpoints]
  BY <1>1, <1>5, <1>6, SendType, RefsType DEF remote_fence_waited
<1>12. TypeOK'
  BY <1>1, <1>10, <1>11 DEF TypeOK, remote_fence_waited
<1>13. Grows => WiresOK'
  BY <1>1, <1>5, <1>6, <1>7, <1>12, GoodGrows, WiresSend DEF FenceInv
<1>14. Grows => WorksOK'
  BY <1>1, <1>8, <1>10, <1>12, WorksGrow DEF FenceInv
<1>15. Grows => HandlersOK' /\ FencesOK'
  BY <1>1, <1>12, HandlersGrow, FencesGrow DEF FenceInv, remote_fence_waited
<1>16. \A x \in Ends : Len(chan[x]) <= Len(chan'[x])
  BY <1>1, LenSame DEF remote_fence_waited
<1> QED BY <1>12, <1>13, <1>14, <1>15, <1>16, MessageStep
           DEF remote_fence_waited

LEMMA RespStep ==
    ASSUME FenceInv, NEW e \in Ends,
           NEW ack \in {"MARK_ACK", "WAIT_ACK", "SIG_ACK"},
           NEW nack \in {"MARK_NACK", "WAIT_NACK", "SIG_NACK"}, recv_resp(e, ack, nack)
    PROVE  FenceInv'
<1> DEFINE m == Head(wire[e])
           t == m.thread
           r == [state |-> IF m.uop = ack THEN "OP_COMPLETED" ELSE "OP_FAILED",
                 dma_mark |-> IF m.uop = "MARK_ACK" THEN m.mark ELSE req[t].dma_mark]
<1>1. TypeOK /\ wire[e] # <<>> /\ m.uop \in {ack, nack} /\ m \in Messages /\ Good(e, m)
  BY HeadGood DEF FenceInv, recv_resp, Takes
<1>2. /\ t \in Threads /\ EndOf[t] = e /\ Agrees(e, m, call[t])
      /\ req \in [Threads -> FenceReqs] /\ m.mark \in Nat
  BY <1>1 DEF Good, Requests, TypeOK, Messages
<1>3. r \in FenceReqs
  BY <1>2 DEF FenceReqs
<1>4. (Finds(m) /\ req' = [req EXCEPT ![t] = r]) \/ UNCHANGED req
  BY ZenonT(60) DEF recv_resp
<1>5. /\ req' \in [Threads -> FenceReqs]
      /\ \A u \in Threads : req'[u] = req[u] \/ (u = t /\ Finds(m) /\ req'[u] = r)
  <2> HIDE DEF r
  <2> QED BY <1>2, <1>3, <1>4
<1>6. TypeOK'
  <2>1. wire' \in [Ends -> Seq(Messages)]
    BY ZenonT(60), <1>1, TailType DEF recv_resp
  <2> QED BY ZenonT(60), <1>1, <1>5, <2>1 DEF TypeOK, recv_resp
<1>7. Grows
  <2>1. done' = done /\ \A x \in Ends : done[x] \in Nat
    BY ZenonT(60), <1>1 DEF TypeOK, recv_resp
  <2>2. \A x \in Ends : done[x] <= done'[x]
    BY <2>1
  <2> QED BY <1>1, <2>2, GrowsSame DEF recv_resp
<1>8. CallsOK'
  <2> SUFFICES ASSUME NEW u \in Threads PROVE CallOK(u)'
    BY DEF CallsOK
  <2>1. CallOK(u) /\ UNCHANGED <<call, done>>
    BY DEF FenceInv, CallsOK, recv_resp
  <2>2. CASE req'[u] = req[u]
    BY <2>1, <2>2 DEF CallOK, Target, Peer
  <2>3. CASE u = t /\ Finds(m) /\ req'[u] = r
    <3>1. call[u].n = m.n /\ Agrees(e, m, call[u]) /\ EndOf[u] = e
      BY ZenonT(60), <1>2, <2>3 DEF Finds
    <3>2. r.state = "OP_COMPLETED" =>
            /\ call[u].op = "wait" => call[u].cookie <= done[Peer(EndOf[u])]
            /\ call[u].op = "mark" => call[u].covers <= r.dma_mark
      BY <1>1, <3>1 DEF Agrees, MarkUops, WaitUops, SigUops
    <3> HIDE DEF r
    <3> QED BY ZenonT(60), <2>1, <2>3, <3>2 DEF CallOK, Target, Peer
  <2> QED BY <1>5, <2>2, <2>3
<1>9. WiresOK' /\ HandlersOK' /\ FencesOK' /\ WorksOK'
  BY ZenonT(60), <1>1, <1>6, <1>7, WiresTail, HeldSame DEF FenceInv, recv_resp
<1>10. MarksOK'
  BY DEF FenceInv, MarksOK, recv_resp
<1> QED BY <1>6, <1>8, <1>9, <1>10 DEF FenceInv

-----------------------------------------------------------------------------
(* Calls *)

\* A step of thread t.
LEMMA ThreadStep ==
    ASSUME FenceInv, TypeOK', NEW t \in Threads, UNCHANGED <<done, handler, fence, work>>,
           \A e \in Ends : Len(chan[e]) <= Len(chan'[e]),
           \A u \in Threads \ {t} : call'[u] = call[u] /\ req'[u] = req[u],
           \/ call[t].n < call'[t].n
           \/ /\ call'[t].n = call[t].n /\ call'[t].op = call[t].op
              /\ call'[t].cookie = call[t].cookie /\ call'[t].covers = call[t].covers,
           CallOK(t)', MarksOK', Grows => WiresOK'
    PROVE  FenceInv'
<1>1. \A e \in Ends : done[e] <= done'[e]
  BY DEF FenceInv, TypeOK
<1>2. Grows
  BY <1>1 DEF Grows
<1>3. CallsOK'
  <2> SUFFICES ASSUME NEW u \in Threads PROVE CallOK(u)'
    BY DEF CallsOK
  <2>1. CASE u = t
    BY <2>1
  <2>2. CASE u # t
    <3>1. CallOK(u) /\ call'[u] = call[u] /\ req'[u] = req[u]
      BY <2>2 DEF FenceInv, CallsOK
    <3> QED BY ZenonT(60), <3>1 DEF CallOK, Target, Peer
  <2> QED BY <2>1, <2>2
<1> QED BY <1>2, <1>3, HeldSame DEF FenceInv

\* The plan loses the call.
LEMMA PlanType ==
    ASSUME TypeOK, NEW t \in Threads, plan.calls[t] # <<>>,
           plan' = [plan EXCEPT !.calls[t] = Tail(@)]
    PROVE  plan' \in Scenario /\ Head(plan.calls[t]) \in Ops
<1>1. /\ plan \in Scenario /\ plan.calls \in [Threads -> Seq(Ops)]
      /\ Tail(plan.calls[t]) \in Seq(Ops) /\ Head(plan.calls[t]) \in Ops
  BY DEF TypeOK, Scenario
<1> DEFINE c == [plan.calls EXCEPT ![t] = Tail(plan.calls[t])]
<1>2. c \in [Threads -> Seq(Ops)]
  BY <1>1
<1>3. plan' = [plan EXCEPT !.calls = c]
  OBVIOUS
<1> HIDE DEF c
<1>4. plan' \in Scenario
  BY ZenonT(60), <1>1, <1>2, <1>3 DEF Scenario
<1> QED BY <1>1, <1>4

LEMMA CopyStep ==
    ASSUME FenceInv, NEW t \in Threads, scif_rma_copy(t)
    PROVE  FenceInv'
<1>1. TypeOK /\ EndOf[t] \in Ends /\ Copy \in Entries /\ plan.calls[t] # <<>>
  BY FenceAssumption DEF FenceInv, Copy, Entries, scif_rma_copy, Called
<1>2. plan' \in Scenario
  BY ZenonT(60), <1>1, PlanType DEF scif_rma_copy, Called
<1>3. /\ chan' \in [Ends -> Seq(Entries)]
      /\ \A x \in Ends : Len(chan[x]) <= Len(chan'[x]) /\ called[x] <= done[x] /\ done[x] <= Len(chan'[x])
  BY ZenonT(60), <1>1, SubmitFacts DEF scif_rma_copy
<1>4. TypeOK'
  BY ZenonT(60), <1>1, <1>2, <1>3 DEF TypeOK, scif_rma_copy
<1>5. Grows => WiresOK'
  BY <1>1, <1>4, WiresSame DEF FenceInv, scif_rma_copy
<1> QED BY ZenonT(60), <1>3, <1>4, <1>5, HeldSame, MessageStep DEF scif_rma_copy

\* A request of thread t agrees with the call that sends it.
LEMMA RequestSent ==
    ASSUME TypeOK, TypeOK', Grows, WiresOK, NEW t \in Threads, NEW uop \in Requests,
           NEW n \in Nat, NEW k \in Nat, scif_nodeqp_send(EndOf[t], Request(t, uop, n, k)),
           n = call'[t].n,
           uop = "MARK" => call'[t].op = "mark" /\ call'[t].covers <= Len(chan'[Peer(EndOf[t])]),
           uop = "WAIT" => call'[t].op = "wait" /\ k = call'[t].cookie,
           uop \in {"SIG_LOCAL", "SIG_REMOTE"} => call'[t].op = "signal"
    PROVE  WiresOK'
<1>1. EndOf[t] \in Ends /\ Peer(EndOf[t]) \in Ends /\ Peer(Peer(EndOf[t])) = EndOf[t]
  BY FenceAssumption, PeerEnd
<1>2. PICK r \in Messages : /\ r = Request(t, uop, n, k)
                            /\ r.uop = uop /\ r.thread = t /\ r.n = n /\ r.mark = k
  <2>1. Request(t, uop, n, k) \in Messages
    BY DEF Request, Messages
  <2> QED BY ZenonT(60), <2>1 DEF Request
<1>3. Agrees(Peer(EndOf[t]), r, call[t])'
  BY <1>2 DEF Agrees, MarkUops, WaitUops, SigUops, Requests, Peer
<1>4. Good(Peer(EndOf[t]), r)'
  BY <1>1, <1>2, <1>3 DEF Good, Requests, Peer
<1> QED BY <1>1, <1>2, <1>4, WiresSend

\* _scif_send_fence() keeps the types.
LEMMA SendFenceFacts ==
    ASSUME TypeOK, NEW t \in Threads, NEW uop \in Requests, NEW k \in Nat,
           _scif_send_fence(t, uop, k)
    PROVE  /\ wire' \in [Ends -> Seq(Messages)]
           /\ req' \in [Threads -> FenceReqs]
           /\ req'[t].state = "OP_IN_PROGRESS"
           /\ \A u \in Threads \ {t} : req'[u] = req[u]
<1>1. EndOf[t] \in Ends /\ call[t].n + 1 \in Nat /\ req \in [Threads -> FenceReqs]
  BY FenceAssumption DEF TypeOK, Calls
<1>2. Request(t, uop, call[t].n + 1, k) \in Messages
  BY ZenonT(60), <1>1 DEF Request, Messages
<1>3. wire' \in [Ends -> Seq(Messages)]
  BY ZenonT(60), <1>1, <1>2, SendType DEF _scif_send_fence
<1>4. InProgress \in FenceReqs /\ InProgress.state = "OP_IN_PROGRESS"
  BY DEF InProgress, FenceReqs
<1> QED BY <1>1, <1>2, <1>3, <1>4 DEF _scif_send_fence

LEMMA MarkPeerStep ==
    ASSUME FenceInv, NEW t \in Threads, scif_fence_mark_peer(t)
    PROVE  FenceInv'
<1> DEFINE p == Peer(EndOf[t])
           c == [NoCall EXCEPT !.pc = "sent", !.op = "mark", !.peer = TRUE, !.covers = Len(chan[p])]
<1>1. /\ TypeOK /\ EndOf[t] \in Ends /\ p \in Ends /\ plan.calls[t] # <<>>
      /\ _scif_send_fence(t, "MARK", 0) /\ "MARK" \in Requests
  BY FenceAssumption, PeerEnd DEF FenceInv, scif_fence_mark_peer, Called,
     Requests
<1>2. Len(chan[p]) \in Nat /\ \A x \in Ends : Len(chan[x]) <= Len(chan'[x])
  <2>1. chan[p] \in Seq(Entries)
    BY ZenonT(60), <1>1 DEF TypeOK
  <2>2. chan' = chan
    BY ZenonT(60), <1>1 DEF _scif_send_fence
  <2> QED BY <1>1, <2>1, <2>2, LenSame
<1>3. /\ c \in Calls /\ c.pc = "sent" /\ c.op = "mark" /\ c.peer /\ c.covers = Len(chan[p])
  BY ZenonT(60), <1>2 DEF NoCall, Calls
<1>4. Begin(t, c)
  BY DEF scif_fence_mark_peer
<1> HIDE DEF c
<1>5. /\ call' \in [Threads -> Calls] /\ call[t].n < call'[t].n /\ call'[t].n = call[t].n + 1
      /\ call'[t].pc = "sent" /\ call'[t].op = "mark" /\ call'[t].peer
      /\ call'[t].covers = Len(chan[p]) /\ \A u \in Threads \ {t} : call'[u] = call[u]
  BY ZenonT(60), <1>1, <1>3, <1>4, BeginFacts
<1>6. /\ wire' \in [Ends -> Seq(Messages)]
      /\ req' \in [Threads -> FenceReqs] /\ req'[t].state = "OP_IN_PROGRESS"
      /\ \A u \in Threads \ {t} : req'[u] = req[u]
  BY ZenonT(60), <1>1, SendFenceFacts
<1>7. plan' \in Scenario
  BY ZenonT(60), <1>1, PlanType DEF scif_fence_mark_peer, Called
<1>8. TypeOK'
  BY ZenonT(60), <1>1, <1>5, <1>6, <1>7 DEF TypeOK, _scif_send_fence
<1>9. CallOK(t)'
  BY <1>5, <1>6 DEF CallOK, Target
<1>10. Grows => WiresOK'
  <2>1. call[t].n + 1 \in Nat /\ 0 \in Nat /\ call'[t].covers <= Len(chan'[p])
    BY ZenonT(60), <1>1, <1>2, <1>5 DEF TypeOK, Calls
  <2>2. scif_nodeqp_send(EndOf[t], Request(t, "MARK", call[t].n + 1, 0))
    BY ZenonT(60), <1>1 DEF _scif_send_fence
  <2> QED BY <1>1, <1>5, <1>8, <2>1, <2>2, RequestSent DEF FenceInv
<1>11. MarksOK'
  BY ZenonT(60), <1>1 DEF FenceInv, MarksOK, _scif_send_fence
<1> QED BY ZenonT(60), <1>1, <1>2, <1>5, <1>6, <1>8, <1>9, <1>10, <1>11,
           ThreadStep DEF _scif_send_fence

LEMMA MarkSelfStep ==
    ASSUME FenceInv, NEW t \in Threads, scif_fence_mark_self(t)
    PROVE  FenceInv'
<1> DEFINE e == EndOf[t]
           c == [NoCall EXCEPT !.pc = "submitted", !.op = "mark",
                               !.cookie = Len(chan[e]) + 1, !.covers = Len(chan[e])]
           b == [NoCall EXCEPT !.op = "mark", !.res = "err"]
<1>1. /\ TypeOK /\ e \in Ends /\ plan.calls[t] # <<>> /\ Mark \in Entries
      /\ UNCHANGED <<ep, alive, done, called, wire, handler, fence, work, req, marks>>
  BY FenceAssumption DEF FenceInv, scif_fence_mark_self, Called, Mark, Entries
<1>2. Len(chan[e]) \in Nat
  <2>1. chan[e] \in Seq(Entries)
    BY ZenonT(60), <1>1 DEF TypeOK
  <2> QED BY <2>1
<1>3. /\ c \in Calls /\ c.pc = "submitted" /\ c.op = "mark"
      /\ c.cookie = Len(chan[e]) + 1 /\ c.covers = Len(chan[e])
      /\ b \in Calls /\ b.pc = "idle" /\ b.op = "mark"
  <2>1. /\ c \in Calls /\ c.pc = "submitted" /\ c.op = "mark"
        /\ c.cookie = Len(chan[e]) + 1 /\ c.covers = Len(chan[e])
    <3>1. PICK n \in Nat, k \in Nat : n = Len(chan[e]) /\ k = Len(chan[e]) + 1
      BY <1>2
    <3>2. c = [NoCall EXCEPT !.pc = "submitted", !.op = "mark", !.cookie = k, !.covers = n]
      BY <3>1
    <3> HIDE DEF c, e
    <3> QED BY ZenonT(60), <3>1, <3>2 DEF NoCall, Calls
  <2>2. b \in Calls /\ b.pc = "idle" /\ b.op = "mark"
    BY ZenonT(60) DEF NoCall, Calls
  <2> QED BY <2>1, <2>2
<1>4. PICK d \in Calls : /\ Begin(t, d) /\ d.op = "mark"
                         /\ d.pc = "idle" \/ (d.pc = "submitted" /\ d.covers <= d.cookie)
                         /\ scif_dma_submit(e, Mark) \/ UNCHANGED chan
  <2> HIDE DEF c, b
  <2>1. (scif_dma_submit(e, Mark) /\ Begin(t, c)) \/ (Begin(t, b) /\ UNCHANGED chan)
    BY DEF scif_fence_mark_self, c, b
  <2>2. c.covers <= c.cookie
    BY <1>2, <1>3
  <2> QED BY <1>3, <2>1, <2>2
<1> HIDE DEF c, b
<1>5. /\ call' \in [Threads -> Calls] /\ call[t].n < call'[t].n
      /\ call'[t].pc = d.pc /\ call'[t].op = "mark"
      /\ call'[t].cookie = d.cookie /\ call'[t].covers = d.covers
      /\ \A u \in Threads \ {t} : call'[u] = call[u]
  BY ZenonT(60), <1>1, <1>4, BeginFacts
<1>6. /\ chan' \in [Ends -> Seq(Entries)]
      /\ \A x \in Ends : Len(chan[x]) <= Len(chan'[x]) /\ called[x] <= done[x] /\ done[x] <= Len(chan'[x])
  <2>1. CASE scif_dma_submit(e, Mark)
    BY ZenonT(60), <1>1, <2>1, SubmitFacts
  <2>2. CASE UNCHANGED chan
    BY ZenonT(60), <1>1, <2>2, LenSame DEF TypeOK
  <2> QED BY ZenonT(60), <1>4, <2>1, <2>2
<1>7. plan' \in Scenario
  BY ZenonT(60), <1>1, PlanType DEF scif_fence_mark_self, Called
<1>8. TypeOK'
  BY ZenonT(60), <1>1, <1>5, <1>6, <1>7 DEF TypeOK
<1>9. CallOK(t)'
  BY ZenonT(60), <1>4, <1>5 DEF CallOK, Target
<1>10. (Grows => WiresOK') /\ MarksOK'
  BY <1>1, <1>8, WiresSame DEF FenceInv, MarksOK
<1> QED BY ZenonT(60), <1>1, <1>5, <1>6, <1>8, <1>9, <1>10, ThreadStep

LEMMA MarkRefStep ==
    ASSUME FenceInv, NEW t \in Threads, scif_fence_mark_ref(t)
    PROVE  FenceInv'
<1> DEFINE e == EndOf[t]
           k == [peer |-> FALSE, cookie |-> call[t].cookie, covers |-> call[t].covers]
<1>1. /\ TypeOK /\ e \in Ends /\ call[t].pc = "submitted" /\ 1 \in Int /\ call[t] \in Calls
      /\ marks \in [Ends -> SUBSET Marks] /\ call[t].covers <= call[t].cookie
      /\ UNCHANGED <<plan, alive, chan, done, called, wire, handler, fence, work, req>>
  <2>1. TypeOK /\ CallOK(t) /\ e \in Ends /\ 1 \in Int
    BY FenceAssumption DEF FenceInv, CallsOK
  <2>2. /\ call[t].pc = "submitted"
        /\ UNCHANGED <<plan, alive, chan, done, called, wire, handler, fence, work, req>>
    BY ZenonT(60) DEF scif_fence_mark_ref
  <2> QED BY ZenonT(60), <2>1, <2>2 DEF CallOK, TypeOK
<1>2. k \in Marks /\ k.covers <= k.cookie
  BY ZenonT(60), <1>1 DEF Marks, Calls
<1>3. marks' = [marks EXCEPT ![e] = @ \cup {k}]
  BY DEF scif_fence_mark_ref
<1> HIDE DEF k
<1>4. marks' \in [Ends -> SUBSET Marks] /\ MarksOK'
  BY <1>1, <1>2, <1>3 DEF FenceInv, MarksOK
<1>5. /\ call' \in [Threads -> Calls] /\ call'[t].pc = "idle"
      /\ call'[t].n = call[t].n /\ call'[t].op = call[t].op /\ call'[t].peer = call[t].peer
      /\ call'[t].cookie = call[t].cookie /\ call'[t].covers = call[t].covers
      /\ \A u \in Threads \ {t} : call'[u] = call[u]
  BY ZenonT(60), <1>1, ReturnFacts DEF scif_fence_mark_ref
<1>6. ep' \in [Ends -> Endpoints]
  BY ZenonT(60), <1>1, RefsType DEF scif_fence_mark_ref
<1>7. TypeOK'
  BY <1>1, <1>4, <1>5, <1>6 DEF TypeOK
<1>8. call[t].op # "wait"
  BY ZenonT(60), <1>1 DEF FenceInv, CallsOK, CallOK
<1>9. CallOK(t)'
  BY ZenonT(60), <1>5, <1>8 DEF CallOK, Target
<1>10. (Grows => WiresOK') /\ \A x \in Ends : Len(chan[x]) <= Len(chan'[x])
  BY ZenonT(60), <1>1, <1>7, WiresSame, LenSame DEF FenceInv
<1> QED BY ZenonT(60), <1>1, <1>4, <1>5, <1>7, <1>9, <1>10, ThreadStep

LEMMA WaitStep ==
    ASSUME FenceInv, NEW t \in Threads, NEW m \in marks[EndOf[t]], scif_fence_wait(t, m)
    PROVE  FenceInv'
<1> DEFINE st == IF m.peer THEN "sent" ELSE "waiting"
           c == [NoCall EXCEPT !.pc = st, !.op = "wait",
                               !.peer = m.peer, !.cookie = m.cookie, !.covers = m.covers]
<1>1. /\ TypeOK /\ EndOf[t] \in Ends /\ plan.calls[t] # <<>> /\ "WAIT" \in Requests
      /\ m \in Marks /\ m.covers <= m.cookie
  BY FenceAssumption DEF FenceInv, TypeOK, MarksOK, scif_fence_wait, Called,
     Requests
<1>2. /\ c \in Calls /\ c.pc = st /\ c.op = "wait" /\ c.peer = m.peer
      /\ c.cookie = m.cookie /\ c.covers = m.covers
  <2>1. /\ st \in {"idle", "submitted", "waiting", "signalling", "sent"}
        /\ m.peer \in BOOLEAN /\ m.cookie \in Nat /\ m.covers \in Nat
    BY <1>1 DEF Marks
  <2> HIDE DEF st
  <2> QED BY ZenonT(60), <2>1 DEF NoCall, Calls
<1>3. Begin(t, c)
  BY DEF scif_fence_wait
<1> HIDE DEF c
<1>4. /\ call' \in [Threads -> Calls] /\ call[t].n < call'[t].n /\ call'[t].n = call[t].n + 1
      /\ call'[t].pc = st /\ call'[t].op = "wait" /\ call'[t].peer = m.peer
      /\ call'[t].cookie = m.cookie /\ call'[t].covers = m.covers
      /\ \A u \in Threads \ {t} : call'[u] = call[u]
  BY <1>1, <1>2, <1>3, BeginFacts
<1>5. plan' \in Scenario
  BY ZenonT(60), <1>1, PlanType DEF scif_fence_wait, Called
<1>6. CASE m.peer
  <2>1. _scif_send_fence(t, "WAIT", m.cookie) /\ m.cookie \in Nat
    BY <1>1, <1>6 DEF scif_fence_wait, Marks
  <2>2. /\ wire' \in [Ends -> Seq(Messages)]
        /\ req' \in [Threads -> FenceReqs] /\ req'[t].state = "OP_IN_PROGRESS"
        /\ \A u \in Threads \ {t} : req'[u] = req[u]
    BY ZenonT(60), <1>1, <2>1, SendFenceFacts
  <2>3. TypeOK'
    BY ZenonT(60), <1>1, <1>4, <1>5, <2>1, <2>2 DEF TypeOK, _scif_send_fence
  <2>4. CallOK(t)'
    BY ZenonT(60), <1>1, <1>4, <1>6, <2>2 DEF CallOK, Target
  <2>5. Grows => WiresOK'
    <3>1. PICK k \in Nat : k = m.cookie
      BY <2>1
    <3>2. scif_nodeqp_send(EndOf[t], Request(t, "WAIT", call[t].n + 1, k)) /\ call[t].n + 1 \in Nat
      <4>1. call[t].n \in Nat
        BY ZenonT(60), <1>1 DEF TypeOK, Calls
      <4>2. call[t].n + 1 \in Nat
        BY <4>1
      <4> QED BY ZenonT(60), <1>1, <2>1, <3>1, <4>2 DEF _scif_send_fence
    <3> QED BY ZenonT(60), <1>1, <1>4, <2>3, <3>1, <3>2, RequestSent
               DEF FenceInv
  <2>6. MarksOK' /\ \A x \in Ends : Len(chan[x]) <= Len(chan'[x])
    BY ZenonT(60), <1>1, <2>1, LenSame DEF FenceInv, MarksOK, _scif_send_fence
  <2> QED BY ZenonT(60), <1>4, <2>1, <2>2, <2>3, <2>4, <2>5, <2>6,
             ThreadStep DEF _scif_send_fence
<1>7. CASE ~m.peer
  <2>1. UNCHANGED <<ep, alive, chan, done, called, wire, handler, fence, work, req, marks>>
    BY <1>7 DEF scif_fence_wait
  <2>2. TypeOK'
    BY ZenonT(60), <1>1, <1>4, <1>5, <2>1 DEF TypeOK
  <2>3. CallOK(t)'
    BY ZenonT(60), <1>1, <1>4, <1>7 DEF CallOK, Target
  <2>4. (Grows => WiresOK') /\ MarksOK' /\ \A x \in Ends : Len(chan[x]) <= Len(chan'[x])
    BY ZenonT(60), <1>1, <2>1, <2>2, WiresSame, LenSame DEF FenceInv, MarksOK
  <2> QED BY ZenonT(60), <1>4, <2>1, <2>2, <2>3, <2>4, ThreadStep
<1> QED BY ZenonT(60), <1>6, <1>7

LEMMA WaitedStep ==
    ASSUME FenceInv, NEW t \in Threads, _scif_fence_wait(t)
    PROVE  FenceInv'
<1>1. /\ TypeOK /\ EndOf[t] \in Ends /\ call[t] \in Calls /\ done \in [Ends -> Nat]
      /\ call[t].pc = "waiting" /\ call[t].op = "wait" /\ ~call[t].peer
      /\ call[t].covers <= call[t].cookie
      /\ UNCHANGED <<plan, ep, alive, chan, done, called, wire, handler, fence, work, req, marks>>
  BY ZenonT(60), FenceAssumption
     DEF FenceInv, CallsOK, CallOK, TypeOK, _scif_fence_wait
<1>2. PICK res \in {"ok", "err"} : Return(t, res) /\ (res = "ok" => call[t].cookie <= done[EndOf[t]])
  BY <1>1 DEF _scif_fence_wait, WaitResults, Complete, Calls
<1>3. /\ call' \in [Threads -> Calls] /\ call'[t].pc = "idle" /\ call'[t].res = res
      /\ call'[t].n = call[t].n /\ call'[t].op = call[t].op /\ call'[t].peer = call[t].peer
      /\ call'[t].cookie = call[t].cookie /\ call'[t].covers = call[t].covers
      /\ \A u \in Threads \ {t} : call'[u] = call[u]
  BY ZenonT(60), <1>1, <1>2, ReturnFacts
<1>4. TypeOK'
  BY <1>1, <1>3 DEF TypeOK
<1>5. CallOK(t)'
  BY ZenonT(60), <1>1, <1>2, <1>3 DEF CallOK, Target
<1>6. (Grows => WiresOK') /\ MarksOK' /\ \A x \in Ends : Len(chan[x]) <= Len(chan'[x])
  BY ZenonT(60), <1>1, <1>4, WiresSame, LenSame DEF FenceInv, MarksOK
<1> QED BY ZenonT(60), <1>1, <1>3, <1>4, <1>5, <1>6, ThreadStep

LEMMA SignalStep ==
    ASSUME FenceInv, NEW t \in Threads, scif_fence_signal(t)
    PROVE  FenceInv'
<1> DEFINE peer == Arg(t).peer
           flags == Arg(t).flags
           uop == SigUop(NextSignal(flags))
           st == IF peer THEN "sent" ELSE "signalling"
           lf == IF peer THEN flags \ {NextSignal(flags)} ELSE flags
           cv == Len(chan[IF peer THEN Peer(EndOf[t]) ELSE EndOf[t]])
           c == [NoCall EXCEPT !.pc = st, !.op = "signal", !.peer = peer, !.flags = flags,
                               !.left = lf, !.covers = cv]
<1>1. /\ TypeOK /\ EndOf[t] \in Ends /\ Peer(EndOf[t]) \in Ends /\ plan.calls[t] # <<>>
      /\ plan' = [plan EXCEPT !.calls[t] = Tail(@)]
  BY FenceAssumption, PeerEnd DEF FenceInv, scif_fence_signal, Called
<1>2. plan' \in Scenario /\ Arg(t) \in Ops /\ Arg(t).op = "signal"
  BY ZenonT(60), <1>1, PlanType DEF scif_fence_signal, Called, Arg
<1>3. peer \in BOOLEAN /\ flags \in SUBSET Flags /\ cv \in Nat
  <2>1. Arg(t) \in [op : {"signal"}, peer : BOOLEAN, flags : SUBSET Flags \ {{}}]
    BY <1>2 DEF Ops
  <2>2. \A x \in Ends : Len(chan[x]) \in Nat
    BY <1>1 DEF TypeOK
  <2> QED BY <1>1, <2>1, <2>2
<1>4. /\ lf \in SUBSET Flags /\ st \in {"idle", "submitted", "waiting", "signalling", "sent"}
      /\ uop \in {"SIG_LOCAL", "SIG_REMOTE"} /\ uop \in Requests /\ 0 \in Nat
  BY <1>3 DEF SigUop, Requests
<1>5. c \in Calls /\ c.pc = st /\ c.op = "signal" /\ c.peer = peer
  <2> HIDE DEF st, lf, cv, peer, flags
  <2> QED BY ZenonT(60), <1>3, <1>4 DEF NoCall, Calls
<1>6. Begin(t, c)
  BY DEF scif_fence_signal
<1> HIDE DEF c
<1>7. /\ call' \in [Threads -> Calls] /\ call[t].n < call'[t].n /\ call'[t].n = call[t].n + 1
      /\ call'[t].pc = st /\ call'[t].op = "signal" /\ call'[t].peer = peer
      /\ \A u \in Threads \ {t} : call'[u] = call[u]
  BY <1>1, <1>5, <1>6, BeginFacts
<1>8. CASE peer
  <2>1. _scif_send_fence(t, uop, 0)
    BY <1>8 DEF scif_fence_signal
  <2> HIDE DEF uop
  <2>2. /\ wire' \in [Ends -> Seq(Messages)]
        /\ req' \in [Threads -> FenceReqs] /\ req'[t].state = "OP_IN_PROGRESS"
        /\ \A u \in Threads \ {t} : req'[u] = req[u]
    BY <1>1, <1>4, <2>1, SendFenceFacts
  <2>3. TypeOK'
    BY ZenonT(60), <1>1, <1>2, <1>7, <2>1, <2>2 DEF TypeOK, _scif_send_fence
  <2>4. CallOK(t)'
    BY ZenonT(60), <1>7, <1>8, <2>2 DEF CallOK, Target
  <2>5. Grows => WiresOK'
    <3>1. PICK v \in Requests : v = uop
      BY <1>4
    <3>2. scif_nodeqp_send(EndOf[t], Request(t, v, call[t].n + 1, 0)) /\ call[t].n + 1 \in Nat
      <4>1. call[t].n \in Nat
        BY ZenonT(60), <1>1 DEF TypeOK, Calls
      <4>2. call[t].n + 1 \in Nat
        BY <4>1
      <4> QED BY ZenonT(60), <1>1, <2>1, <3>1, <4>2 DEF _scif_send_fence
    <3> QED BY <1>1, <1>4, <1>7, <2>3, <3>1, <3>2, RequestSent DEF FenceInv
  <2>6. MarksOK' /\ \A x \in Ends : Len(chan[x]) <= Len(chan'[x])
    BY <1>1, <2>1, LenSame DEF FenceInv, MarksOK, _scif_send_fence
  <2> QED BY ZenonT(60), <1>7, <2>1, <2>2, <2>3, <2>4, <2>5, <2>6,
             ThreadStep DEF _scif_send_fence
<1>9. CASE ~peer
  <2>1. UNCHANGED <<ep, alive, chan, done, called, wire, handler, fence, work, req, marks>>
    BY <1>9 DEF scif_fence_signal
  <2>2. TypeOK'
    BY <1>1, <1>2, <1>7, <2>1 DEF TypeOK
  <2>3. CallOK(t)'
    BY ZenonT(60), <1>7, <1>9 DEF CallOK, Target
  <2>4. (Grows => WiresOK') /\ MarksOK' /\ \A x \in Ends : Len(chan[x]) <= Len(chan'[x])
    BY <1>1, <2>1, <2>2, WiresSame, LenSame DEF FenceInv, MarksOK
  <2> QED BY ZenonT(60), <1>7, <2>1, <2>2, <2>3, <2>4, ThreadStep
<1> QED BY <1>3, <1>8, <1>9

\* The signals left to do change, and nothing else of a call.
LEMMA LeftFacts ==
    ASSUME TypeOK, NEW t \in Threads, NEW lf \in SUBSET Flags,
           call' = [call EXCEPT ![t].left = lf]
    PROVE  /\ call' \in [Threads -> Calls]
           /\ call'[t].n = call[t].n /\ call'[t].op = call[t].op /\ call'[t].peer = call[t].peer
           /\ call'[t].cookie = call[t].cookie /\ call'[t].covers = call[t].covers
           /\ call'[t].pc = call[t].pc
           /\ \A u \in Threads \ {t} : call'[u] = call[u]
<1> DEFINE c == [call[t] EXCEPT !.left = lf]
<1>1. call \in [Threads -> Calls] /\ call[t] \in Calls
  BY DEF TypeOK
<1>2. c \in Calls /\ c.n = call[t].n /\ c.op = call[t].op /\ c.peer = call[t].peer
      /\ c.cookie = call[t].cookie /\ c.covers = call[t].covers /\ c.pc = call[t].pc
  BY <1>1 DEF Calls
<1>3. call' = [call EXCEPT ![t] = c]
  OBVIOUS
<1> HIDE DEF c
<1>4. call' \in [Threads -> Calls] /\ call'[t] = c /\ \A u \in Threads \ {t} : call'[u] = call[u]
  BY <1>1, <1>2, <1>3
<1> QED BY <1>2, <1>4

LEMMA ProgSignalStep ==
    ASSUME FenceInv, NEW t \in Threads, scif_prog_signal(t)
    PROVE  FenceInv'
<1> DEFINE f == NextSignal(call[t].left)
           tx == Signal(t, call[t].n, f)
<1>1. /\ TypeOK /\ EndOf[t] \in Ends /\ call[t] \in Calls
      /\ call[t].pc = "signalling" /\ call[t].op = "signal"
      /\ UNCHANGED <<plan, ep, alive, done, called, wire, handler, fence, work, req, marks>>
  BY FenceAssumption DEF FenceInv, CallsOK, CallOK, TypeOK, scif_prog_signal
<1>2. tx \in Entries /\ call[t].left \ {f} \in SUBSET Flags
  <2>1. call[t].n \in Nat /\ call[t].left \in SUBSET Flags /\ f \in Flags
    BY <1>1 DEF Calls, NextSignal, Flags
  <2> HIDE DEF f
  <2> QED BY <2>1 DEF Signal, Entries
<1>3. /\ call' \in [Threads -> Calls] /\ call'[t].pc \in {"idle", "signalling"}
      /\ call'[t].n = call[t].n /\ call'[t].op = call[t].op
      /\ call'[t].cookie = call[t].cookie /\ call'[t].covers = call[t].covers
      /\ \A u \in Threads \ {t} : call'[u] = call[u]
  <2>1. \/ Return(t, "ok") \/ Return(t, "err") \/ call' = [call EXCEPT ![t].left = call[t].left \ {f}]
    BY DEF scif_prog_signal
  <2> HIDE DEF f
  <2> QED BY ZenonT(60), <1>1, <1>2, <2>1, ReturnFacts, LeftFacts
<1>4. scif_dma_submit(EndOf[t], tx) \/ UNCHANGED chan
  BY DEF scif_prog_signal
<1> HIDE DEF tx
<1>5. /\ chan' \in [Ends -> Seq(Entries)]
      /\ \A x \in Ends : Len(chan[x]) <= Len(chan'[x]) /\ called[x] <= done[x] /\ done[x] <= Len(chan'[x])
  <2>1. CASE scif_dma_submit(EndOf[t], tx)
    BY <1>1, <1>2, <2>1, SubmitFacts
  <2>2. CASE UNCHANGED chan
    BY <1>1, <2>2, LenSame DEF TypeOK
  <2> QED BY <1>4, <2>1, <2>2
<1>6. TypeOK'
  BY <1>1, <1>3, <1>5 DEF TypeOK
<1>7. CallOK(t)'
  BY ZenonT(60), <1>1, <1>3 DEF CallOK, Target
<1>8. (Grows => WiresOK') /\ MarksOK'
  BY <1>1, <1>6, WiresSame DEF FenceInv, MarksOK
<1> QED BY <1>1, <1>3, <1>5, <1>6, <1>7, <1>8, ThreadStep

\* The request of thread t is freed or made anew.
LEMMA ReqType ==
    ASSUME TypeOK, NEW t \in Threads, NEW r \in {Free, InProgress}, req' = [req EXCEPT ![t] = r]
    PROVE  /\ req' \in [Threads -> FenceReqs] /\ req'[t] = r
           /\ \A u \in Threads \ {t} : req'[u] = req[u]
<1>1. req \in [Threads -> FenceReqs] /\ r \in FenceReqs
  BY DEF TypeOK, Free, InProgress, FenceReqs
<1> QED BY <1>1

LEMMA AnsweredStep ==
    ASSUME FenceInv, NEW t \in Threads, fence_answered(t)
    PROVE  FenceInv'
<1> DEFINE e == EndOf[t]
           k == [peer |-> TRUE, cookie |-> req[t].dma_mark, covers |-> call[t].covers]
           ok == req[t].state = "OP_COMPLETED"
<1>1. /\ TypeOK /\ e \in Ends /\ call[t] \in Calls /\ req[t] \in FenceReqs
      /\ call[t].pc = "sent" /\ call[t].peer /\ call[t].op # "signal"
      /\ call[t].op = "wait" => call[t].covers <= call[t].cookie
      /\ ok /\ call[t].op = "wait" => call[t].cookie <= done[Peer(e)]
      /\ ok /\ call[t].op = "mark" => call[t].covers <= req[t].dma_mark
      /\ marks \in [Ends -> SUBSET Marks]
      /\ UNCHANGED <<plan, ep, alive, chan, done, called, wire, handler, fence, work>>
  BY ZenonT(60), FenceAssumption DEF FenceInv, CallsOK, CallOK, TypeOK,
     fence_answered, Answered
<1>2. k \in Marks /\ k.covers = call[t].covers /\ k.cookie = req[t].dma_mark
  BY ZenonT(60), <1>1 DEF Marks, Calls, FenceReqs
<1>3. (call[t].op = "mark" /\ ok /\ marks' = [marks EXCEPT ![e] = @ \cup {k}]) \/ UNCHANGED marks
  BY ZenonT(60) DEF fence_answered
<1> HIDE DEF k
<1>4. marks' \in [Ends -> SUBSET Marks] /\ MarksOK'
  <2>1. k.covers <= k.cookie \/ UNCHANGED marks
    BY ZenonT(60), <1>1, <1>2, <1>3
  <2>2. CASE UNCHANGED marks
    BY ZenonT(60), <1>1, <2>2 DEF FenceInv, MarksOK
  <2>3. CASE k.covers <= k.cookie /\ marks' = [marks EXCEPT ![e] = @ \cup {k}]
    BY <1>1, <1>2, <2>3 DEF FenceInv, MarksOK
  <2> QED BY ZenonT(60), <1>3, <2>1, <2>2, <2>3
<1>5. PICK res \in {"ok", "err"} : Return(t, res) /\ (res = "ok" => ok)
  BY ZenonT(60) DEF fence_answered
<1>6. /\ call' \in [Threads -> Calls] /\ call'[t].pc = "idle" /\ call'[t].res = res
      /\ call'[t].n = call[t].n /\ call'[t].op = call[t].op /\ call'[t].peer = call[t].peer
      /\ call'[t].cookie = call[t].cookie /\ call'[t].covers = call[t].covers
      /\ \A u \in Threads \ {t} : call'[u] = call[u]
  BY ZenonT(60), <1>1, <1>5, ReturnFacts
<1>7. req' \in [Threads -> FenceReqs] /\ \A u \in Threads \ {t} : req'[u] = req[u]
  BY ZenonT(60), <1>1, ReqType DEF fence_answered
<1>8. TypeOK'
  BY <1>1, <1>4, <1>6, <1>7 DEF TypeOK
<1>9. CallOK(t)'
  BY ZenonT(60), <1>1, <1>5, <1>6 DEF CallOK, Target, Peer
<1>10. (Grows => WiresOK') /\ \A x \in Ends : Len(chan[x]) <= Len(chan'[x])
  BY ZenonT(60), <1>1, <1>8, WiresSame, LenSame DEF FenceInv
<1> QED BY ZenonT(60), <1>1, <1>4, <1>6, <1>7, <1>8, <1>9, <1>10, ThreadStep

\* A call of a signal, or one that fails, ends.
LEMMA EndStep ==
    ASSUME FenceInv, NEW t \in Threads, NEW res \in {"ok", "err"}, Return(t, res),
           res = "err" \/ call[t].op = "signal", req' = [req EXCEPT ![t] = Free],
           UNCHANGED <<plan, ep, alive, chan, done, called, wire, handler, fence, work, marks>>
    PROVE  FenceInv'
<1>1. TypeOK /\ CallOK(t)
  BY ZenonT(60) DEF FenceInv, CallsOK
<1>2. /\ call' \in [Threads -> Calls] /\ call'[t].pc = "idle" /\ call'[t].res = res
      /\ call'[t].n = call[t].n /\ call'[t].op = call[t].op /\ call'[t].peer = call[t].peer
      /\ call'[t].cookie = call[t].cookie /\ call'[t].covers = call[t].covers
      /\ \A u \in Threads \ {t} : call'[u] = call[u]
  BY ZenonT(60), <1>1, ReturnFacts
<1>3. req' \in [Threads -> FenceReqs] /\ \A u \in Threads \ {t} : req'[u] = req[u]
  BY ZenonT(60), <1>1, ReqType
<1>4. TypeOK'
  BY <1>1, <1>2, <1>3 DEF TypeOK
<1>5. CallOK(t)'
  BY ZenonT(60), <1>1, <1>2 DEF CallOK, Target
<1>6. (Grows => WiresOK') /\ MarksOK' /\ \A x \in Ends : Len(chan[x]) <= Len(chan'[x])
  BY ZenonT(60), <1>1, <1>4, WiresSame, LenSame DEF FenceInv, MarksOK
<1> QED BY ZenonT(60), <1>2, <1>3, <1>4, <1>5, <1>6, ThreadStep

LEMMA SignalAnsweredStep ==
    ASSUME FenceInv, NEW t \in Threads, signal_answered(t)
    PROVE  FenceInv'
<1> DEFINE f == NextSignal(call[t].left)
<1>1. /\ TypeOK /\ EndOf[t] \in Ends /\ call[t] \in Calls
      /\ call[t].pc = "sent" /\ call[t].peer /\ call[t].op = "signal"
      /\ UNCHANGED <<plan, ep, alive, chan, done, called, handler, fence, work, marks>>
  BY FenceAssumption DEF FenceInv, CallsOK, CallOK, TypeOK, signal_answered,
     Answered
<1>2. CASE /\ call' = [call EXCEPT ![t].left = @ \ {NextSignal(@)}]
           /\ req' = [req EXCEPT ![t] = InProgress]
           /\ scif_nodeqp_send(EndOf[t], Request(t, SigUop(f), call[t].n, 0))
  <2>1. call[t].left \ {f} \in SUBSET Flags /\ call[t].n \in Nat /\ 0 \in Nat
    BY ZenonT(60), <1>1 DEF Calls
  <2>2. call' = [call EXCEPT ![t].left = call[t].left \ {f}]
    BY <1>2
  <2>3. PICK v \in Requests : v = SigUop(f) /\ v \in {"SIG_LOCAL", "SIG_REMOTE"}
    BY DEF SigUop, Requests
  <2> HIDE DEF f
  <2>4. /\ call' \in [Threads -> Calls] /\ call'[t].pc = "sent" /\ call'[t].peer
        /\ call'[t].n = call[t].n /\ call'[t].op = "signal"
        /\ call'[t].cookie = call[t].cookie /\ call'[t].covers = call[t].covers
        /\ \A u \in Threads \ {t} : call'[u] = call[u]
    BY ZenonT(60), <1>1, <2>1, <2>2, LeftFacts
  <2>5. req' \in [Threads -> FenceReqs] /\ \A u \in Threads \ {t} : req'[u] = req[u]
    BY ZenonT(60), <1>1, <1>2, ReqType
  <2>6. PICK n \in Nat : n = call[t].n
    BY <2>1
  <2>7. scif_nodeqp_send(EndOf[t], Request(t, v, n, 0))
    BY <1>2, <2>3, <2>6
  <2>8. wire' \in [Ends -> Seq(Messages)]
    <3>1. Request(t, v, n, 0) \in Messages
      BY DEF Request, Messages
    <3> QED BY <1>1, <2>7, <3>1, SendType
  <2>9. TypeOK'
    BY <1>1, <2>4, <2>5, <2>8 DEF TypeOK
  <2>10. CallOK(t)'
    BY <2>4 DEF CallOK, Target
  <2>11. Grows => WiresOK'
    BY ZenonT(60), <1>1, <2>1, <2>3, <2>4, <2>6, <2>7, <2>9, RequestSent
       DEF FenceInv
  <2>12. MarksOK' /\ \A x \in Ends : Len(chan[x]) <= Len(chan'[x])
    BY <1>1, LenSame DEF FenceInv, MarksOK
  <2> QED BY ZenonT(60), <1>1, <2>4, <2>5, <2>9, <2>10, <2>11, <2>12, ThreadStep
<1>3. CASE \E res \in {"ok", "err"} : /\ Return(t, res) /\ UNCHANGED wire
                                      /\ req' = [req EXCEPT ![t] = Free]
  BY ZenonT(60), <1>1, <1>3, EndStep
<1> QED BY <1>2, <1>3 DEF signal_answered

LEMMA TimeoutStep ==
    ASSUME FenceInv, NEW t \in Threads, fence_timeout(t)
    PROVE  FenceInv'
BY ZenonT(60), EndStep DEF fence_timeout

-----------------------------------------------------------------------------
(* The theorems *)

LEMMA InitOK == Init => FenceInv
<1> SUFFICES ASSUME Init PROVE FenceInv
  OBVIOUS
<1>1. /\ [state |-> "CONNECTED", closer |-> "open", fence_refcount |-> 0] \in Endpoints
      /\ [queued |-> FALSE, pc |-> "idle", fence |-> None] \in Works
      /\ Free \in FenceReqs /\ NoCall \in Calls /\ NoCall.pc = "idle" /\ NoCall.op = "none"
  <2>1. [state |-> "CONNECTED", closer |-> "open", fence_refcount |-> 0] \in Endpoints
    BY DEF Endpoints
  <2>2. [queued |-> FALSE, pc |-> "idle", fence |-> None] \in Works
    BY DEF Works
  <2>3. Free \in FenceReqs
    BY DEF Free, FenceReqs
  <2>4. NoCall \in Calls /\ NoCall.pc = "idle" /\ NoCall.op = "none"
    BY DEF NoCall, Calls
  <2> QED BY <2>1, <2>2, <2>3, <2>4
<1>2. \A e \in Ends : chan[e] = <<>> /\ done[e] = 0 /\ called[e] = 0 /\ Len(chan[e]) = 0
  BY DEF Init
<1>3. /\ chan \in [Ends -> Seq(Entries)] /\ wire \in [Ends -> Seq(Messages)]
      /\ fence \in [Ends -> Seq(Messages)]
  BY DEF Init
<1>4. plan \in Scenario
  BY FenceAssumption DEF Init
<1>5. TypeOK
  BY <1>1, <1>2, <1>3, <1>4 DEF Init, TypeOK
<1>6. CallsOK
  <2> SUFFICES ASSUME NEW t \in Threads PROVE CallOK(t)
    BY DEF CallsOK
  <2>1. call[t] = NoCall
    BY DEF Init
  <2> QED BY ZenonT(60), <1>1, <2>1 DEF CallOK
<1>7. MarksOK /\ HandlersOK /\ WorksOK
  BY DEF Init, MarksOK, HandlersOK, WorksOK
<1>8. WiresOK /\ FencesOK
  <2>1. \A e \in Ends : Len(wire[e]) = 0 /\ Len(fence[e]) = 0
    BY DEF Init
  <2> QED BY <2>1 DEF WiresOK, FencesOK
<1> QED BY <1>5, <1>6, <1>7, <1>8 DEF FenceInv

LEMMA ThreadOK ==
    ASSUME FenceInv, NEW t \in Threads, Thread(t) \/ Going(t)
    PROVE  FenceInv'
<1>1. CASE Thread(t)
  BY ZenonT(60), <1>1, CopyStep, MarkPeerStep, MarkSelfStep, WaitStep,
     SignalStep DEF Thread
<1>2. CASE Going(t)
  BY <1>2, MarkRefStep, WaitedStep, ProgSignalStep, AnsweredStep,
     SignalAnsweredStep, TimeoutStep
     DEF Going
<1> QED BY <1>1, <1>2

LEMMA ReceiveOK ==
    ASSUME FenceInv, NEW e \in Ends, Receive(e)
    PROVE  FenceInv'
<1>1. CASE scif_recv_mark(e) \/ scif_recv_wait(e)
  BY <1>1, RecvMarkStep, RecvWaitStep
<1>2. CASE scif_recv_sig_local(e) \/ scif_recv_sig_remote(e)
  BY <1>2, RecvSigStep DEF scif_recv_sig_local, scif_recv_sig_remote, Flags
<1>3. CASE scif_recv_mark_resp(e)
  BY <1>3, RespStep DEF scif_recv_mark_resp
<1>4. CASE scif_recv_wait_resp(e)
  BY <1>4, RespStep DEF scif_recv_wait_resp
<1>5. CASE scif_recv_sig_resp(e)
  BY <1>5, RespStep DEF scif_recv_sig_resp
<1>6. CASE scif_discnct(e) \/ scif_discnt_ack(e) \/ lost_message(e)
  BY <1>6, DiscnctStep, DiscntAckStep, LostStep
<1> QED BY <1>1, <1>2, <1>3, <1>4, <1>5, <1>6 DEF Receive

LEMMA NextOK == FenceInv /\ [Next]_vars => FenceInv'
<1> SUFFICES ASSUME FenceInv, [Next]_vars PROVE FenceInv'
  OBVIOUS
<1>1. CASE \E t \in Threads : Thread(t) \/ Going(t)
  BY <1>1, ThreadOK
<1>2. ASSUME NEW e \in Ends, Receive(e) \/ recv_mark_ref(e) \/ Engine(e) \/ Callback(e)
      PROVE  FenceInv'
  BY <1>2, ReceiveOK, RecvMarkRefStep, EngineStep, CallbackStep
<1>3. ASSUME NEW e \in Ends, Misc(e)
      PROVE  FenceInv'
  BY <1>3, MiscStep, HandleFencesStep, RemoteWaitedStep, ZombieStep DEF Misc
<1>4. ASSUME NEW e \in Ends, scif_close(e) \/ scif_close_end(e) \/ NodeGone(e)
      PROVE  FenceInv'
  BY <1>4, CloseStep, CloseEndStep, NodeGoneStep
<1>5. CASE UNCHANGED vars
  <2>1. /\ UNCHANGED <<plan, chan, done, called, wire, handler, fence, call, req, marks>>
        /\ UNCHANGED <<ep, alive, work>>
    BY <1>5 DEF vars
  <2>2. ep \in [Ends -> Endpoints] /\ alive \in [Ends -> BOOLEAN] /\ work \in [Ends -> Works]
    BY DEF FenceInv, TypeOK
  <2> QED BY <2>1, <2>2, EndpointStep
<1> QED BY <1>1, <1>2, <1>3, <1>4, <1>5 DEF Next

LEMMA FenceInvariant == Spec => []FenceInv
BY InitOK, NextOK, PTL DEF Spec

\* The fence code keeps its data in shape, and no callback is run before the
\* descriptor is completed, whatever the calls, closes and lost nodes.
THEOREM TypeCorrect == Spec => []TypeOK
<1>1. FenceInv => TypeOK
  BY DEF FenceInv
<1> QED BY <1>1, FenceInvariant, PTL

\* For every number of threads and every sequence of calls, scif_fence_wait()
\* returns success only when everything that was submitted, at the end the
\* fence is about, before scif_fence_mark() was called is completed.
THEOREM WaitCovers == Spec => []WaitedDone
<1>1. FenceInv => WaitedDone
  <2> SUFFICES ASSUME FenceInv, NEW t \in Threads, Succeeded(t, "wait")
               PROVE  done[Target(t)] >= call[t].covers
    BY DEF WaitedDone
  <2>1. EndOf[t] \in Ends /\ Target(t) \in Ends
    BY FenceAssumption, PeerEnd DEF Target
  <2>2. done[Target(t)] \in Nat /\ call[t].covers \in Nat /\ call[t].cookie \in Nat
    BY <2>1 DEF FenceInv, TypeOK, Calls
  <2>3. call[t].covers <= call[t].cookie /\ call[t].cookie <= done[Target(t)]
    BY ZenonT(60) DEF FenceInv, CallsOK, CallOK, Succeeded
  <2> QED BY <2>2, <2>3
<1> QED BY <1>1, FenceInvariant, PTL
=============================================================================
