---------------------------- MODULE MicDmaProofs ----------------------------
(***************************************************************************)
(* Proofs about the x200 DMA channel driver, for any ring size, any number *)
(* of clients and any requests.                                            *)
(*                                                                         *)
(* Distances are measured from last_tail: Used(i, last_tail) is the number *)
(* of slots from last_tail to slot i.  The invariant says which slots hold *)
(* valid descriptors (those from the engine's position to the last one     *)
(* written), that the holder of prep_lock still has the space it has asked *)
(* for, and that no cookie in tx_array belongs to a transaction that ends  *)
(* behind the slot it is in.                                               *)
(***************************************************************************)
EXTENDS MicDma, Integers, TLAPS

\* A leaf that names no back end is tried with SMT, again when its translation
\* runs out of time, and then with Zenon.
USE SMTT(60), SMTT(61), SMTT(62), SMTT(63), ZenonT(60)

Dist(i) == Used(i, last_tail)

\* A descriptor has been written at head and head has not moved yet.
Writing == prep_lock # Nobody /\ cl[prep_lock].pc \in {"inc", "fence_inc"}

Written == posted + (IF Writing THEN 1 ELSE 0)

\* prep_lock is held exactly between the space check and the last descriptor.
LockInv ==
  \A t \in Clients :
    (prep_lock = t) <=>
      cl[t].pc \in {"clean", "redo", "prog", "inc", "fence", "fence_inc"}

\* What the holder still has to write fits, and leaves one slot empty.
SpaceInv ==
  \A t \in Clients :
    /\ cl[t].pc \in {"prog", "inc"} =>
         Dist(head) + NumDesc(cl[t]) < RX_SIZE
    /\ cl[t].pc = "inc" => cl[t].n > 0
    /\ cl[t].pc \in {"fence", "fence_inc"} => Dist(head) + 1 < RX_SIZE

CountInv ==
  /\ tailed + Dist(head) = posted
  /\ tailed <= done
  /\ done <= Written

\* The valid descriptors are the written ones that the engine has not moved.
RingInv ==
  \A i \in Slots :
    /\ ring[i].valid <=> /\ done <= tailed + Dist(i)
                         /\ tailed + Dist(i) < Written
    /\ ring[i].valid => ring[i].seq = tailed + Dist(i) + 1

HwInv ==
  /\ tailed + Dist(hw.next) = done
  /\ hw.mode \in {"xfer", "abort"} => ring[hw.next].valid
  /\ "abort" \in intr \cup handler.reg => hw.mode = "abort"
  /\ ~("abort" \in intr /\ "abort" \in handler.reg)

\* The cleanup that is under way has passed moved descriptors only.
CleanInv ==
  clean.by # Nobody =>
    /\ tailed + Dist(clean.idx) = clean.n
    /\ clean.n <= done
    /\ Dist(clean.idx) <= Dist(clean.head)
    /\ Dist(clean.head) <= Dist(head)

\* A client in mic_dma_cleanup stays at the point that called it.
WaitInv ==
  clean.by \in Clients => cl[clean.by].pc \in {"clean", "sleep", "poll"}

\* The holder of prep_lock has assigned a cookie and its fence is to follow.
FencePhase ==
  prep_lock # Nobody /\ cl[prep_lock].pc \in {"fence", "fence_inc"}

\* The transactions end in the order of their cookies, at a descriptor that
\* is or is about to be written.
TxInv ==
  /\ cookie = Len(txs)
  /\ completed <= cookie
  /\ \A c, d \in 1 .. Len(txs) :
       c <= d => txs[c].last <= txs[d].last
  /\ \A c \in 1 .. Len(txs) :
       \/ txs[c].last <= posted
       \/ txs[c].last = posted + 1 /\ FencePhase

\* A cookie, also one that cleanup has missed, is in a slot not before the
\* end of its transaction.
CookieInv ==
  \A i \in Slots :
    tx_array[i].cookie # 0 =>
      /\ tx_array[i].cookie <= cookie
      /\ txs[tx_array[i].cookie].last <= tailed + Dist(i) + 1

Ind == /\ LockInv /\ SpaceInv /\ CountInv /\ RingInv /\ HwInv /\ CleanInv
       /\ WaitInv /\ TxInv /\ CookieInv /\ CompletedMoved

-----------------------------------------------------------------------------
(* Arithmetic of the ring *)

\* Distances are slots.
LEMMA UsedRange ==
  ASSUME NEW h \in Slots, NEW t \in Slots
  PROVE  Used(h, t) \in Slots
BY SizeAssumption DEF Used, Slots

\* mic_dma_ring_inc stays in the ring.
LEMMA IncRange == ASSUME NEW i \in Slots PROVE mic_dma_ring_inc(i) \in Slots
BY SizeAssumption DEF mic_dma_ring_inc, Slots

\* mic_dma_ring_dec stays in the ring.
LEMMA DecRange == ASSUME NEW i \in Slots PROVE mic_dma_ring_dec(i) \in Slots
BY SizeAssumption DEF mic_dma_ring_dec, Slots

\* One slot further is one more in use, unless the ring wraps to its tail.
LEMMA UsedInc ==
  ASSUME NEW i \in Slots, NEW t \in Slots, Used(i, t) + 1 < RX_SIZE
  PROVE  Used(mic_dma_ring_inc(i), t) = Used(i, t) + 1
BY SizeAssumption DEF Used, Slots, mic_dma_ring_inc

\* The slot before head.
LEMMA UsedDec ==
  ASSUME NEW i \in Slots, NEW t \in Slots
  PROVE  Used(mic_dma_ring_dec(i), t) =
           IF Used(i, t) = 0 THEN RX_SIZE - 1 ELSE Used(i, t) - 1
BY SizeAssumption DEF Used, Slots, mic_dma_ring_dec

\* A slot is known by its distance.
LEMMA UsedInjective ==
  ASSUME NEW i \in Slots, NEW j \in Slots, NEW t \in Slots,
         Used(i, t) = Used(j, t)
  PROVE  i = j
BY SizeAssumption DEF Used, Slots

\* Distances from a tail that has moved to u.
LEMMA UsedShift ==
  ASSUME NEW i \in Slots, NEW t \in Slots, NEW u \in Slots
  PROVE  Used(i, u) = IF Used(i, t) >= Used(u, t)
                        THEN Used(i, t) - Used(u, t)
                        ELSE (Used(i, t) + RX_SIZE) - Used(u, t)
BY SizeAssumption DEF Used, Slots

\* At(k) is the slot at distance k.
LEMMA AtUsed ==
  ASSUME last_tail \in Slots, NEW k \in Slots
  PROVE  At(k) \in Slots /\ Used(At(k), last_tail) = k
BY SizeAssumption DEF Used, Slots, At

\* The space check counts the slots that are not in use, but one.
LEMMA RingCount ==
  ASSUME NEW h \in Slots, NEW t \in Slots
  PROVE  mic_dma_ring_count(h, t) = (RX_SIZE - Used(h, t)) - 1
BY SizeAssumption DEF mic_dma_ring_count

-----------------------------------------------------------------------------
(* Types *)

\* Counting a call changes nothing else in a transaction.
LEMMA CallOne ==
  ASSUME NEW x \in Tx
  PROVE  /\ [x EXCEPT !.calls = @ + 1] \in Tx
         /\ [x EXCEPT !.calls = @ + 1].last = x.last
         /\ [x EXCEPT !.calls = @ + 1].intr = x.intr
BY DEF Tx

\* The transactions when the callback of cookie c is called.
Called(s, c) == [s EXCEPT ![c].calls = @ + 1]

\* A call keeps the sequence of transactions and their ends.
LEMMA CallTyped ==
  ASSUME NEW s \in Seq(Tx), NEW c \in 1 .. Len(s)
  PROVE  /\ Called(s, c) \in Seq(Tx)
         /\ Len(Called(s, c)) = Len(s)
         /\ \A d \in 1 .. Len(s) :
              /\ Called(s, c)[d].last = s[d].last
              /\ Called(s, c)[d].intr = s[d].intr
<1> DEFINE u == [s[c] EXCEPT !.calls = @ + 1]
           w == [s EXCEPT ![c] = u]
<1>1. s[c] \in Tx
  OBVIOUS
<1>2. u \in Tx /\ u.last = s[c].last /\ u.intr = s[c].intr
  BY <1>1, CallOne, ZenonT(60)
<1>3. Called(s, c) = w
  BY DEF Called
<1> HIDE DEF u
<1>4. w \in Seq(Tx) /\ Len(w) = Len(s)
  BY <1>2
<1>5. \A d \in 1 .. Len(s) : w[d] = IF d = c THEN u ELSE s[d]
  OBVIOUS
<1>6. \A d \in 1 .. Len(s) : w[d].last = s[d].last /\ w[d].intr = s[d].intr
  BY <1>2, <1>5
<1> HIDE DEF w
<1> QED
  BY <1>3, <1>4, <1>6

\* The initial state has its type.
LEMMA InitTyped == Init => TypeOK
<1> SUFFICES ASSUME Init PROVE TypeOK
  OBVIOUS
<1>1. ChanOK
  BY SizeAssumption DEF Init, ChanOK, Empty, Slots
<1>2. ThreadOK
  <2>1. clean \in [by : Threads \cup {Nobody}, head : Slots, idx : Slots, n : Nat]
    BY SizeAssumption DEF Init, Unlocked, Slots
  <2>2. cl \in [Clients -> [pc : Labels, n : Nat,
                           flags : {"none", "fence", "intr"}]]
    BY DEF Init, Idle, Labels
  <2> QED
    BY ZenonT(60), <2>1, <2>2 DEF Init, ThreadOK
<1>3. EngineOK
  BY SizeAssumption DEF Init, EngineOK, Slots
<1>4. HistOK
  <2>1. <<>> \in Seq(Tx)
    OBVIOUS
  <2> QED
    BY ZenonT(60), <2>1 DEF Init, HistInit, HistOK
<1> QED
  BY <1>1, <1>2, <1>3, <1>4 DEF TypeOK

\* The space check leaves the lock and the clients typed.
LEMMA DoDmaTyped ==
  ASSUME ThreadOK, NEW t \in Clients, NEW r, NEW first \in BOOLEAN,
         r.n \in Nat, r.flags \in {"none", "fence", "intr"},
         mic_dma_do_dma(t, r, first)
  PROVE  /\ prep_lock' \in Clients \cup {Nobody}
         /\ cl' \in [Clients -> [pc : Labels, n : Nat,
                                 flags : {"none", "fence", "intr"}]]
BY DEF ThreadOK, mic_dma_do_dma, Idle, Labels

\* What no action touches keeps its type.
LEMMA TypeFrame ==
  ASSUME TypeOK
  PROVE  /\ UNCHANGED <<chan, notify_hw, abort>> => ChanOK'
         /\ UNCHANGED <<locks, cl, handler, wake>> => ThreadOK'
         /\ UNCHANGED engine => EngineOK'
         /\ UNCHANGED hist => HistOK'
<1>1. UNCHANGED <<chan, notify_hw, abort>> => ChanOK'
  BY DEF TypeOK, ChanOK, chan
<1>2. UNCHANGED <<locks, cl, handler, wake>> => ThreadOK'
  BY DEF TypeOK, ThreadOK, locks
<1>3. UNCHANGED engine => EngineOK'
  BY DEF TypeOK, EngineOK, engine
<1>4. UNCHANGED hist => HistOK'
  BY DEF TypeOK, HistOK, hist, counts, notes
<1> QED
  BY <1>1, <1>2, <1>3, <1>4

\* The steps of the clients keep the type.
LEMMA ClientTyped ==
  ASSUME TypeOK, NEW t \in Clients,
         \/ mic_dma_prep_memcpy_lock(t)
         \/ mic_dma_tx_status(t)
         \/ Client(t)
  PROVE  TypeOK'
<1> USE DEF TypeOK
<1>1. CASE mic_dma_prep_memcpy_lock(t)
  <2>1. PICK r \in Requests : mic_dma_do_dma(t, r, TRUE)
    BY ZenonT(60), <1>1 DEF mic_dma_prep_memcpy_lock
  <2>2. r.n \in Nat /\ r.flags \in {"none", "fence", "intr"}
    BY RequestAssumption
  <2>3. ThreadOK'
    BY ZenonT(60), <1>1, <2>1, <2>2, DoDmaTyped
       DEF mic_dma_prep_memcpy_lock, ThreadOK
  <2> QED
    BY <1>1, <2>3, TypeFrame DEF mic_dma_prep_memcpy_lock
<1>2. CASE mic_dma_tx_status(t)
  <2>1. ThreadOK'
    BY <1>2 DEF mic_dma_tx_status, ThreadOK, locks, Goto, Labels
  <2> QED
    BY <1>2, <2>1, TypeFrame DEF mic_dma_tx_status
<1>3. CASE Redo(t)
  <2>1. cl[t].n \in Nat /\ cl[t].flags \in {"none", "fence", "intr"}
    BY DEF ThreadOK
  <2>2. PICK first \in BOOLEAN : mic_dma_do_dma(t, cl[t], first)
    BY ZenonT(60), <1>3 DEF Redo
  <2>3. ThreadOK'
    BY <1>3, <2>1, <2>2, DoDmaTyped DEF Redo, ThreadOK
  <2> QED
    BY <1>3, <2>3, TypeFrame DEF Redo
<1>4. CASE mic_dma_prog_memcpy_desc(t)
  <2>1. ChanOK'
    BY <1>4 DEF mic_dma_prog_memcpy_desc, mic_dma_memcpy_desc, ChanOK, HistOK
  <2>2. ThreadOK'
    BY <1>4 DEF mic_dma_prog_memcpy_desc, ThreadOK, locks, Goto, Labels
  <2> QED
    BY <1>4, <2>1, <2>2, TypeFrame DEF mic_dma_prog_memcpy_desc
<1>5. CASE ProgInc(t)
  <2>1. ChanOK'
    BY <1>5, IncRange DEF ProgInc, mic_dma_inc_head, ChanOK
  <2>2. ThreadOK'
    BY <1>5 DEF ProgInc, ThreadOK, locks, Labels
  <2>3. HistOK'
    BY <1>5 DEF ProgInc, mic_dma_inc_head, HistOK, notes
  <2> QED
    BY <1>5, <2>1, <2>2, <2>3, TypeFrame DEF ProgInc
<1>6. CASE mic_dma_tx_submit_unlock(t)
  <2>1. allocate_tx(t) \in Slots
    BY DecRange DEF allocate_tx, ChanOK
  <2>2. ChanOK'
    BY <1>6, <2>1 DEF mic_dma_tx_submit_unlock, ChanOK
  <2>3. ThreadOK'
    <3>1. cl' \in [Clients -> [pc : Labels, n : Nat,
                              flags : {"none", "fence", "intr"}]]
      BY <1>6 DEF mic_dma_tx_submit_unlock, ThreadOK, Goto, Labels
    <3>2. prep_lock' \in Clients \cup {Nobody}
      BY <1>6 DEF mic_dma_tx_submit_unlock, ThreadOK
    <3> QED
      BY <1>6, <3>1, <3>2 DEF mic_dma_tx_submit_unlock, ThreadOK
  <2>4. HistOK'
    BY <1>6 DEF mic_dma_tx_submit_unlock, HistOK, counts, notes, Tx
  <2> QED
    BY <1>6, <2>2, <2>3, <2>4, TypeFrame DEF mic_dma_tx_submit_unlock
<1>7. CASE mic_dma_fence_intr_desc(t)
  <2>1. ChanOK'
    BY <1>7 DEF mic_dma_fence_intr_desc, mic_dma_memcpy_desc, ChanOK, HistOK
  <2>2. ThreadOK'
    BY <1>7 DEF mic_dma_fence_intr_desc, ThreadOK, locks, Goto, Labels
  <2> QED
    BY ZenonT(60), <1>7, <2>1, <2>2, TypeFrame DEF mic_dma_fence_intr_desc
<1>8. CASE FenceInc(t)
  <2>1. ChanOK'
    BY <1>8, IncRange DEF FenceInc, mic_dma_inc_head, ChanOK
  <2>2. ThreadOK'
    BY <1>8 DEF FenceInc, ThreadOK, Idle, Labels
  <2>3. HistOK'
    BY <1>8 DEF FenceInc, mic_dma_inc_head, HistOK, notes
  <2> QED
    BY <1>8, <2>1, <2>2, <2>3, TypeFrame DEF FenceInc
<1>9. CASE mic_dma_update_pending(t) \/ Issue(t)
  <2>1. ChanOK'
    BY ZenonT(60), <1>9
       DEF mic_dma_update_pending, Issue, mic_dma_issue_pending, ChanOK, chan
  <2>2. ThreadOK'
    BY <1>9 DEF mic_dma_update_pending, Issue, ThreadOK, locks, Goto, Labels
  <2>3. EngineOK'
    BY ZenonT(60), <1>9
       DEF mic_dma_update_pending, Issue, mic_dma_issue_pending, ClearInvld,
                EngineOK
  <2>4. HistOK'
    BY ZenonT(60), <1>9
       DEF mic_dma_update_pending, Issue, mic_dma_issue_pending, HistOK,
                counts, ChanOK, EngineOK
  <2> QED
    BY <2>1, <2>2, <2>3, <2>4
<1> QED
  BY <1>1, <1>2, <1>3, <1>4, <1>5, <1>6, <1>7, <1>8, <1>9 DEF Client

\* The steps of mic_dma_cleanup keep the type.
LEMMA CleanupTyped ==
  ASSUME TypeOK, TxInv, CookieInv,
         Cleanup \/ \E p \in Threads : CleanupBegin(p)
  PROVE  TypeOK'
<1> USE DEF TypeOK
<1>1. CASE \E p \in Threads : CleanupBegin(p)
  <2>1. ThreadOK'
    BY <1>1 DEF CleanupBegin, ThreadOK, ChanOK, HistOK
  <2> QED
    BY <1>1, <2>1, TypeFrame DEF CleanupBegin
<1>2. CASE CleanupStep
  <2> DEFINE i == clean.idx
             c == tx_array[i].cookie
  <2>1. i \in Slots /\ tx_array[i] \in [cookie : Nat, cb : BOOLEAN]
    BY DEF ChanOK, ThreadOK
  <2>4. ThreadOK'
    <3>1. mic_dma_ring_inc(clean.idx) \in Slots
      BY <2>1, IncRange
    <3>2. clean \in [by : Threads \cup {Nobody}, head : Slots, idx : Slots, n : Nat]
      BY DEF ThreadOK
    <3>3. clean' = [by |-> clean.by, head |-> clean.head,
                    idx |-> mic_dma_ring_inc(clean.idx), n |-> clean.n + 1]
      BY <1>2 DEF CleanupStep
    <3>4. clean' \in [by : Threads \cup {Nobody}, head : Slots, idx : Slots, n : Nat]
      BY <3>1, <3>2, <3>3
    <3> QED
      BY <1>2, <3>4 DEF CleanupStep, ThreadOK
  <2>2. CASE c = 0
    <3>1. UNCHANGED <<completed, tx_array, txs>>
      BY <1>2, <2>2 DEF CleanupStep, Complete
    <3>2. ChanOK'
      BY <1>2, <3>1 DEF CleanupStep, ChanOK
    <3>3. HistOK'
      BY <1>2, <3>1 DEF CleanupStep, HistOK, counts, notes
    <3> QED
      BY <1>2, <2>4, <3>2, <3>3, TypeFrame DEF CleanupStep
  <2>3. CASE c # 0
    <3>1. c \in 1 .. Len(txs)
      BY <2>1, <2>3 DEF CookieInv, TxInv
    <3>2. /\ completed' = c
          /\ tx_array' = [tx_array EXCEPT ![i] = [cookie |-> 0, cb |-> FALSE]]
          /\ txs' = txs \/ txs' = Called(txs, c)
      BY <1>2, <2>3 DEF CleanupStep, Complete, Called
    <3>3. ChanOK'
      BY <1>2, <2>1, <3>2 DEF CleanupStep, ChanOK
    <3>4. txs' \in Seq(Tx)
      <4>1. txs \in Seq(Tx)
        BY DEF HistOK
      <4> HIDE DEF c
      <4>2. Called(txs, c) \in Seq(Tx)
        BY <3>1, <4>1, CallTyped
      <4> QED
        BY <3>2, <4>1, <4>2, ZenonT(60)
    <3>5. HistOK'
      BY <1>2, <3>4 DEF CleanupStep, HistOK, counts, notes
    <3> QED
      BY <1>2, <2>4, <3>3, <3>5, TypeFrame DEF CleanupStep
  <2> QED
    BY <2>2, <2>3
<1>3. CASE CleanupEnd
  <2>1. ChanOK'
    BY <1>3 DEF CleanupEnd, ChanOK, ThreadOK
  <2>2. ThreadOK'
    BY <1>3, SizeAssumption
    DEF CleanupEnd, ThreadOK, Threads, Unlocked, AfterCleanup, Labels, Slots
  <2>3. HistOK'
    BY <1>3 DEF CleanupEnd, HistOK, notes, ThreadOK
  <2> QED
    BY <1>3, <2>1, <2>2, <2>3, TypeFrame DEF CleanupEnd
<1> QED
  BY <1>1, <1>2, <1>3 DEF Cleanup

\* The first valid descriptor from last_tail is the one the engine has failed
\* to move, also when it is written and head has not moved yet.
LEMMA FirstValidNext ==
  ASSUME TypeOK, CountInv, RingInv, HwInv, hw.mode = "abort"
  PROVE  FirstValid = hw.next
<1> DEFINE d == Dist(hw.next)
<1>1. /\ hw.next \in Slots /\ head \in Slots /\ last_tail \in Slots
      /\ posted \in Nat /\ done \in Nat /\ tailed \in Nat
      /\ ring \in [Slots -> [valid : BOOLEAN, intr : BOOLEAN, seq : Nat]]
  BY DEF TypeOK, ChanOK, EngineOK, HistOK
<1>2. d \in Slots /\ Dist(head) \in Slots
  BY <1>1, UsedRange DEF Dist
<1>3. tailed + d = done /\ ring[hw.next].valid /\ done < Written
  BY <1>1 DEF HwInv, RingInv
<1>4. At(d) = hw.next
  BY <1>1, <1>2, AtUsed, UsedInjective DEF Dist
<1>5. \A k \in ValidBeforeHead : k \in Slots /\ d <= k /\ k < Dist(head)
  <2> SUFFICES ASSUME NEW k \in ValidBeforeHead
               PROVE  k \in Slots /\ d <= k /\ k < Dist(head)
    OBVIOUS
  <2>1. k \in Slots /\ k < Dist(head) /\ ring[At(k)].valid
    BY DEF ValidBeforeHead, Dist
  <2>2. At(k) \in Slots /\ Dist(At(k)) = k
    BY <1>1, <2>1, AtUsed DEF Dist
  <2>3. done <= tailed + k
    BY <2>1, <2>2 DEF RingInv
  <2> QED
    BY <1>1, <1>2, <1>3, <2>1, <2>3 DEF Slots
<1>6. CASE d < Dist(head)
  <2>1. d \in ValidBeforeHead
    BY <1>2, <1>3, <1>4, <1>6 DEF ValidBeforeHead, Dist
  <2>2. \A k \in ValidBeforeHead :
          (\A j \in ValidBeforeHead : k <= j) => k = d
    BY <1>2, <1>5, <2>1, SizeAssumption DEF Slots
  <2>3. (CHOOSE k \in ValidBeforeHead : \A j \in ValidBeforeHead : k <= j) = d
    BY <1>5, <2>1, <2>2
  <2> QED
    BY ZenonT(60), <1>4, <2>1, <2>3 DEF FirstValid
<1>7. CASE ~(d < Dist(head))
  <2>1. ValidBeforeHead = {}
    BY <1>2, <1>5, <1>7, SizeAssumption DEF Slots
  <2>2. d = Dist(head)
    BY <1>1, <1>2, <1>3, <1>7, SizeAssumption DEF CountInv, Written, Slots
  <2> QED
    BY <1>1, <2>1, <2>2, UsedInjective DEF FirstValid, Dist
<1> QED
  BY <1>6, <1>7

\* The interrupt handler keeps the type.
LEMMA HandlerTyped ==
  ASSUME TypeOK, CountInv, RingInv, HwInv, Handler
  PROVE  TypeOK'
<1> USE DEF TypeOK
<1>1. CASE mic_dma_ack_interrupt
  <2>1. ThreadOK' /\ EngineOK'
    BY <1>1 DEF mic_dma_ack_interrupt, ThreadOK, EngineOK, locks
  <2> QED
    BY <1>1, <2>1, TypeFrame DEF mic_dma_ack_interrupt
<1>2. CASE mic_dma_invld_desc_interrupt
  <2>1. ChanOK'
    BY ZenonT(60), <1>2 DEF mic_dma_invld_desc_interrupt, ChanOK, chan
  <2>2. ThreadOK'
    BY <1>2 DEF mic_dma_invld_desc_interrupt, Served, ThreadOK, locks
  <2>3. EngineOK'
    BY ZenonT(60), <1>2 DEF mic_dma_invld_desc_interrupt, EngineOK, ClearInvld
  <2> QED
    BY <1>2, <2>1, <2>2, <2>3, TypeFrame DEF mic_dma_invld_desc_interrupt
<1>3. CASE mic_dma_abort_interrupt
  <2>1. FirstValid = hw.next
    BY <1>3, FirstValidNext DEF HwInv, mic_dma_abort_interrupt
  <2>2. ChanOK'
    <3>1. hw.last \in Slots /\ abort.counter \in Nat
      BY DEF EngineOK, ChanOK
    <3>2. AbortCounter \in Nat
      BY <3>1 DEF AbortCounter
    <3>3. abort' \in [tail : Slots, counter : Nat] /\ notify_hw' \in BOOLEAN
      BY ZenonT(60), <1>3, <3>1, <3>2 DEF mic_dma_abort_interrupt, ChanOK
    <3> QED
      BY <1>3, <3>3 DEF mic_dma_abort_interrupt, ChanOK, chan
  <2>3. ThreadOK'
    BY <1>3 DEF mic_dma_abort_interrupt, Served, ThreadOK, locks
  <2>4. EngineOK'
    BY ZenonT(60), <1>3, <2>1 DEF mic_dma_abort_interrupt, EngineOK
  <2>5. HistOK'
    BY ZenonT(60), <1>3 DEF mic_dma_abort_interrupt, HistOK, counts
  <2> QED
    BY <2>2, <2>3, <2>4, <2>5
<1>4. CASE HandlerReturn
  <2>1. ThreadOK'
    BY <1>4 DEF HandlerReturn, ThreadOK, locks
  <2> QED
    BY <1>4, <2>1, TypeFrame DEF HandlerReturn
<1> QED
  BY <1>1, <1>2, <1>3, <1>4 DEF Handler

\* The engine keeps the type.
LEMMA EngineTyped ==
  ASSUME TypeOK, Engine \/ HwAbort
  PROVE  TypeOK'
<1> USE DEF TypeOK
<1>1. CASE HwFetch
  <2>1. EngineOK'
    BY <1>1 DEF HwFetch, EngineOK
  <2> QED
    BY <1>1, <2>1, TypeFrame DEF HwFetch
<1>2. CASE HwDone
  <2>1. ChanOK'
    BY <1>2 DEF HwDone, ChanOK, EngineOK, Empty
  <2>2. EngineOK'
    BY <1>2, IncRange DEF HwDone, EngineOK
  <2>3. HistOK'
    BY <1>2 DEF HwDone, HistOK, notes
  <2> QED
    BY <1>2, <2>1, <2>2, <2>3, TypeFrame DEF HwDone
<1>3. CASE HwInvld
  <2>1. EngineOK'
    BY <1>3 DEF HwInvld, EngineOK
  <2> QED
    BY <1>3, <2>1, TypeFrame DEF HwInvld
<1>4. CASE HwAbort
  <2>1. EngineOK' /\ HistOK'
    BY <1>4 DEF HwAbort, EngineOK, HistOK, counts
  <2> QED
    BY <1>4, <2>1, TypeFrame DEF HwAbort
<1> QED
  BY <1>1, <1>2, <1>3, <1>4 DEF Engine

-----------------------------------------------------------------------------
(* The inductive invariant *)

\* A channel that has been set up satisfies the invariant.
LEMMA InitInd == Init => Ind
<1> SUFFICES ASSUME Init PROVE Ind
  OBVIOUS
<1>1. \A i \in Slots : Dist(i) \in Slots
  BY UsedRange, SizeAssumption DEF Init, Dist, Slots
<1>2. Dist(0) = 0
  BY SizeAssumption DEF Init, Dist, Used
<1>3. LockInv /\ SpaceInv /\ ~Writing
  BY ThreadAssumption DEF Init, LockInv, SpaceInv, Writing, Idle
<1>4. CountInv
  BY <1>2, <1>3 DEF Init, HistInit, CountInv, Written
<1>5. RingInv
  BY <1>1, <1>3 DEF Init, HistInit, RingInv, Written, Empty, Slots
<1>6. HwInv
  BY <1>2 DEF Init, HistInit, HwInv
<1>7. CleanInv /\ WaitInv /\ CookieInv
  BY ThreadAssumption DEF Init, CleanInv, WaitInv, CookieInv, Unlocked
<1>8. TxInv /\ CompletedMoved
  BY DEF Init, HistInit, TxInv, CompletedMoved
<1> QED
  BY <1>3, <1>4, <1>5, <1>6, <1>7, <1>8 DEF Ind

\* The parts of the invariant that a step leaves alone.
LEMMA Frame ==
  ASSUME TypeOK, Ind
  PROVE  /\ UNCHANGED <<prep_lock, cl>> =>
              LockInv' /\ Writing' = Writing /\ FencePhase' = FencePhase
         /\ UNCHANGED <<cl, head, last_tail>> => SpaceInv'
         /\ UNCHANGED <<head, last_tail, counts>> /\ Writing' = Writing =>
              CountInv'
         /\ UNCHANGED <<ring, last_tail, counts>> /\ Writing' = Writing =>
              RingInv'
         /\ UNCHANGED <<ring, last_tail, counts, handler, engine>> => HwInv'
         /\ UNCHANGED <<clean, head, last_tail, counts>> => CleanInv'
         /\ UNCHANGED <<clean, cl>> => WaitInv'
         /\ /\ UNCHANGED <<cookie, completed, posted, txs>>
            /\ FencePhase => FencePhase'
            => TxInv'
         /\ UNCHANGED <<tx_array, cookie, last_tail, tailed, txs>> => CookieInv'
         /\ UNCHANGED <<completed, done, txs>> => CompletedMoved'
<1> USE DEF Ind
<1>1. UNCHANGED <<prep_lock, cl>> =>
        LockInv' /\ Writing' = Writing /\ FencePhase' = FencePhase
  BY DEF LockInv, Writing, FencePhase
<1>2. UNCHANGED <<cl, head, last_tail>> => SpaceInv'
  BY DEF SpaceInv, Dist, Used, NumDesc
<1>3. UNCHANGED <<head, last_tail, counts>> /\ Writing' = Writing => CountInv'
  BY DEF CountInv, Dist, Used, counts, Written
<1>4. UNCHANGED <<ring, last_tail, counts>> /\ Writing' = Writing => RingInv'
  BY DEF RingInv, Dist, Used, counts, Written
<1>5. UNCHANGED <<ring, last_tail, counts, handler, engine>> => HwInv'
  BY DEF HwInv, Dist, Used, counts, engine
<1>6. UNCHANGED <<clean, head, last_tail, counts>> => CleanInv'
  BY DEF CleanInv, Dist, Used, counts
<1>7. /\ UNCHANGED <<cookie, completed, posted, txs>>
      /\ FencePhase => FencePhase'
      => TxInv'
  BY DEF TxInv
<1>8. UNCHANGED <<tx_array, cookie, last_tail, tailed, txs>> => CookieInv'
  BY DEF CookieInv, Dist, Used
<1>9. UNCHANGED <<completed, done, txs>> => CompletedMoved'
  BY DEF CompletedMoved
<1>10. UNCHANGED <<clean, cl>> => WaitInv'
  BY DEF WaitInv
<1> QED
  BY <1>1, <1>2, <1>3, <1>4, <1>5, <1>6, <1>7, <1>8, <1>9, <1>10

\* The space check: prep_lock is taken or given back, nothing is written.
LEMMA DoDmaInd ==
  ASSUME TypeOK, Ind, NEW t \in Clients, NEW r, NEW first \in BOOLEAN,
         r.n \in Nat, r.flags \in {"none", "fence", "intr"},
         mic_dma_do_dma(t, r, first),
         \/ prep_lock = Nobody /\ cl[t].pc \in {"idle", "posted", "lock"}
         \/ cl[t].pc = "redo",
         UNCHANGED <<chan, clean, handler, engine, hist>>
  PROVE  Ind'
<1> USE DEF Ind
<1>1. /\ head \in Slots /\ last_tail \in Slots
      /\ prep_lock \in Clients \cup {Nobody}
      /\ cl \in [Clients -> [pc : Labels, n : Nat,
                             flags : {"none", "fence", "intr"}]]
  BY DEF TypeOK, ChanOK, ThreadOK
<1>2. prep_lock \in {t, Nobody} /\ prep_lock' \in {t, Nobody}
  BY <1>1 DEF LockInv, mic_dma_do_dma
<1>3. /\ \A u \in Clients \ {t} : cl'[u] = cl[u]
      /\ cl'[t].pc \in {"idle", "prog", "clean", "sleep"}
      /\ (prep_lock' = t) <=> cl'[t].pc \in {"prog", "clean"}
  BY <1>1, ThreadAssumption DEF mic_dma_do_dma, Idle
<1>4. LockInv'
  BY ZenonT(60), <1>1, <1>2, <1>3, ThreadAssumption DEF LockInv
<1>5. Writing' = Writing /\ ~FencePhase
  BY ZenonT(60), <1>1, <1>2, <1>3, ThreadAssumption DEF Writing, FencePhase, LockInv
<1>6. SpaceInv'
  <2>1. Dist(head)' = Dist(head) /\ Dist(head) \in Slots
    BY <1>1, UsedRange DEF chan, Dist, Used
  <2>2. cl'[t].pc = "prog" =>
          NumDesc(cl[t])' = NumDesc(r) /\ Dist(head) + NumDesc(r) < RX_SIZE
    BY <1>1, <2>1, RingCount, SizeAssumption
    DEF mic_dma_do_dma, NumDesc, Dist, Slots, Idle
  <2>3. ASSUME NEW u \in Clients \ {t}
        PROVE  NumDesc(cl[u])' = NumDesc(cl[u])
    BY <1>3 DEF NumDesc
  <2> QED
    BY ZenonT(60), <1>3, <2>1, <2>2, <2>3 DEF SpaceInv
<1>7. WaitInv'
  BY <1>3 DEF WaitInv
<1> QED
  BY <1>4, <1>5, <1>6, <1>7, Frame DEF chan, hist, counts

\* The two places that make the space check.
LEMMA PrepInd ==
  ASSUME TypeOK, Ind, NEW t \in Clients,
         mic_dma_prep_memcpy_lock(t) \/ Redo(t)
  PROVE  Ind'
<1>1. CASE mic_dma_prep_memcpy_lock(t)
  <2>1. PICK r \in Requests : mic_dma_do_dma(t, r, TRUE)
    BY ZenonT(60), <1>1 DEF mic_dma_prep_memcpy_lock
  <2>2. r.n \in Nat /\ r.flags \in {"none", "fence", "intr"}
    BY RequestAssumption
  <2> QED
    BY ZenonT(60), <1>1, <2>1, <2>2, DoDmaInd DEF mic_dma_prep_memcpy_lock
<1>2. CASE Redo(t)
  <2>1. cl[t].n \in Nat /\ cl[t].flags \in {"none", "fence", "intr"}
    BY DEF TypeOK, ThreadOK
  <2> QED
    BY ZenonT(60), <1>2, <2>1, DoDmaInd DEF Redo
<1> QED
  BY <1>1, <1>2

\* A step that moves a client between points where it neither holds prep_lock
\* nor writes, and changes the engine's mode at most from stopped to running.
LEMMA QuietInd ==
  ASSUME TypeOK, Ind, NEW t \in Clients,
         cl[t].pc \in {"idle", "pending", "posted"},
         \E l \in {"idle", "posted", "poll"} : Goto(t, l),
         hw'.next = hw.next, hw' = hw \/ hw'.mode = "run",
         hw.mode = "abort" => hw' = hw,
         UNCHANGED <<chan, locks, handler, intr, counts, txs>>
  PROVE  Ind'
<1> USE DEF Ind
<1>1. /\ prep_lock \in Clients \cup {Nobody}
      /\ cl \in [Clients -> [pc : Labels, n : Nat,
                             flags : {"none", "fence", "intr"}]]
  BY DEF TypeOK, ThreadOK
<1>2. /\ \A u \in Clients \ {t} : cl'[u] = cl[u]
      /\ cl'[t].pc \in {"idle", "posted", "poll"}
  BY <1>1 DEF Goto
<1>3. prep_lock # t
  BY ZenonT(60) DEF LockInv
<1>4. LockInv'
  BY ZenonT(60), <1>2, <1>3 DEF LockInv, locks
<1>5. Writing' = Writing /\ FencePhase' = FencePhase
  BY <1>1, <1>2, <1>3 DEF Writing, FencePhase, locks
<1>6. SpaceInv'
  BY ZenonT(60), <1>2 DEF SpaceInv, Dist, Used, chan, NumDesc
<1>7. HwInv'
  BY DEF HwInv, Dist, Used, chan, counts
<1>8. WaitInv'
  BY ZenonT(60), <1>2 DEF WaitInv, locks
<1> QED
  BY ZenonT(60), <1>4, <1>5, <1>6, <1>7, <1>8, Frame DEF chan, locks, counts

\* The end of a transaction is a number.
LEMMA TxLast ==
  ASSUME TypeOK
  PROVE  \A c \in 1 .. Len(txs) : txs[c].last \in Nat
<1>1. txs \in Seq(Tx)
  BY DEF TypeOK, HistOK
<1>2. \A c \in 1 .. Len(txs) : txs[c] \in Tx
  BY <1>1
<1> QED
  BY <1>2 DEF Tx

\* Goto moves one client.
LEMMA GotoOne ==
  ASSUME ThreadOK, NEW t \in Clients, NEW l, Goto(t, l)
  PROVE  /\ \A u \in Clients \ {t} : cl'[u] = cl[u]
         /\ cl'[t].pc = l /\ cl'[t].n = cl[t].n /\ cl'[t].flags = cl[t].flags
<1>1. cl \in [Clients -> [pc : Labels, n : Nat,
                          flags : {"none", "fence", "intr"}]]
  BY DEF ThreadOK
<1>2. cl' = [cl EXCEPT ![t] = [cl[t] EXCEPT !.pc = l]]
  BY <1>1 DEF Goto
<1> QED
  BY <1>1, <1>2

\* A descriptor is written at head: the next in order becomes valid.
LEMMA WriteInd ==
  ASSUME TypeOK, Ind, NEW t \in Clients,
         mic_dma_prog_memcpy_desc(t) \/ mic_dma_fence_intr_desc(t)
  PROVE  Ind'
<1> USE DEF Ind
<1>1. /\ head \in Slots /\ last_tail \in Slots /\ hw.next \in Slots
      /\ posted \in Nat /\ done \in Nat /\ tailed \in Nat
      /\ ring \in [Slots -> [valid : BOOLEAN, intr : BOOLEAN, seq : Nat]]
      /\ cl \in [Clients -> [pc : Labels, n : Nat,
                             flags : {"none", "fence", "intr"}]]
  BY ZenonT(60) DEF TypeOK, ChanOK, ThreadOK, EngineOK, HistOK
<1>2. /\ cl[t].pc \in {"prog", "fence"} /\ (cl[t].pc = "prog" => cl[t].n > 0)
      /\ \A u \in Clients \ {t} : cl'[u] = cl[u]
      /\ cl[t].pc = "prog" => cl'[t].pc = "inc"
      /\ cl[t].pc = "fence" => cl'[t].pc = "fence_inc"
      /\ cl'[t].n = cl[t].n /\ cl'[t].flags = cl[t].flags
  <2>1. ThreadOK
    BY DEF TypeOK
  <2>2. CASE mic_dma_prog_memcpy_desc(t)
    BY <2>1, <2>2, GotoOne DEF mic_dma_prog_memcpy_desc
  <2>3. CASE mic_dma_fence_intr_desc(t)
    BY <2>1, <2>3, GotoOne DEF mic_dma_fence_intr_desc
  <2> QED
    BY ZenonT(60), <2>2, <2>3
<1>3. /\ \A i \in Slots \ {head} : ring'[i] = ring[i]
      /\ ring'[head].valid /\ ring'[head].seq = posted + 1
      /\ UNCHANGED <<tx_array, head, last_tail, cookie, completed, locks,
                     handler, engine, hist>>
  BY <1>1 DEF mic_dma_prog_memcpy_desc, mic_dma_fence_intr_desc,
              mic_dma_memcpy_desc
<1>4. prep_lock = t /\ t # Nobody
  BY <1>2, ThreadAssumption DEF LockInv
<1>5. LockInv'
  BY ZenonT(60), <1>2, <1>3, <1>4 DEF LockInv, locks
<1>6. SpaceInv'
  <2>1. \A u \in Clients : NumDesc(cl[u])' = NumDesc(cl[u])
    BY ZenonT(60), <1>2 DEF NumDesc
  <2>2. Dist(head)' = Dist(head)
    BY ZenonT(60), <1>3 DEF Dist, Used
  <2> QED
    BY ZenonT(60), <1>2, <2>1, <2>2 DEF SpaceInv
<1>7. ~Writing /\ Writing' /\ (FencePhase => FencePhase')
  <2>1. prep_lock' = t
    BY ZenonT(60), <1>3, <1>4 DEF locks
  <2> QED
    BY ZenonT(60), <1>2, <1>4, <2>1 DEF Writing, FencePhase
<1>8. Written = posted /\ Written' = posted + 1
  <2>1. posted' = posted
    BY <1>3 DEF hist, counts
  <2> QED
    BY <1>1, <1>7, <2>1 DEF Written
<1>9. CountInv'
  <2>1. Dist(head)' = Dist(head)
    BY ZenonT(60), <1>3 DEF Dist, Used
  <2>2. posted' = posted /\ done' = done /\ tailed' = tailed
    BY <1>3 DEF hist, counts
  <2> QED
    BY <1>1, <1>8, <2>1, <2>2 DEF CountInv
<1>10. RingInv'
  <2> SUFFICES ASSUME NEW i \in Slots
               PROVE  /\ ring'[i].valid <=> /\ done <= tailed + Dist(i)
                                            /\ tailed + Dist(i) < posted + 1
                      /\ ring'[i].valid => ring'[i].seq = tailed + Dist(i) + 1
    BY <1>3, <1>8 DEF RingInv, Dist, Used, hist, counts
  <2>1. Dist(i) \in Slots /\ Dist(head) \in Slots
    BY <1>1, UsedRange DEF Dist
  <2>2. i # head => Dist(i) # Dist(head)
    BY <1>1, UsedInjective DEF Dist
  <2>3. tailed + Dist(head) = posted /\ done <= posted
    BY <1>8 DEF CountInv
  <2>4. CASE i = head
    BY <1>1, <1>3, <2>1, <2>3, <2>4 DEF Slots
  <2>5. CASE i # head
    <3>1. ring'[i] = ring[i]
      BY ZenonT(60), <1>3, <2>5
    <3>2. /\ ring[i].valid <=> /\ done <= tailed + Dist(i)
                               /\ tailed + Dist(i) < posted
          /\ ring[i].valid => ring[i].seq = tailed + Dist(i) + 1
      BY <1>8 DEF RingInv
    <3> QED
      BY <1>1, <2>1, <2>2, <2>3, <2>5, <3>1, <3>2 DEF Slots
  <2> QED
    BY ZenonT(60), <2>4, <2>5
<1>11. HwInv'
  <2>1. ring[hw.next].valid => ring'[hw.next].valid
    BY <1>1, <1>3
  <2> QED
    BY <1>3, <2>1 DEF HwInv, Dist, Used, hist, counts, engine
<1>12. WaitInv'
  BY <1>2, <1>3 DEF WaitInv, locks
<1> QED
  BY ZenonT(60), <1>3, <1>5, <1>6, <1>7, <1>9, <1>10, <1>11, <1>12, Frame
  DEF locks, hist, counts

\* head moves past the descriptor just written.
LEMMA IncInd ==
  ASSUME TypeOK, Ind, NEW t \in Clients, ProgInc(t) \/ FenceInc(t)
  PROVE  Ind'
<1> USE DEF Ind
<1>1. /\ head \in Slots /\ last_tail \in Slots /\ hw.next \in Slots
      /\ clean.head \in Slots
      /\ posted \in Nat /\ done \in Nat /\ tailed \in Nat
      /\ cl \in [Clients -> [pc : Labels, n : Nat,
                             flags : {"none", "fence", "intr"}]]
  BY DEF TypeOK, ChanOK, ThreadOK, EngineOK, HistOK
<1>2. /\ cl[t].pc \in {"inc", "fence_inc"}
      /\ \A u \in Clients \ {t} : cl'[u] = cl[u]
      /\ cl[t].pc = "inc" => /\ cl'[t].pc = "prog" /\ cl'[t].n = cl[t].n - 1
                             /\ cl'[t].flags = cl[t].flags /\ prep_lock' = prep_lock
      /\ cl[t].pc = "fence_inc" => cl'[t].pc = "pending" /\ prep_lock' = Nobody
  BY <1>1 DEF ProgInc, FenceInc, Idle, locks
<1>3. /\ head' = mic_dma_ring_inc(head) /\ posted' = posted + 1
      /\ UNCHANGED <<ring, tx_array, last_tail, cookie, completed, clean,
                     handler, engine, done, tailed, txs>>
  BY DEF ProgInc, FenceInc, mic_dma_inc_head, locks
<1>4. prep_lock = t /\ t # Nobody
  BY ZenonT(60), <1>2, ThreadAssumption DEF LockInv
<1>5. LockInv'
  BY ZenonT(60), <1>2, <1>4, ThreadAssumption DEF LockInv
<1>6. Dist(head) \in Slots /\ Dist(head) + 1 < RX_SIZE
  <2>1. cl[t].pc = "inc" => NumDesc(cl[t]) \in Nat /\ NumDesc(cl[t]) > 0
    BY <1>1 DEF NumDesc, SpaceInv
  <2> QED
    BY <1>1, <1>2, <2>1, UsedRange, SizeAssumption DEF SpaceInv, Dist, Slots
<1>7. Dist(head)' = Dist(head) + 1
  BY <1>1, <1>3, <1>6, UsedInc DEF Dist
<1>8. SpaceInv'
  <2>1. cl[t].pc = "inc" => NumDesc(cl[t])' = NumDesc(cl[t]) - 1
    BY <1>1, <1>2 DEF NumDesc, SpaceInv
  <2>2. NumDesc(cl[t]) \in Nat
    BY <1>1 DEF NumDesc
  <2>3. \A u \in Clients \ {t} :
          cl'[u].pc \notin {"prog", "inc", "fence", "fence_inc"}
    BY ZenonT(60), <1>2, <1>4 DEF LockInv
  <2>4. cl'[t].pc = "prog" => Dist(head)' + NumDesc(cl[t])' < RX_SIZE
    <3>1. cl'[t].pc = "prog" => cl[t].pc = "inc"
      BY ZenonT(60), <1>2
    <3>2. cl[t].pc = "inc" => Dist(head) + NumDesc(cl[t]) < RX_SIZE
      BY ZenonT(60) DEF SpaceInv
    <3>3. Dist(head) \in Nat /\ RX_SIZE \in Nat
      BY <1>6, SizeAssumption DEF Slots
    <3> QED
      BY <1>7, <2>1, <2>2, <3>1, <3>2, <3>3
  <2> QED
    BY ZenonT(60), <1>2, <2>3, <2>4 DEF SpaceInv
<1>9. Writing /\ ~Writing' /\ Written' = Written
  BY <1>1, <1>2, <1>3, <1>4 DEF Writing, Written
<1>10. CountInv'
  BY <1>1, <1>3, <1>6, <1>7, <1>9, SizeAssumption DEF CountInv, Slots
<1>11. RingInv'
  BY <1>3, <1>9 DEF RingInv, Dist, Used
<1>12. HwInv'
  BY ZenonT(60), <1>3 DEF HwInv, Dist, Used, engine
<1>13. CleanInv'
  <2>1. Dist(clean.head) \in Slots
    BY ZenonT(60), <1>1, UsedRange DEF Dist
  <2>2. clean' = clean /\ tailed' = tailed /\ done' = done
        /\ Dist(clean.idx)' = Dist(clean.idx)
        /\ Dist(clean.head)' = Dist(clean.head)
    BY <1>3 DEF Dist, Used
  <2> QED
    BY <1>6, <1>7, <2>1, <2>2, SizeAssumption DEF CleanInv, Slots
<1>14. TxInv'
  <2>1. \A c \in 1 .. Len(txs) : txs[c].last <= posted + 1
    BY <1>1, TxLast DEF TxInv
  <2> QED
    BY <1>3, <2>1 DEF TxInv
<1>15. WaitInv'
  BY <1>2, <1>3 DEF WaitInv
<1> QED
  BY <1>3, <1>5, <1>8, <1>10, <1>11, <1>12, <1>13, <1>14, <1>15, Frame

\* A transaction is added behind the others.
LEMMA AppendTx ==
  ASSUME NEW s \in Seq(Tx), NEW x
  PROVE  /\ Len(Append(s, x)) = Len(s) + 1
         /\ \A d \in 1 .. Len(s) : Append(s, x)[d] = s[d]
         /\ Append(s, x)[Len(s) + 1] = x
OBVIOUS

\* A cookie is assigned: its transaction ends at the descriptor before head,
\* or at the fence that is to be written there.
LEMMA SubmitInd ==
  ASSUME TypeOK, Ind, NEW t \in Clients, mic_dma_tx_submit_unlock(t)
  PROVE  Ind'
<1> USE DEF Ind
<1> DEFINE f == cl[t].flags
           i0 == allocate_tx(t)
           e == IF f = "none" THEN posted ELSE posted + 1
<1>1. /\ head \in Slots /\ last_tail \in Slots /\ cookie \in Nat
      /\ posted \in Nat /\ done \in Nat /\ tailed \in Nat
      /\ tx_array \in [Slots -> [cookie : Nat, cb : BOOLEAN]]
      /\ cl \in [Clients -> [pc : Labels, n : Nat,
                             flags : {"none", "fence", "intr"}]]
  BY ZenonT(60) DEF TypeOK, ChanOK, ThreadOK, HistOK
<1>2. cl[t].pc = "prog" /\ cl[t].n = 0 /\ prep_lock = t /\ t # Nobody
  BY ZenonT(60), ThreadAssumption DEF mic_dma_tx_submit_unlock, LockInv
<1>3. /\ \A u \in Clients \ {t} : cl'[u] = cl[u]
      /\ f = "none" => cl'[t].pc = "pending" /\ prep_lock' = Nobody
      /\ f # "none" => cl'[t].pc = "fence" /\ prep_lock' = t
  <2>1. ThreadOK
    BY DEF TypeOK
  <2> QED
    BY <1>2, <2>1, GotoOne DEF mic_dma_tx_submit_unlock
<1>4. /\ cookie' = cookie + 1
      /\ tx_array'[i0].cookie = cookie + 1
      /\ \A i \in Slots \ {i0} : tx_array'[i] = tx_array[i]
      /\ UNCHANGED <<ring, head, last_tail, completed, clean, handler, engine,
                     counts>>
  <2>1. i0 \in Slots
    BY <1>1, DecRange DEF allocate_tx
  <2> QED
    BY ZenonT(60), <1>1, <2>1 DEF mic_dma_tx_submit_unlock
<1>5. /\ Len(txs') = Len(txs) + 1
      /\ \A d \in 1 .. Len(txs) : txs'[d] = txs[d]
      /\ txs'[Len(txs) + 1].last = e
  <2> DEFINE x == [last |-> e, intr |-> f = "intr", calls |-> 0]
  <2>1. txs' = Append(txs, x)
    BY ZenonT(60) DEF mic_dma_tx_submit_unlock
  <2>2. txs \in Seq(Tx)
    BY DEF TypeOK, HistOK
  <2>3. x.last = e
    OBVIOUS
  <2> HIDE DEF x, e
  <2> QED
    BY <2>1, <2>2, <2>3, AppendTx
<1>6. LockInv' /\ WaitInv'
  BY ZenonT(60), <1>2, <1>3, <1>4, ThreadAssumption DEF LockInv, WaitInv
<1>7. Writing' = Writing /\ ~FencePhase /\ (f # "none" => FencePhase')
  BY ZenonT(60), <1>2, <1>3 DEF Writing, FencePhase
<1>8. SpaceInv'
  <2>1. Dist(head)' = Dist(head)
    BY <1>4 DEF Dist, Used
  <2>2. f # "none" => Dist(head) + 1 < RX_SIZE
    BY <1>1, <1>2 DEF SpaceInv, NumDesc
  <2>3. \A u \in Clients \ {t} :
          cl'[u].pc \notin {"prog", "inc", "fence", "fence_inc"}
    BY <1>2, <1>3 DEF LockInv
  <2> QED
    BY ZenonT(60), <1>3, <2>1, <2>2, <2>3 DEF SpaceInv
<1>9. TxInv'
  <2>1. \A c \in 1 .. Len(txs) : txs[c].last \in Nat /\ txs[c].last <= posted
    BY ZenonT(60), <1>7, TxLast DEF TxInv
  <2>2. posted' = posted /\ completed' = completed /\ cookie' = Len(txs')
    BY ZenonT(60), <1>4, <1>5 DEF counts, TxInv
  <2>3. completed' <= cookie'
    BY <1>1, <1>4, <2>2 DEF TxInv, TypeOK, ChanOK
  <2>4. \A c \in 1 .. Len(txs') :
          c \in 1 .. Len(txs) \/ c = Len(txs) + 1
    BY <1>1, <1>5 DEF TxInv
  <2>5. e \in Nat /\ posted <= e /\ e <= posted + 1
        /\ (e = posted \/ (e = posted + 1 /\ FencePhase'))
    BY <1>1, <1>7
  <2> HIDE DEF e
  <2>6. \A c, d \in 1 .. Len(txs') : c <= d => txs'[c].last <= txs'[d].last
    <3> SUFFICES ASSUME NEW c \in 1 .. Len(txs'), NEW d \in 1 .. Len(txs'), c <= d
                 PROVE  txs'[c].last <= txs'[d].last
      OBVIOUS
    <3>1. CASE d \in 1 .. Len(txs)
      BY <1>5, <2>4, <3>1 DEF TxInv
    <3>2. CASE d = Len(txs) + 1
      BY <1>1, <1>5, <2>1, <2>4, <2>5, <3>2
    <3> QED
      BY <2>4, <3>1, <3>2
  <2>7. \A c \in 1 .. Len(txs') :
          \/ txs'[c].last <= posted
          \/ txs'[c].last = posted + 1 /\ FencePhase'
    <3> SUFFICES ASSUME NEW c \in 1 .. Len(txs')
                 PROVE  \/ txs'[c].last <= posted
                        \/ txs'[c].last = posted + 1 /\ FencePhase'
      OBVIOUS
    <3>1. CASE c \in 1 .. Len(txs)
      BY <1>5, <2>1, <3>1
    <3>2. CASE c = Len(txs) + 1
      <4>1. txs'[c].last = e
        BY <1>5, <3>2
      <4>2. e = posted => txs'[c].last <= posted
        BY <1>1, <4>1
      <4> QED
        BY <2>5, <4>1, <4>2, ZenonT(60)
    <3> QED
      BY <2>4, <3>1, <3>2
  <2> QED
    BY ZenonT(60), <2>2, <2>3, <2>6, <2>7 DEF TxInv
<1>10. CookieInv'
  <2> SUFFICES ASSUME NEW i \in Slots, tx_array'[i].cookie # 0
               PROVE  /\ tx_array'[i].cookie <= cookie'
                      /\ txs'[tx_array'[i].cookie].last <= tailed + Dist(i) + 1
    BY ZenonT(60), <1>4 DEF CookieInv, counts, Dist, Used
  <2>1. CASE i = i0
    <3>1. tx_array'[i].cookie = Len(txs) + 1 /\ cookie' = Len(txs) + 1
      BY ZenonT(60), <1>4, <2>1 DEF TxInv
    <3>2. Dist(head) \in Slots /\ Dist(i) \in Slots
      BY <1>1, UsedRange DEF Dist
    <3>3. e <= tailed + Dist(i) + 1
      <4>1. CASE f = "none"
        <5>1. Dist(i) = IF Dist(head) = 0 THEN RX_SIZE - 1 ELSE Dist(head) - 1
          BY <1>1, <2>1, <4>1, UsedDec DEF Dist, allocate_tx
        <5>2. e = tailed + Dist(head)
          BY <4>1 DEF CountInv
        <5>3. Dist(head) \in Nat /\ Dist(i) \in Nat /\ Dist(head) <= Dist(i) + 1
          BY <3>2, <5>1, SizeAssumption DEF Slots
        <5> HIDE DEF e
        <5> QED
          BY <1>1, <5>2, <5>3
      <4>2. CASE f # "none"
        BY <1>1, <2>1, <3>2, <4>2, SizeAssumption DEF CountInv, allocate_tx, Slots
      <4> QED
        BY ZenonT(60), <4>1, <4>2
    <3> QED
      BY <1>1, <1>4, <1>5, <3>1, <3>3
  <2>2. CASE i # i0
    <3>1. tx_array'[i] = tx_array[i] /\ tx_array[i].cookie \in 1 .. Len(txs)
      BY <1>1, <1>4, <2>2 DEF CookieInv, TxInv
    <3> QED
      BY <1>1, <1>4, <1>5, <3>1 DEF CookieInv, TxInv
  <2> QED
    BY <2>1, <2>2
<1>11. CompletedMoved'
  <2>1. completed' = completed /\ done' = done
    BY ZenonT(60), <1>4 DEF counts
  <2>2. \A c \in 1 .. Len(txs') : c <= completed => c \in 1 .. Len(txs)
    BY <1>1 DEF TxInv, TypeOK, ChanOK
  <2> QED
    BY ZenonT(60), <1>5, <2>1, <2>2 DEF CompletedMoved
<1> QED
  BY ZenonT(60), <1>4, <1>6, <1>7, <1>8, <1>9, <1>10, <1>11, Frame DEF counts

\* Cleanup starts at last_tail.
LEMMA BeginInd ==
  ASSUME TypeOK, Ind, NEW p \in Threads, CleanupBegin(p)
  PROVE  Ind'
<1> USE DEF Ind
<1>1. /\ head \in Slots /\ last_tail \in Slots
      /\ posted \in Nat /\ done \in Nat /\ tailed \in Nat
  BY DEF TypeOK, ChanOK, HistOK
<1>2. /\ clean' = [by |-> p, head |-> head, idx |-> last_tail, n |-> tailed]
      /\ UNCHANGED <<chan, prep_lock, cl, handler, engine, hist>>
  BY DEF CleanupBegin
<1>3. CleanInv'
  <2>1. Dist(head) \in Slots /\ Dist(last_tail) = 0
    BY <1>1, UsedRange DEF Dist, Used, Slots
  <2>2. /\ Dist(clean.idx)' = 0 /\ Dist(clean.head)' = Dist(head)
        /\ Dist(head)' = Dist(head)
        /\ clean'.n = tailed /\ tailed' = tailed /\ done' = done
    BY ZenonT(60), <1>2, <2>1 DEF Dist, Used, chan, hist, counts
  <2> QED
    BY <1>1, <2>1, <2>2, SizeAssumption DEF CleanInv, CountInv, Slots
<1>4. WaitInv'
  BY <1>2, ThreadAssumption DEF WaitInv, CleanupBegin, Wants
<1> QED
  BY <1>2, <1>3, <1>4, Frame DEF chan, hist, counts

\* Cleanup passes a descriptor before head that is not valid: it is moved, and
\* with it all the transactions up to the cookie found there.
LEMMA StepInd ==
  ASSUME TypeOK, Ind, CleanupStep
  PROVE  Ind'
<1> USE DEF Ind
<1> DEFINE i == clean.idx
           c == tx_array[i].cookie
<1>1. /\ head \in Slots /\ last_tail \in Slots
      /\ i \in Slots /\ clean.head \in Slots /\ clean.n \in Nat
      /\ posted \in Nat /\ done \in Nat /\ tailed \in Nat
      /\ ring \in [Slots -> [valid : BOOLEAN, intr : BOOLEAN, seq : Nat]]
      /\ tx_array \in [Slots -> [cookie : Nat, cb : BOOLEAN]]
      /\ cookie \in Nat
  BY ZenonT(60) DEF TypeOK, ChanOK, ThreadOK, HistOK
<1>2. /\ clean.by # Nobody /\ i # clean.head /\ ~ring[i].valid
      /\ clean' = [by |-> clean.by, head |-> clean.head,
                   idx |-> mic_dma_ring_inc(i), n |-> clean.n + 1]
      /\ UNCHANGED <<ring, head, last_tail, cookie, prep_lock, cl, handler,
                     engine, counts>>
  BY ZenonT(60) DEF CleanupStep
<1>3. /\ Dist(i) \in Slots /\ Dist(clean.head) \in Slots /\ Dist(head) \in Slots
      /\ Dist(i) < Dist(clean.head) /\ Dist(clean.head) <= Dist(head)
      /\ tailed + Dist(i) = clean.n
  <2>1. Dist(i) \in Slots /\ Dist(clean.head) \in Slots /\ Dist(head) \in Slots
    BY <1>1, UsedRange DEF Dist
  <2>2. Dist(i) # Dist(clean.head)
    BY ZenonT(60), <1>1, <1>2, UsedInjective DEF Dist
  <2> QED
    BY <1>2, <2>1, <2>2 DEF CleanInv, Slots
<1>4. clean.n \in Nat /\ posted \in Nat /\ done \in Nat /\ tailed \in Nat
  BY <1>1
<1>5. /\ Dist(i) \in Nat /\ Dist(clean.head) \in Nat /\ Dist(head) \in Nat
       /\ Dist(i) < Dist(clean.head) /\ Dist(clean.head) <= Dist(head)
       /\ tailed + Dist(i) = clean.n
  BY <1>3 DEF Slots
<1>6. clean.n + 1 <= done
  <2>1. posted <= Written
    BY <1>1 DEF Written
  <2>2. clean.n < posted
    <3>1. tailed + Dist(head) = posted
      BY DEF CountInv
    <3> QED
      BY <1>4, <1>5, <3>1
  <2>3. Written \in Nat
    BY <1>1 DEF Written
  <2>4. ~(done <= tailed + Dist(i) /\ tailed + Dist(i) < Written)
    BY ZenonT(60), <1>1, <1>2 DEF RingInv
  <2> QED
    BY <1>4, <1>5, <2>1, <2>2, <2>3, <2>4
<1>7. CleanInv'
  <2>1. Dist(i) + 1 < RX_SIZE
    BY <1>3, SizeAssumption DEF Slots
  <2>2. Dist(mic_dma_ring_inc(i)) = Dist(i) + 1
    BY <1>1, <2>1, UsedInc DEF Dist
  <2>3. /\ Dist(clean.idx)' = Dist(i) + 1
        /\ Dist(clean.head)' = Dist(clean.head) /\ Dist(head)' = Dist(head)
        /\ clean'.n = clean.n + 1 /\ tailed' = tailed /\ done' = done
    BY ZenonT(60), <1>2, <2>2 DEF Dist, Used, counts
  <2> QED
    BY <1>6, <1>4, <1>5, <2>3 DEF CleanInv
<1>8. WaitInv'
  BY ZenonT(60), <1>2 DEF WaitInv
<1>9. CASE c = 0
  <2>1. UNCHANGED <<completed, tx_array, txs>>
    BY <1>9 DEF CleanupStep, Complete
  <2> QED
    BY <1>2, <1>7, <1>8, <2>1, Frame DEF counts
<1>10. CASE c # 0
  <2>1. c \in 1 .. Len(txs) /\ txs[c].last <= done /\ c <= cookie
    <3>1. c \in 1 .. Len(txs) /\ txs[c].last <= tailed + Dist(i) + 1
      BY <1>1, <1>10 DEF CookieInv, TxInv
    <3>2. txs[c].last \in Nat
      BY ZenonT(60), <3>1, TxLast
    <3>3. txs[c].last <= done
      <4> HIDE DEF c
      <4> QED
        BY <1>6, <1>4, <1>5, <3>1, <3>2
    <3> QED
      BY <3>1, <3>3 DEF TxInv
  <2>2. /\ completed' = c
        /\ tx_array' = [tx_array EXCEPT ![i] = [cookie |-> 0, cb |-> FALSE]]
    BY <1>10 DEF CleanupStep, Complete
  <2>3. Len(txs') = Len(txs) /\ \A d \in 1 .. Len(txs) : txs'[d].last = txs[d].last
    <3>1. txs' = txs \/ txs' = Called(txs, c)
      BY <1>10 DEF CleanupStep, Complete, Called
    <3>2. txs \in Seq(Tx)
      BY DEF TypeOK, HistOK
    <3>3. CASE txs' = txs
      BY <3>3
    <3>4. CASE txs' = Called(txs, c)
      <4>1. c \in 1 .. Len(txs)
        BY <2>1
      <4> HIDE DEF c
      <4> QED
        BY <3>2, <3>4, <4>1, CallTyped
    <3> QED
      BY <3>1, <3>3, <3>4
  <2>4. TxInv'
    <3>1. posted' = posted /\ cookie' = cookie /\ FencePhase' = FencePhase
      BY ZenonT(60), <1>2 DEF counts, FencePhase
    <3>2. completed' <= cookie' /\ cookie' = Len(txs')
      BY ZenonT(60), <2>1, <2>2, <2>3, <3>1 DEF TxInv
    <3>3. \A a, d \in 1 .. Len(txs') : a <= d => txs'[a].last <= txs'[d].last
      BY ZenonT(60), <2>3 DEF TxInv
    <3>4. \A d \in 1 .. Len(txs') :
            \/ txs'[d].last <= posted'
            \/ txs'[d].last = posted' + 1 /\ FencePhase'
      BY <2>3, <3>1 DEF TxInv
    <3> QED
      BY <3>2, <3>3, <3>4 DEF TxInv
  <2>5. CookieInv'
    <3> SUFFICES ASSUME NEW j \in Slots, tx_array'[j].cookie # 0
                 PROVE  /\ tx_array'[j].cookie <= cookie
                        /\ txs'[tx_array'[j].cookie].last <= tailed + Dist(j) + 1
      BY ZenonT(60), <1>2 DEF CookieInv, counts, Dist, Used
    <3>1. tx_array'[j] = tx_array[j]
      BY ZenonT(60), <1>1, <2>2
    <3>2. tx_array[j].cookie \in 1 .. Len(txs)
      BY <1>1, <3>1 DEF CookieInv, TxInv
    <3> QED
      BY <2>3, <3>1, <3>2 DEF CookieInv
  <2>6. CompletedMoved'
    <3> SUFFICES ASSUME NEW d \in 1 .. Len(txs'), d <= c
                 PROVE  txs'[d].last <= done
      BY ZenonT(60), <1>2, <2>2 DEF CompletedMoved, counts
    <3>1. d \in 1 .. Len(txs) /\ txs[d].last <= txs[c].last
      BY ZenonT(60), <2>1, <2>3 DEF TxInv
    <3>2. txs[d].last \in Nat /\ txs[c].last \in Nat
      BY ZenonT(60), <2>1, <3>1, TxLast
    <3>3. txs[c].last <= done /\ txs'[d].last = txs[d].last
      BY ZenonT(60), <2>1, <2>3, <3>1
    <3> HIDE DEF c
    <3> QED
      BY <1>4, <3>1, <3>2, <3>3
  <2> QED
    BY ZenonT(60), <1>2, <1>7, <1>8, <2>4, <2>5, <2>6, Frame DEF counts
<1> QED
  BY ZenonT(60), <1>9, <1>10

\* last_tail moves to where the cleanup stopped.
LEMMA EndInd ==
  ASSUME TypeOK, Ind, CleanupEnd
  PROVE  Ind'
<1> USE DEF Ind
<1> DEFINE u == clean.idx
<1>1. /\ head \in Slots /\ last_tail \in Slots /\ u \in Slots
      /\ hw.next \in Slots /\ clean.head \in Slots
  BY DEF TypeOK, ChanOK, ThreadOK, EngineOK
<1>2. posted \in Nat /\ done \in Nat /\ tailed \in Nat
  BY DEF TypeOK, HistOK
<1>3. /\ clean.by # Nobody /\ last_tail' = u /\ tailed' = clean.n
      /\ clean'.by = Nobody
      /\ UNCHANGED <<ring, tx_array, head, cookie, completed, prep_lock,
                     handler, engine, posted, done, txs>>
  BY DEF CleanupEnd, Unlocked
<1>4. /\ \A t \in Clients : t # clean.by => cl'[t] = cl[t]
      /\ \A t \in Clients : t = clean.by =>
           \/ cl[t].pc = "clean" /\ cl'[t].pc = "redo"
           \/ cl[t].pc = "sleep" /\ cl'[t].pc = "lock"
           \/ cl[t].pc = "poll" /\ cl'[t].pc = "idle"
  <2>1. cl \in [Clients -> [pc : Labels, n : Nat,
                            flags : {"none", "fence", "intr"}]]
    BY DEF TypeOK, ThreadOK
  <2> QED
    BY <2>1, ThreadAssumption DEF CleanupEnd, AfterCleanup, WaitInv
<1>5. LockInv' /\ WaitInv'
  BY ZenonT(60), <1>3, <1>4, ThreadAssumption DEF LockInv, WaitInv
<1>6. Writing' = Writing /\ FencePhase' = FencePhase
  <2>1. prep_lock \in Clients \cup {Nobody}
    BY DEF TypeOK, ThreadOK
  <2> QED
    BY <1>3, <1>4, <2>1 DEF Writing, FencePhase
<1>7. /\ Dist(u) \in Nat /\ Dist(head) \in Nat /\ Dist(u) <= Dist(head)
      /\ Dist(head) < RX_SIZE
      /\ tailed' = tailed + Dist(u) /\ tailed' <= done /\ tailed' \in Nat
  <2>1. Dist(u) \in Slots /\ Dist(head) \in Slots /\ Dist(clean.head) \in Slots
    BY ZenonT(60), <1>1, UsedRange DEF Dist
  <2>2. Dist(u) <= Dist(clean.head) /\ Dist(clean.head) <= Dist(head)
        /\ tailed + Dist(u) = clean.n /\ clean.n <= done
    BY ZenonT(60), <1>3 DEF CleanInv
  <2> QED
    BY <1>2, <1>3, <2>1, <2>2, SizeAssumption DEF Slots
<1>8. ASSUME NEW i \in Slots
      PROVE  /\ Dist(i) \in Nat /\ Dist(i)' \in Nat
             /\ Dist(i) >= Dist(u) => tailed' + Dist(i)' = tailed + Dist(i)
             /\ Dist(i) < Dist(u) =>
                  tailed' + Dist(i)' = tailed + Dist(i) + RX_SIZE
  <2>1. Dist(i) \in Slots /\ Used(i, u) \in Slots
    BY <1>1, UsedRange DEF Dist
  <2>2. Used(i, u) = IF Dist(i) >= Dist(u)
                       THEN Dist(i) - Dist(u)
                       ELSE (Dist(i) + RX_SIZE) - Dist(u)
    BY ZenonT(60), <1>1, UsedShift DEF Dist
  <2>3. Dist(i)' = Used(i, u)
    BY <1>3 DEF Dist, Used
  <2> QED
    BY <1>2, <1>7, <2>1, <2>2, <2>3, SizeAssumption DEF Slots
<1>9. tailed' + Dist(head)' = tailed + Dist(head) /\ Dist(head)' \in Nat
  <2>1. Dist(head) >= Dist(u)
    BY <1>7
  <2> QED
    BY ZenonT(60), <1>1, <1>3, <1>8, <2>1 DEF Dist, Used
<1>10. SpaceInv'
  <2>1. Dist(head)' <= Dist(head)
    BY <1>2, <1>7, <1>9
  <2>2. \A t \in Clients : cl'[t].pc \in {"prog", "inc", "fence", "fence_inc"}
                             => cl'[t] = cl[t]
    BY ZenonT(60), <1>4
  <2>3. \A t \in Clients : NumDesc(cl[t]) \in Nat
    BY DEF TypeOK, ThreadOK, NumDesc
  <2>4. \A t \in Clients : cl'[t] = cl[t] => NumDesc(cl[t])' = NumDesc(cl[t])
    BY DEF NumDesc
  <2> QED
    BY <1>7, <1>9, <2>1, <2>2, <2>3, <2>4, SizeAssumption DEF SpaceInv
<1>11. Written' = Written
  BY <1>3, <1>6 DEF Written
<1>12. CountInv'
  BY ZenonT(60), <1>3, <1>7, <1>9, <1>11 DEF CountInv
<1>13. RingInv'
  <2> SUFFICES ASSUME NEW i \in Slots
               PROVE  /\ ring[i].valid <=> /\ done <= tailed' + Dist(i)'
                                           /\ tailed' + Dist(i)' < Written
                      /\ ring[i].valid => ring[i].seq = tailed' + Dist(i)' + 1
    BY ZenonT(60), <1>3, <1>11 DEF RingInv
  <2>1. CASE Dist(i) >= Dist(u)
    BY ZenonT(60), <1>8, <2>1 DEF RingInv
  <2>2. CASE Dist(i) < Dist(u)
    <3>1. Written <= posted + 1 /\ Written \in Nat
      BY <1>2 DEF Written
    <3>2. tailed + Dist(head) = posted
      BY DEF CountInv
    <3>3. ~(done <= tailed + Dist(i))
      BY <1>2, <1>7, <1>8, <2>2
    <3>4. ~(tailed' + Dist(i)' < Written)
      BY <1>2, <1>7, <1>8, <2>2, <3>1, <3>2, SizeAssumption
    <3> QED
      BY <3>3, <3>4 DEF RingInv
  <2> QED
    BY <1>7, <1>8, <2>1, <2>2
<1>14. HwInv'
  <2>1. Dist(hw.next) >= Dist(u)
    BY <1>1, <1>2, <1>7, <1>8 DEF HwInv
  <2>2. tailed' + Dist(hw.next)' = done
    BY ZenonT(60), <1>1, <1>3, <1>8, <2>1 DEF HwInv, Dist, Used, engine
  <2> QED
    BY ZenonT(60), <1>3, <2>2 DEF HwInv, engine
<1>15. CleanInv'
  BY ZenonT(60), <1>3 DEF CleanInv
<1>16. CookieInv'
  <2> SUFFICES ASSUME NEW i \in Slots, tx_array[i].cookie # 0
               PROVE  /\ tx_array[i].cookie <= cookie
                      /\ txs[tx_array[i].cookie].last <= tailed' + Dist(i)' + 1
    BY ZenonT(60), <1>3 DEF CookieInv
  <2>1. tailed + Dist(i) <= tailed' + Dist(i)'
    BY <1>2, <1>7, <1>8, SizeAssumption
  <2>2. /\ tx_array[i].cookie <= cookie
        /\ txs[tx_array[i].cookie].last <= tailed + Dist(i) + 1
    BY DEF CookieInv
  <2>3. txs[tx_array[i].cookie].last \in Nat
    <3>1. tx_array[i].cookie \in 1 .. Len(txs)
      BY <2>2 DEF TxInv, TypeOK, ChanOK
    <3> QED
      BY <3>1, TxLast
  <2> QED
    BY <1>2, <1>7, <1>8, <2>1, <2>2, <2>3
<1> QED
  BY ZenonT(60), <1>3, <1>5, <1>6, <1>10, <1>12, <1>13, <1>14, <1>15, <1>16, Frame

\* The interrupt handler; recovery leaves NEXT at the descriptor that failed.
LEMMA HandlerInd ==
  ASSUME TypeOK, Ind, Handler
  PROVE  Ind'
<1> USE DEF Ind
<1>1. handler \in [on : BOOLEAN, reg : SUBSET {"invld", "done", "abort"}]
      /\ hw \in [next : Slots, last : Slots,
                 mode : {"run", "xfer", "inv", "stop", "abort"}]
  BY DEF TypeOK, ThreadOK, EngineOK
<1>2. UNCHANGED <<chan, locks, cl, counts, txs>>
  BY DEF Handler, mic_dma_ack_interrupt, mic_dma_invld_desc_interrupt,
         mic_dma_abort_interrupt, HandlerReturn, hist
<1>3. HwInv'
  <2>1. Dist(hw.next)' = Used(hw'.next, last_tail) /\ ring' = ring
        /\ tailed' = tailed /\ done' = done
    BY <1>2 DEF Dist, Used, chan, counts
  <2>2. CASE mic_dma_ack_interrupt
    BY ZenonT(60), <2>1, <2>2 DEF HwInv, mic_dma_ack_interrupt, Dist
  <2>3. CASE mic_dma_invld_desc_interrupt
    <3>1. hw' = hw \/ (hw.mode = "stop" /\ hw'.mode = "run" /\ hw'.next = hw.next)
      BY <1>1, <2>3 DEF mic_dma_invld_desc_interrupt, ClearInvld
    <3>2. handler'.reg = handler.reg \ {"invld"} /\ intr' = intr
      BY <1>1, <2>3 DEF mic_dma_invld_desc_interrupt, Served
    <3> QED
      BY ZenonT(60), <2>1, <3>1, <3>2 DEF HwInv, Dist
  <2>4. CASE mic_dma_abort_interrupt
    <3>1. FirstValid = hw.next /\ "abort" \in handler.reg /\ hw.mode = "abort"
      BY <2>4, FirstValidNext DEF HwInv, mic_dma_abort_interrupt
    <3>2. hw'.next = hw.next /\ hw'.mode \in {"run", "abort"}
      BY ZenonT(60), <1>1, <2>4, <3>1 DEF mic_dma_abort_interrupt
    <3>3. handler'.reg = handler.reg \ {"abort"} /\ intr' = intr
      BY <1>1, <2>4 DEF mic_dma_abort_interrupt, Served
    <3> QED
      BY ZenonT(60), <2>1, <3>1, <3>2, <3>3 DEF HwInv, Dist
  <2>5. CASE HandlerReturn
    BY ZenonT(60), <2>1, <2>5 DEF HwInv, HandlerReturn, engine, Dist
  <2> QED
    BY <2>2, <2>3, <2>4, <2>5 DEF Handler
<1> QED
  BY <1>2, <1>3, Frame DEF chan, locks, counts

\* A descriptor has been moved.
LEMMA DoneInd ==
  ASSUME TypeOK, Ind, HwDone
  PROVE  Ind'
<1> USE DEF Ind
<1> DEFINE n == hw.next
<1>1. /\ head \in Slots /\ last_tail \in Slots /\ n \in Slots
      /\ ring \in [Slots -> [valid : BOOLEAN, intr : BOOLEAN, seq : Nat]]
      /\ clean.n \in Nat
  BY DEF TypeOK, ChanOK, EngineOK, ThreadOK
<1>2. posted \in Nat /\ done \in Nat /\ tailed \in Nat
  BY DEF TypeOK, HistOK
<1>3. /\ hw.mode = "xfer" /\ hw'.next = mic_dma_ring_inc(n) /\ hw'.mode = "run"
      /\ ring' = [ring EXCEPT ![n] = Empty] /\ done' = done + 1
      /\ intr' = intr \/ intr' = intr \cup {"done"}
      /\ UNCHANGED <<tx_array, head, last_tail, cookie, completed, locks, cl,
                     handler, posted, tailed, txs>>
  BY ZenonT(60) DEF HwDone
<1>4. Writing' = Writing /\ FencePhase' = FencePhase /\ Written' = Written
  BY ZenonT(60), <1>3 DEF Writing, FencePhase, Written, locks
<1>5. \A i \in Slots : Dist(i) \in Nat /\ Dist(i) < RX_SIZE /\ Dist(i)' = Dist(i)
  <2>1. \A i \in Slots : Dist(i) \in Slots
    BY <1>1, UsedRange DEF Dist
  <2> QED
    BY <1>3, <2>1, SizeAssumption DEF Slots, Dist, Used
<1>6. /\ tailed + Dist(n) = done /\ done < Written /\ Written \in Nat
      /\ tailed + Dist(head) = posted
  <2>1. ring[n].valid /\ tailed + Dist(n) = done
    BY ZenonT(60), <1>3 DEF HwInv
  <2> QED
    BY <1>1, <1>2, <2>1 DEF RingInv, CountInv, Written
<1>7. Dist(n) + 1 < RX_SIZE
  <2>1. CASE Writing
    <3>1. PICK t \in Clients : prep_lock = t /\ cl[t].pc \in {"inc", "fence_inc"}
      BY <2>1 DEF Writing, TypeOK, ThreadOK
    <3>2. cl[t].pc = "inc" => NumDesc(cl[t]) \in Nat /\ NumDesc(cl[t]) > 0
      BY DEF TypeOK, ThreadOK, NumDesc, SpaceInv
    <3>3. Dist(head) + 1 < RX_SIZE
      BY <1>1, <1>5, <3>1, <3>2, SizeAssumption DEF SpaceInv
    <3> QED
      BY <1>1, <1>2, <1>5, <1>6, <2>1, <3>3, SizeAssumption DEF Written
  <2>2. CASE ~Writing
    BY <1>1, <1>2, <1>5, <1>6, <2>2, SizeAssumption DEF Written
  <2> QED
    BY <2>1, <2>2
<1>8. LockInv' /\ SpaceInv' /\ WaitInv' /\ TxInv' /\ CookieInv'
  BY ZenonT(60), <1>3, <1>4, Frame DEF locks
<1>9. CountInv'
  BY <1>1, <1>2, <1>3, <1>4, <1>5, <1>6 DEF CountInv
<1>10. RingInv'
  <2> SUFFICES ASSUME NEW i \in Slots
               PROVE  /\ ring'[i].valid <=> /\ done + 1 <= tailed + Dist(i)
                                            /\ tailed + Dist(i) < Written
                      /\ ring'[i].valid => ring'[i].seq = tailed + Dist(i) + 1
    BY <1>3, <1>4, <1>5 DEF RingInv
  <2>1. CASE i = n
    <3>1. ~ring'[i].valid
      BY <1>1, <1>3, <2>1 DEF Empty
    <3> QED
      BY <1>1, <1>2, <1>5, <1>6, <2>1, <3>1
  <2>2. CASE i # n
    <3>1. ring'[i] = ring[i]
      BY <1>1, <1>3, <2>2
    <3>2. Dist(i) # Dist(n)
      BY <1>1, <2>2, UsedInjective DEF Dist
    <3>3. (done <= tailed + Dist(i)) <=> (done + 1 <= tailed + Dist(i))
      BY <1>1, <1>2, <1>5, <1>6, <3>2
    <3> QED
      BY ZenonT(60), <3>1, <3>3 DEF RingInv
  <2> QED
    BY ZenonT(60), <2>1, <2>2
<1>11. HwInv'
  <2>1. Used(mic_dma_ring_inc(n), last_tail) = Dist(n) + 1
    BY <1>1, <1>7, UsedInc DEF Dist
  <2>2. Dist(hw.next)' = Dist(n) + 1
    BY <1>3, <2>1 DEF Dist, Used
  <2>3. tailed' + Dist(hw.next)' = done'
    BY <1>1, <1>2, <1>3, <1>5, <1>6, <2>2
  <2> QED
    BY ZenonT(60), <1>3, <2>3 DEF HwInv
<1>12. CleanInv'
  <2>1. /\ clean' = clean /\ tailed' = tailed
        /\ Dist(clean.idx)' = Dist(clean.idx)
        /\ Dist(clean.head)' = Dist(clean.head) /\ Dist(head)' = Dist(head)
    BY <1>3 DEF locks, Dist, Used
  <2> QED
    BY <1>1, <1>2, <1>3, <2>1 DEF CleanInv
<1>13. CompletedMoved'
  BY <1>2, <1>3, TxLast DEF CompletedMoved
<1> QED
  BY <1>8, <1>9, <1>10, <1>11, <1>12, <1>13

\* The steps of the engine that move nothing.
LEMMA EngineInd ==
  ASSUME TypeOK, Ind, HwFetch \/ HwInvld \/ HwAbort
  PROVE  Ind'
<1> USE DEF Ind
<1>1. /\ hw \in [next : Slots, last : Slots,
                 mode : {"run", "xfer", "inv", "stop", "abort"}]
  BY DEF TypeOK, EngineOK
<1>2. UNCHANGED <<chan, locks, cl, handler, counts, txs>>
  BY DEF HwFetch, HwInvld, HwAbort, hist
<1>3. HwInv'
  <2>1. ring' = ring /\ tailed' = tailed /\ done' = done
    BY <1>2 DEF chan, counts
  <2>2. hw'.next = hw.next /\ Dist(hw.next)' = Dist(hw.next)
    BY <1>1, <1>2 DEF HwFetch, HwInvld, HwAbort, Dist, Used, chan
  <2>3. CASE HwFetch
    BY <1>1, <2>1, <2>2, <2>3 DEF HwInv, HwFetch
  <2>4. CASE HwInvld
    BY <1>1, <2>1, <2>2, <2>4 DEF HwInv, HwInvld
  <2>5. CASE HwAbort
    BY <1>1, <2>1, <2>2, <2>5 DEF HwInv, HwAbort
  <2> QED
    BY <2>3, <2>4, <2>5
<1> QED
  BY <1>2, <1>3, Frame DEF chan, locks, counts

\* The steps of a client that call issue_pending or poll.
LEMMA IssueInd ==
  ASSUME TypeOK, Ind, NEW t \in Clients,
         mic_dma_tx_status(t) \/ mic_dma_update_pending(t) \/ Issue(t)
  PROVE  Ind'
<1>1. hw \in [next : Slots, last : Slots,
              mode : {"run", "xfer", "inv", "stop", "abort"}]
  BY DEF TypeOK, EngineOK
<1>2. CASE mic_dma_tx_status(t)
  <2>1. /\ cl[t].pc = "idle" /\ Goto(t, "poll") /\ hw' = hw
        /\ UNCHANGED <<chan, locks, handler, intr, counts, txs>>
    BY ZenonT(60), <1>2 DEF mic_dma_tx_status, engine, hist
  <2> QED
    BY ZenonT(60), <2>1, QuietInd
<1>3. CASE mic_dma_update_pending(t) \/ Issue(t)
  <2>1. /\ cl[t].pc \in {"pending", "posted"}
        /\ \E l \in {"idle", "posted"} : Goto(t, l)
        /\ UNCHANGED <<chan, locks, handler, intr, counts, txs>>
    BY ZenonT(60), <1>3 DEF mic_dma_update_pending, Issue
  <2>2. hw' = hw \/ (hw.mode = "stop" /\ hw'.mode = "run" /\ hw'.next = hw.next)
    BY <1>1, <1>3 DEF mic_dma_update_pending, Issue, mic_dma_issue_pending,
                      ClearInvld
  <2> QED
    BY <2>1, <2>2, QuietInd
<1> QED
  BY <1>2, <1>3

\* Every step keeps the type and the invariant.
LEMMA NextInd ==
  ASSUME TypeOK, Ind, [Next]_vars
  PROVE  TypeOK' /\ Ind'
<1>1. TxInv /\ CookieInv /\ CountInv /\ RingInv /\ HwInv
  BY DEF Ind
<1>2. CASE \E t \in Clients : mic_dma_prep_memcpy_lock(t)
                              \/ mic_dma_tx_status(t) \/ Client(t)
  <2>1. PICK t \in Clients : mic_dma_prep_memcpy_lock(t)
                             \/ mic_dma_tx_status(t) \/ Client(t)
    BY <1>2
  <2>2. TypeOK'
    BY <2>1, ClientTyped
  <2>3. Ind'
    BY <2>1, PrepInd, WriteInd, IncInd, SubmitInd, IssueInd DEF Client
  <2> QED
    BY <2>2, <2>3
<1>3. CASE Cleanup \/ \E p \in Threads : CleanupBegin(p)
  <2>1. TypeOK'
    BY <1>1, <1>3, CleanupTyped
  <2>2. Ind'
    BY <1>3, BeginInd, StepInd, EndInd DEF Cleanup
  <2> QED
    BY <2>1, <2>2
<1>4. CASE Handler
  BY <1>1, <1>4, HandlerTyped, HandlerInd
<1>5. CASE Engine \/ HwAbort
  BY <1>5, EngineTyped, EngineInd, DoneInd DEF Engine
<1>6. CASE UNCHANGED vars
  <2>1. /\ UNCHANGED <<ring, tx_array, head, last_tail, cookie, completed,
                       prep_lock, clean, cl, handler, engine, counts, txs>>
        /\ UNCHANGED <<posted, done, tailed>>
    BY <1>6 DEF vars, engine, counts
  <2>2. TypeOK'
    <3>1. ChanOK' /\ ThreadOK'
      BY ZenonT(60), <1>6 DEF vars, TypeOK, ChanOK, ThreadOK
    <3>2. EngineOK'
      BY <1>6 DEF vars, TypeOK, EngineOK
    <3>3. HistOK'
      BY <1>6 DEF vars, TypeOK, HistOK
    <3> QED
      BY <3>1, <3>2, <3>3 DEF TypeOK
  <2>3. Ind'
    <3>1. /\ LockInv' /\ SpaceInv' /\ HwInv' /\ CleanInv' /\ WaitInv'
          /\ CookieInv' /\ CompletedMoved'
          /\ Writing' = Writing /\ FencePhase' = FencePhase
      BY ZenonT(60), <2>1, Frame
    <3>2. CountInv' /\ RingInv' /\ TxInv'
      BY ZenonT(60), <2>1, <3>1, Frame
    <3> QED
      BY <3>1, <3>2 DEF Ind
  <2> QED
    BY <2>2, <2>3
<1> QED
  BY <1>2, <1>3, <1>4, <1>5, <1>6 DEF Next

-----------------------------------------------------------------------------
(* Theorems *)

\* The type and the invariant hold of every reachable state of the driver.
THEOREM Invariance == Spec => [](TypeOK /\ Ind)
<1>1. Init => TypeOK /\ Ind
  BY InitTyped, InitInd
<1>2. (TypeOK /\ Ind) /\ [Next]_vars => (TypeOK /\ Ind)'
  BY NextInd
<1> QED
  BY <1>1, <1>2, PTL DEF Spec

\* Head, last_tail and the NEXT register stay in the ring, and every cookie in
\* tx_array has a transaction.
THEOREM TypeCorrect == Spec => []TypeOK
<1>1. TypeOK /\ Ind => TypeOK
  OBVIOUS
<1> QED
  BY <1>1, Invariance, PTL

\* No descriptor that the engine has still to move, or whose completion
\* cleanup has still to see, is overwritten, for any ring size and requests.
THEOREM SlotsFree == Spec => []SlotFree
<1>1. TypeOK /\ Ind => SlotFree
  <2> SUFFICES ASSUME TypeOK, Ind, NEW t \in Clients,
                      (cl[t].pc = "prog" /\ cl[t].n > 0) \/ cl[t].pc = "fence"
               PROVE  ~ring[head].valid /\ mic_dma_ring_inc(head) # last_tail
    BY ZenonT(60) DEF SlotFree
  <2>1. /\ head \in Slots /\ last_tail \in Slots
        /\ posted \in Nat /\ done \in Nat /\ tailed \in Nat
        /\ ring \in [Slots -> [valid : BOOLEAN, intr : BOOLEAN, seq : Nat]]
    BY DEF TypeOK, ChanOK, HistOK
  <2>2. prep_lock = t /\ Written = posted
    BY <2>1 DEF Ind, LockInv, Written, Writing
  <2>3. Dist(head) \in Slots /\ Dist(head) + 1 < RX_SIZE
    <3>1. cl[t].pc = "prog" => NumDesc(cl[t]) \in Nat /\ NumDesc(cl[t]) > 0
      BY DEF TypeOK, ThreadOK, NumDesc
    <3>2. Dist(head) \in Nat /\ Dist(head) \in Slots
      BY <2>1, UsedRange DEF Dist, Slots
    <3>3. cl[t].pc = "prog" => Dist(head) + NumDesc(cl[t]) < RX_SIZE
      BY DEF Ind, SpaceInv
    <3>4. cl[t].pc = "fence" => Dist(head) + 1 < RX_SIZE
      BY DEF Ind, SpaceInv
    <3> QED
      BY <3>1, <3>2, <3>3, <3>4, SizeAssumption
  <2>4. ~ring[head].valid
    BY <2>1, <2>2 DEF Ind, RingInv, CountInv
  <2>5. Used(mic_dma_ring_inc(head), last_tail) = Dist(head) + 1
    BY <2>1, <2>3, UsedInc DEF Dist
  <2>6. Used(last_tail, last_tail) = 0
    BY <2>1 DEF Used, Slots
  <2> QED
    BY <2>3, <2>4, <2>5, <2>6, SizeAssumption DEF Slots
<1> QED
  BY <1>1, Invariance, PTL

\* The engine moves every descriptor once and in order, whatever is aborted.
THEOREM Order == Spec => []MovedInOrder
<1>1. TypeOK /\ Ind => MovedInOrder
  <2> SUFFICES ASSUME TypeOK, Ind, hw.mode = "xfer"
               PROVE  ring[hw.next].valid /\ ring[hw.next].seq = done + 1
    BY DEF MovedInOrder
  <2>1. hw.next \in Slots
    BY DEF TypeOK, EngineOK
  <2>2. ring[hw.next].valid /\ tailed + Dist(hw.next) = done
    BY DEF Ind, HwInv
  <2> QED
    BY <2>1, <2>2 DEF Ind, RingInv
<1> QED
  BY <1>1, Invariance, PTL

\* A transaction that dma_cookie_status reports as complete has been moved.
THEOREM Completion == Spec => []CompletedMoved
<1>1. TypeOK /\ Ind => CompletedMoved
  BY DEF Ind
<1> QED
  BY <1>1, Invariance, PTL

-----------------------------------------------------------------------------
(* Callbacks *)

\* A client that has written all of a request without a fence has written at
\* least one descriptor after the last transaction.
PlainInv ==
  \A t \in Clients :
    cl[t].pc = "prog" /\ cl[t].flags = "none" /\ cl[t].n = 0 =>
      \A c \in 1 .. Len(txs) : txs[c].last < posted

\* A callback in tx_array has not been called, is in the slot of the last
\* descriptor of its transaction, and no cleanup has passed it.
CbInv ==
  \A i \in Slots :
    tx_array[i].cb =>
      /\ tx_array[i].cookie \in 1 .. Len(txs)
      /\ txs[tx_array[i].cookie].intr
      /\ txs[tx_array[i].cookie].calls = 0
      /\ txs[tx_array[i].cookie].last = tailed + Dist(i) + 1
      /\ clean.by # Nobody => Dist(clean.idx) <= Dist(i)

CallInv == PlainInv /\ CbInv /\ CallbackOnce

\* The parts of the invariant that a step leaves alone.
LEMMA CallFrame ==
  ASSUME TypeOK, CallInv
  PROVE  /\ /\ UNCHANGED <<posted, txs>>
            /\ \A t \in Clients : cl'[t].pc = "prog" =>
                 cl'[t] = cl[t] \/ cl'[t].flags # "none" \/ cl'[t].n # 0
            => PlainInv'
         /\ UNCHANGED <<tx_array, txs, last_tail, tailed, clean>> => CbInv'
         /\ UNCHANGED txs /\ done' \in {done, done + 1} => CallbackOnce'
<1> USE DEF CallInv
<1>1. ASSUME UNCHANGED <<posted, txs>>,
             \A t \in Clients : cl'[t].pc = "prog" =>
               cl'[t] = cl[t] \/ cl'[t].flags # "none" \/ cl'[t].n # 0
      PROVE  PlainInv'
  BY ZenonT(60), <1>1 DEF PlainInv
<1>2. UNCHANGED <<tx_array, txs, last_tail, tailed, clean>> => CbInv'
  BY ZenonT(60) DEF CbInv, Dist, Used
<1>3. ASSUME UNCHANGED txs, done' \in {done, done + 1}
      PROVE  CallbackOnce'
  <2>1. done \in Nat /\ \A c \in 1 .. Len(txs) : txs[c].last \in Nat
    BY TxLast DEF TypeOK, HistOK
  <2> QED
    BY <1>3, <2>1 DEF CallbackOnce
<1> QED
  BY ZenonT(60), <1>1, <1>2, <1>3

\* A client that does not submit: only a descriptor more can concern it.
LEMMA ClientCall ==
  ASSUME TypeOK, Ind, CallInv, NEW t \in Clients,
         mic_dma_prep_memcpy_lock(t) \/ mic_dma_tx_status(t) \/ Client(t),
         ~mic_dma_tx_submit_unlock(t)
  PROVE  CallInv'
<1>1. cl \in [Clients -> [pc : Labels, n : Nat,
                          flags : {"none", "fence", "intr"}]]
      /\ posted \in Nat /\ ThreadOK
  BY DEF TypeOK, ThreadOK, HistOK
<1>2. UNCHANGED <<tx_array, txs, last_tail, tailed, clean, done>>
  BY ZenonT(60) DEF mic_dma_prep_memcpy_lock, mic_dma_tx_status, Client, Redo,
         mic_dma_prog_memcpy_desc, ProgInc, mic_dma_fence_intr_desc, FenceInc,
         mic_dma_update_pending, Issue, mic_dma_inc_head, chan, locks, counts,
         hist
<1>3. CbInv' /\ CallbackOnce'
  BY ZenonT(60), <1>2, CallFrame
<1>4. ASSUME NEW r, NEW first \in BOOLEAN, mic_dma_do_dma(t, r, first),
             r.n \in Nat, UNCHANGED posted
      PROVE  PlainInv'
  <2>1. \A u \in Clients : u # t => cl'[u] = cl[u]
    BY <1>1, <1>4 DEF mic_dma_do_dma
  <2>2. cl'[t].pc = "prog" => cl'[t].flags # "none" \/ cl'[t].n # 0
    BY <1>1, <1>4 DEF mic_dma_do_dma, Idle, NumDesc
  <2> QED
    BY ZenonT(60), <1>2, <1>4, <2>1, <2>2, CallFrame
<1>5. CASE mic_dma_prep_memcpy_lock(t)
  <2>1. PICK r \in Requests : mic_dma_do_dma(t, r, TRUE)
    BY ZenonT(60), <1>5 DEF mic_dma_prep_memcpy_lock
  <2>2. r.n \in Nat /\ UNCHANGED posted
    BY <1>5, RequestAssumption DEF mic_dma_prep_memcpy_lock, hist, counts
  <2> QED
    BY ZenonT(60), <1>3, <1>4, <2>1, <2>2 DEF CallInv
<1>6. CASE Redo(t)
  <2>1. cl[t].n \in Nat /\ UNCHANGED posted
    BY <1>1, <1>6 DEF Redo, hist, counts
  <2> QED
    BY ZenonT(60), <1>3, <1>4, <1>6, <2>1 DEF CallInv, Redo
<1>7. CASE ProgInc(t) \/ FenceInc(t)
  <2>1. prep_lock = t /\ t # Nobody
    BY <1>7, ThreadAssumption DEF ProgInc, FenceInc, Ind, LockInv
  <2>2. posted' = posted + 1
    BY <1>7 DEF ProgInc, FenceInc, mic_dma_inc_head
  <2>3. \A c \in 1 .. Len(txs) : txs[c].last \in Nat
    BY TxLast
  <2>4. CASE ProgInc(t)
    <3>1. \A c \in 1 .. Len(txs) : txs[c].last <= posted
      BY <2>1, <2>4 DEF ProgInc, Ind, TxInv, FencePhase
    <3>2. \A c \in 1 .. Len(txs) : txs[c].last < posted + 1
      BY <1>1, <2>3, <3>1
    <3> QED
      BY ZenonT(60), <1>2, <1>3, <2>2, <3>2 DEF CallInv, PlainInv
  <2>5. CASE FenceInc(t)
    <3>1. \A u \in Clients : cl'[u].pc # "prog"
      <4>1. cl'[t].pc = "pending" /\ \A u \in Clients : u # t => cl'[u] = cl[u]
        BY <1>1, <2>5 DEF FenceInc, Idle
      <4> QED
        BY ZenonT(60), <2>1, <4>1 DEF Ind, LockInv
    <3> QED
      BY ZenonT(60), <1>3, <3>1 DEF CallInv, PlainInv
  <2> QED
    BY <1>7, <2>4, <2>5
<1>8. ASSUME NEW l \in Labels \ {"prog"}, Goto(t, l), UNCHANGED posted
      PROVE  CallInv'
  <2>1. cl'[t].pc = l /\ \A u \in Clients \ {t} : cl'[u] = cl[u]
    BY ZenonT(60), <1>1, <1>8, GotoOne
  <2> QED
    BY ZenonT(60), <1>2, <1>3, <1>8, <2>1, CallFrame DEF CallInv
<1>9. CASE mic_dma_tx_status(t)
  BY ZenonT(60), <1>8, <1>9 DEF mic_dma_tx_status, hist, counts, Labels
<1>10. CASE mic_dma_prog_memcpy_desc(t) \/ mic_dma_fence_intr_desc(t)
  BY ZenonT(60), <1>8, <1>10
  DEF mic_dma_prog_memcpy_desc, mic_dma_fence_intr_desc, hist, counts, Labels
<1>11. CASE mic_dma_update_pending(t) \/ Issue(t)
  BY ZenonT(60), <1>8, <1>11 DEF mic_dma_update_pending, Issue, counts, Labels
<1> QED
  BY <1>5, <1>6, <1>7, <1>9, <1>10, <1>11 DEF Client

\* A cookie is assigned, with a callback only when an interrupt is to follow.
LEMMA SubmitCall ==
  ASSUME TypeOK, Ind, CallInv, NEW t \in Clients, mic_dma_tx_submit_unlock(t)
  PROVE  CallInv'
<1> DEFINE f == cl[t].flags
           i0 == allocate_tx(t)
           b == tx_array[i0].cb \/ f = "intr"
           x == [last |-> IF f = "none" THEN posted ELSE posted + 1,
                 intr |-> f = "intr", calls |-> 0]
<1>1. /\ head \in Slots /\ last_tail \in Slots /\ cookie \in Nat
      /\ posted \in Nat /\ done \in Nat /\ tailed \in Nat
      /\ tx_array \in [Slots -> [cookie : Nat, cb : BOOLEAN]]
      /\ cl \in [Clients -> [pc : Labels, n : Nat,
                             flags : {"none", "fence", "intr"}]]
      /\ clean.idx \in Slots /\ clean.head \in Slots
  BY ZenonT(60) DEF TypeOK, ChanOK, ThreadOK, HistOK
<1>2. cl[t].pc = "prog" /\ cl[t].n = 0 /\ prep_lock = t /\ t # Nobody
  BY ZenonT(60), ThreadAssumption DEF mic_dma_tx_submit_unlock, Ind, LockInv
<1>3. PlainInv'
  <2>1. ThreadOK
    BY DEF TypeOK
  <2>2. cl'[t].pc \in {"pending", "fence"}
        /\ \A u \in Clients \ {t} : cl'[u] = cl[u]
    BY ZenonT(60), <2>1, GotoOne DEF mic_dma_tx_submit_unlock
  <2>3. \A u \in Clients : cl'[u].pc # "prog"
    BY ZenonT(60), <1>2, <2>2 DEF Ind, LockInv
  <2> QED
    BY ZenonT(60), <2>3 DEF PlainInv
<1>4. i0 \in Slots
  BY <1>1, DecRange DEF allocate_tx
<1>5. /\ tx_array'[i0] = [cookie |-> cookie + 1, cb |-> b]
      /\ \A i \in Slots \ {i0} : tx_array'[i] = tx_array[i]
      /\ UNCHANGED <<head, last_tail, clean, posted, done, tailed>>
  BY ZenonT(60), <1>1, <1>4 DEF mic_dma_tx_submit_unlock, counts
<1>6. /\ Len(txs') = Len(txs) + 1 /\ Len(txs) \in Nat
      /\ \A d \in 1 .. Len(txs) : txs'[d] = txs[d]
      /\ txs'[Len(txs) + 1] = x
      /\ cookie = Len(txs)
  <2>1. txs' = Append(txs, x) /\ txs \in Seq(Tx)
    BY ZenonT(60) DEF mic_dma_tx_submit_unlock, TypeOK, HistOK
  <2> HIDE DEF x
  <2> QED
    BY <2>1, AppendTx DEF Ind, TxInv
<1>7. \A c \in 1 .. Len(txs) : txs[c].last \in Nat /\ txs[c].last <= posted
  BY ZenonT(60), <1>2, TxLast DEF Ind, TxInv, FencePhase
<1>8. Dist(head) \in Nat /\ tailed + Dist(head) = posted
  BY <1>1, UsedRange DEF Dist, Slots, Ind, CountInv
<1>9. ~tx_array[i0].cb
  <2> SUFFICES ASSUME tx_array[i0].cb PROVE FALSE
    OBVIOUS
  <2>1. PICK c \in 1 .. Len(txs) : txs[c].last = tailed + Dist(i0) + 1
    BY ZenonT(60), <1>4 DEF CallInv, CbInv
  <2>2. Dist(i0) \in Nat /\ txs[c].last \in Nat /\ txs[c].last <= posted
    BY <1>1, <1>4, <1>7, UsedRange DEF Dist, Slots
  <2>3. CASE f = "none"
    <3>1. txs[c].last < posted
      BY ZenonT(60), <1>2, <2>3 DEF CallInv, PlainInv
    <3>2. Dist(i0) = IF Dist(head) = 0 THEN RX_SIZE - 1 ELSE Dist(head) - 1
      BY ZenonT(60), <1>1, <2>3, UsedDec DEF Dist, allocate_tx
    <3>3. tailed \in Nat /\ posted \in Nat /\ RX_SIZE \in Nat /\ RX_SIZE > 0
      BY <1>1, SizeAssumption
    <3> HIDE DEF f, i0, b, x
    <3> QED
      BY <1>8, <2>1, <2>2, <3>1, <3>2, <3>3
  <2>4. CASE f # "none"
    BY <1>1, <1>8, <2>1, <2>2, <2>4 DEF allocate_tx
  <2> QED
    BY ZenonT(60), <2>3, <2>4
<1>10. tx_array'[i0].cookie = cookie + 1 /\ tx_array'[i0].cb = b
  <2> HIDE DEF b, i0
  <2> QED
    BY <1>5
<1>11. CbInv'
  <2> SUFFICES ASSUME NEW i \in Slots, tx_array'[i].cb
               PROVE  /\ tx_array'[i].cookie \in 1 .. Len(txs')
                      /\ txs'[tx_array'[i].cookie].intr
                      /\ txs'[tx_array'[i].cookie].calls = 0
                      /\ txs'[tx_array'[i].cookie].last = tailed + Dist(i) + 1
                      /\ clean.by # Nobody => Dist(clean.idx) <= Dist(i)
    BY ZenonT(60), <1>5 DEF CbInv, Dist, Used
  <2>1. CASE i = i0
    <3>1. f = "intr" /\ tx_array'[i].cookie = Len(txs) + 1 /\ i = head
      <4>1. tx_array'[i].cookie = cookie + 1 /\ tx_array'[i].cb = b
        <5> HIDE DEF b, i0
        <5> QED
          BY <1>10, <2>1, ZenonT(60)
      <4>2. f = "intr"
        BY <1>9, <4>1, ZenonT(60)
      <4> QED
        BY ZenonT(60), <1>6, <2>1, <4>1, <4>2 DEF allocate_tx
    <3>2. /\ txs'[Len(txs) + 1].intr /\ txs'[Len(txs) + 1].calls = 0
          /\ txs'[Len(txs) + 1].last = posted + 1
      <4>1. x.intr = (f = "intr") /\ x.calls = 0 /\ x.last = posted + 1
        BY ZenonT(60), <3>1
      <4> HIDE DEF x
      <4>2. x.intr
        BY <3>1, <4>1, ZenonT(60)
      <4> QED
        BY ZenonT(60), <1>6, <4>1, <4>2
    <3>3. posted + 1 = tailed + Dist(i) + 1
      BY ZenonT(60), <1>1, <1>8, <3>1
    <3>4. clean.by # Nobody => Dist(clean.idx) <= Dist(i)
      <4>1. /\ Dist(clean.idx) \in Slots /\ Dist(clean.head) \in Slots
            /\ Dist(head) \in Slots
        BY ZenonT(60), <1>1, UsedRange DEF Dist
      <4>2. clean.by # Nobody => /\ Dist(clean.idx) <= Dist(clean.head)
                                 /\ Dist(clean.head) <= Dist(head)
        BY ZenonT(60) DEF Ind, CleanInv
      <4>3. \A k \in Slots : k \in Nat
        BY DEF Slots
      <4> QED
        BY <3>1, <4>1, <4>2, <4>3
    <3>5. Len(txs) + 1 \in 1 .. Len(txs')
      BY <1>6
    <3> QED
      BY ZenonT(60), <3>1, <3>2, <3>3, <3>4, <3>5
  <2>2. CASE i # i0
    <3>1. tx_array'[i] = tx_array[i]
      BY ZenonT(60), <1>5, <2>2
    <3>2. PICK c \in 1 .. Len(txs) :
            /\ tx_array[i].cookie = c
            /\ txs[c].intr /\ txs[c].calls = 0
            /\ txs[c].last = tailed + Dist(i) + 1
            /\ clean.by # Nobody => Dist(clean.idx) <= Dist(i)
      BY ZenonT(60), <3>1 DEF CallInv, CbInv
    <3>3. txs'[c] = txs[c] /\ c \in 1 .. Len(txs')
      BY <1>6
    <3> QED
      BY ZenonT(60), <3>1, <3>2, <3>3
  <2> QED
    BY ZenonT(60), <2>1, <2>2
<1>12. CallbackOnce'
  <2> SUFFICES ASSUME NEW c \in 1 .. Len(txs')
               PROVE  /\ txs'[c].calls <= (IF txs'[c].intr THEN 1 ELSE 0)
                      /\ txs'[c].calls = 1 => txs'[c].last <= done
    BY ZenonT(60), <1>5 DEF CallbackOnce
  <2>1. CASE c \in 1 .. Len(txs)
    BY ZenonT(60), <1>6, <2>1 DEF CallInv, CallbackOnce
  <2>2. CASE c = Len(txs) + 1
    <3>1. txs'[c].calls = 0
      BY <1>6, <2>2
    <3> QED
      BY <3>1
  <2>3. c \in 1 .. Len(txs) \/ c = Len(txs) + 1
    BY <1>6
  <2> QED
    BY ZenonT(60), <2>1, <2>2, <2>3
<1> QED
  BY <1>3, <1>11, <1>12 DEF CallInv

\* One call more, of cookie c only.
LEMMA CallCount ==
  ASSUME NEW s \in Seq(Tx), NEW c \in 1 .. Len(s)
  PROVE  \A d \in 1 .. Len(s) :
           Called(s, c)[d].calls = IF d = c THEN s[c].calls + 1 ELSE s[d].calls
<1> DEFINE u == [s[c] EXCEPT !.calls = @ + 1]
<1>1. s[c] \in Tx
  OBVIOUS
<1>2. u.calls = s[c].calls + 1
  BY <1>1 DEF Tx
<1>3. Called(s, c) = [s EXCEPT ![c] = u]
  BY DEF Called
<1> HIDE DEF u
<1>4. \A d \in 1 .. Len(s) : Called(s, c)[d] = IF d = c THEN u ELSE s[d]
  BY <1>3
<1> QED
  BY <1>2, <1>4

\* Cleanup of a slot calls the callback that is there, and forgets it.
LEMMA StepCall ==
  ASSUME TypeOK, Ind, CallInv, Ind', CleanupStep
  PROVE  CallInv'
<1> DEFINE i == clean.idx
           c == tx_array[i].cookie
<1>1. /\ last_tail \in Slots /\ i \in Slots /\ clean.n \in Nat
      /\ done \in Nat /\ tailed \in Nat
      /\ tx_array \in [Slots -> [cookie : Nat, cb : BOOLEAN]]
      /\ txs \in Seq(Tx)
  BY DEF TypeOK, ChanOK, ThreadOK, HistOK
<1>2. /\ clean.by # Nobody
      /\ clean'.by = clean.by /\ clean'.idx = mic_dma_ring_inc(i)
      /\ clean'.n = clean.n + 1
      /\ UNCHANGED <<last_tail, cl, posted, done, tailed>>
  BY ZenonT(60) DEF CleanupStep, counts
<1>3. /\ tailed + Dist(i) = clean.n
      /\ tailed + Dist(mic_dma_ring_inc(i)) = clean.n + 1
      /\ clean.n + 1 <= done
  <2>1. tailed + Dist(i) = clean.n
    BY ZenonT(60), <1>2 DEF Ind, CleanInv
  <2>2. clean'.by # Nobody
    BY <1>2
  <2>3. tailed' + Dist(clean.idx)' = clean'.n /\ clean'.n <= done'
    BY ZenonT(60), <2>2 DEF Ind, CleanInv
  <2>4. Dist(clean.idx)' = Dist(mic_dma_ring_inc(i))
    BY ZenonT(60), <1>2 DEF Dist, Used
  <2> QED
    BY ZenonT(60), <1>2, <2>1, <2>3, <2>4
<1>4. \A j \in Slots : Dist(j) \in Nat /\ Dist(j)' = Dist(j)
  <2>1. \A j \in Slots : Dist(j) \in Slots
    BY <1>1, UsedRange DEF Dist
  <2> QED
    BY <1>2, <2>1 DEF Slots, Dist, Used
<1>5. mic_dma_ring_inc(i) \in Slots
  BY <1>1, IncRange
<1>6. \A j \in Slots : j # i /\ Dist(i) <= Dist(j) =>
        Dist(mic_dma_ring_inc(i)) <= Dist(j)
  <2> TAKE j \in Slots
  <2>1. j # i => Dist(j) # Dist(i)
    BY <1>1, UsedInjective DEF Dist
  <2>2. Dist(mic_dma_ring_inc(i)) = Dist(i) + 1
    <3>1. Dist(mic_dma_ring_inc(i)) \in Nat /\ Dist(i) \in Nat
      BY <1>1, <1>4, <1>5
    <3> QED
      BY <1>1, <1>3, <3>1
  <2> QED
    BY <1>1, <1>4, <2>1, <2>2
<1>7. CASE c = 0
  <2>1. UNCHANGED <<tx_array, txs>>
    BY <1>7 DEF CleanupStep, Complete
  <2>2. ~tx_array[i].cb
    BY <1>1, <1>7 DEF CallInv, CbInv
  <2>3. CbInv'
    <3> SUFFICES ASSUME NEW j \in Slots, tx_array[j].cb
                 PROVE  /\ tx_array[j].cookie \in 1 .. Len(txs)
                        /\ txs[tx_array[j].cookie].intr
                        /\ txs[tx_array[j].cookie].calls = 0
                        /\ txs[tx_array[j].cookie].last = tailed + Dist(j) + 1
                        /\ Dist(mic_dma_ring_inc(i)) <= Dist(j)
      BY ZenonT(60), <1>2, <2>1 DEF CbInv, Dist, Used
    <3>1. Dist(i) <= Dist(j)
      BY ZenonT(60), <1>2 DEF CallInv, CbInv
    <3> QED
      BY ZenonT(60), <1>6, <2>2, <3>1 DEF CallInv, CbInv
  <2> QED
    BY ZenonT(60), <1>2, <2>1, <2>3, CallFrame DEF CallInv
<1>8. CASE c # 0
  <2>1. /\ tx_array'[i].cookie = 0 /\ tx_array'[i].cb = FALSE
        /\ \A j \in Slots \ {i} : tx_array'[j] = tx_array[j]
    BY <1>1, <1>8 DEF CleanupStep, Complete
  <2>2. CASE ~tx_array[i].cb
    <3>1. txs' = txs
      BY <1>8, <2>2 DEF CleanupStep, Complete
    <3>2. CbInv'
      <4> SUFFICES ASSUME NEW j \in Slots, tx_array'[j].cb
                   PROVE  /\ tx_array'[j].cookie \in 1 .. Len(txs)
                          /\ txs[tx_array'[j].cookie].intr
                          /\ txs[tx_array'[j].cookie].calls = 0
                          /\ txs[tx_array'[j].cookie].last = tailed + Dist(j) + 1
                          /\ Dist(mic_dma_ring_inc(i)) <= Dist(j)
        BY ZenonT(60), <1>2, <3>1 DEF CbInv, Dist, Used
      <4>1. j # i /\ tx_array'[j] = tx_array[j]
        BY <2>1
      <4>2. Dist(i) <= Dist(j)
        BY ZenonT(60), <1>2, <4>1 DEF CallInv, CbInv
      <4> QED
        BY ZenonT(60), <1>6, <4>1, <4>2 DEF CallInv, CbInv
    <3> QED
      BY ZenonT(60), <1>2, <3>1, <3>2, CallFrame DEF CallInv
  <2>3. CASE tx_array[i].cb
    <3>1. /\ c \in 1 .. Len(txs) /\ txs[c].intr /\ txs[c].calls = 0
          /\ txs[c].last = tailed + Dist(i) + 1
      BY ZenonT(60), <1>1, <2>3 DEF CallInv, CbInv
    <3>2. txs' = Called(txs, c)
      BY <1>8, <2>3 DEF CleanupStep, Complete, Called
    <3> HIDE DEF c
    <3>3. /\ Len(txs') = Len(txs)
          /\ \A d \in 1 .. Len(txs) :
               /\ txs'[d].last = txs[d].last
               /\ txs'[d].intr = txs[d].intr
               /\ txs'[d].calls = IF d = c THEN 1 ELSE txs[d].calls
      BY <1>1, <3>1, <3>2, CallTyped, CallCount
    <3>4. CbInv'
      <4> SUFFICES ASSUME NEW j \in Slots, tx_array'[j].cb
                   PROVE  /\ tx_array'[j].cookie \in 1 .. Len(txs')
                          /\ txs'[tx_array'[j].cookie].intr
                          /\ txs'[tx_array'[j].cookie].calls = 0
                          /\ txs'[tx_array'[j].cookie].last
                               = tailed + Dist(j) + 1
                          /\ Dist(mic_dma_ring_inc(i)) <= Dist(j)
        BY ZenonT(60), <1>2 DEF CbInv, Dist, Used
      <4>1. j # i /\ tx_array'[j] = tx_array[j]
        BY <2>1
      <4>2. PICK d \in 1 .. Len(txs) :
              /\ d = tx_array[j].cookie
              /\ txs[d].intr /\ txs[d].calls = 0
              /\ txs[d].last = tailed + Dist(j) + 1 /\ Dist(i) <= Dist(j)
        BY ZenonT(60), <1>2, <4>1 DEF CallInv, CbInv
      <4>3. d # c
        <5>1. Dist(j) # Dist(i)
          BY ZenonT(60), <1>1, <4>1, UsedInjective DEF Dist
        <5> QED
          BY <1>1, <1>4, <3>1, <4>2, <5>1
      <4> QED
        BY ZenonT(60), <1>6, <3>3, <4>1, <4>2, <4>3
    <3>5. CallbackOnce'
      <4> SUFFICES ASSUME NEW d \in 1 .. Len(txs)
                   PROVE  /\ txs'[d].calls <= (IF txs'[d].intr THEN 1 ELSE 0)
                          /\ txs'[d].calls = 1 => txs'[d].last <= done
        BY ZenonT(60), <1>2, <3>3 DEF CallbackOnce
      <4>1. CASE d = c
        <5>1. txs'[d].calls = 1 /\ txs'[d].intr /\ txs'[d].last = clean.n + 1
          BY ZenonT(60), <1>3, <3>1, <3>3, <4>1
        <5> QED
          BY <1>3, <5>1
      <4>2. CASE d # c
        BY ZenonT(60), <3>3, <4>2 DEF CallInv, CallbackOnce
      <4> QED
        BY ZenonT(60), <4>1, <4>2
    <3>6. PlainInv'
      BY ZenonT(60), <1>2, <3>3 DEF CallInv, PlainInv
    <3> QED
      BY <3>4, <3>5, <3>6 DEF CallInv
  <2> QED
    BY <2>2, <2>3
<1> QED
  BY ZenonT(60), <1>7, <1>8

\* last_tail moves to where the cleanup stopped, short of every callback.
LEMMA EndCall ==
  ASSUME TypeOK, Ind, CallInv, CleanupEnd
  PROVE  CallInv'
<1> DEFINE u == clean.idx
<1>1. last_tail \in Slots /\ u \in Slots /\ tailed \in Nat
  BY DEF TypeOK, ChanOK, ThreadOK, HistOK
<1>2. /\ clean.by # Nobody /\ last_tail' = u /\ tailed' = clean.n
      /\ clean'.by = Nobody /\ tailed + Dist(u) = clean.n
      /\ UNCHANGED <<tx_array, posted, done, txs>>
  BY DEF CleanupEnd, Unlocked, Ind, CleanInv
<1>3. \A i \in Slots : Dist(u) <= Dist(i) =>
        tailed' + Dist(i)' = tailed + Dist(i)
  <2> TAKE i \in Slots
  <2>1. Dist(i) \in Slots /\ Dist(u) \in Slots
    BY <1>1, UsedRange DEF Dist
  <2>2. Dist(i)' = IF Dist(i) >= Dist(u)
                     THEN Dist(i) - Dist(u)
                     ELSE (Dist(i) + RX_SIZE) - Dist(u)
    BY ZenonT(60), <1>1, <1>2, UsedShift DEF Dist
  <2> QED
    BY <1>1, <1>2, <2>1, <2>2 DEF Slots
<1>4. CbInv'
  BY ZenonT(60), <1>2, <1>3 DEF CallInv, CbInv
<1>5. \A t \in Clients : cl'[t].pc = "prog" => cl'[t] = cl[t]
  <2>1. cl \in [Clients -> [pc : Labels, n : Nat,
                            flags : {"none", "fence", "intr"}]]
    BY DEF TypeOK, ThreadOK
  <2> QED
    BY <2>1 DEF CleanupEnd, AfterCleanup
<1> QED
  BY ZenonT(60), <1>2, <1>4, <1>5, CallFrame DEF CallInv

\* Every step keeps the invariant of the callbacks.
LEMMA NextCall ==
  ASSUME TypeOK, Ind, CallInv, [Next]_vars
  PROVE  CallInv'
<1>1. ASSUME UNCHANGED <<tx_array, txs, last_tail, tailed, clean, cl, posted>>,
             done' \in {done, done + 1}
      PROVE  CallInv'
  BY ZenonT(60), <1>1, CallFrame DEF CallInv
<1>2. CASE \E t \in Clients : mic_dma_prep_memcpy_lock(t)
                              \/ mic_dma_tx_status(t) \/ Client(t)
  BY <1>2, ClientCall, SubmitCall
<1>3. CASE \E p \in Threads : CleanupBegin(p)
  <2>1. /\ clean'.idx = last_tail
        /\ UNCHANGED <<tx_array, txs, last_tail, tailed, cl, posted, done>>
    BY <1>3 DEF CleanupBegin, chan, hist, counts
  <2>2. \A i \in Slots : Dist(clean.idx)' <= Dist(i)'
    <3>1. Dist(clean.idx)' = 0
      BY <2>1 DEF Dist, Used, TypeOK, ChanOK, Slots
    <3>2. \A i \in Slots : Dist(i) \in Slots /\ Dist(i)' = Dist(i)
      BY ZenonT(60), <2>1, UsedRange DEF Dist, TypeOK, ChanOK, Used
    <3> QED
      BY <3>1, <3>2 DEF Slots
  <2>3. CbInv'
    BY ZenonT(60), <2>1, <2>2 DEF CallInv, CbInv, Dist, Used
  <2> QED
    BY ZenonT(60), <2>1, <2>3, CallFrame DEF CallInv
<1>4. CASE Cleanup
  BY <1>4, NextInd, StepCall, EndCall DEF Cleanup
<1>5. CASE Handler
  BY <1>1, <1>5
  DEF Handler, mic_dma_ack_interrupt, mic_dma_invld_desc_interrupt,
      mic_dma_abort_interrupt, HandlerReturn, chan, locks, counts, hist
<1>6. CASE Engine \/ HwAbort
  BY <1>1, <1>6
  DEF Engine, HwFetch, HwDone, HwInvld, HwAbort, chan, locks, counts, hist
<1>7. CASE UNCHANGED vars
  BY ZenonT(60), <1>1, <1>7 DEF vars
<1> QED
  BY <1>2, <1>3, <1>4, <1>5, <1>6, <1>7 DEF Next

\* Neither the status of a cookie nor a callback comes before the descriptors
\* are moved, and a callback is called at most once and only if it was asked
\* for, whichever threads submit, poll and clean up.
THEOREM Callbacks == Spec => []CompletionTrue
<1>1. Init => CallInv
  <2>1. Init => txs = <<>> /\ \A i \in Slots : ~tx_array[i].cb
    BY DEF Init, HistInit
  <2> QED
    BY <2>1 DEF CallInv, PlainInv, CbInv, CallbackOnce
<1>2. (TypeOK /\ Ind) /\ CallInv /\ [Next]_vars => CallInv'
  BY NextCall
<1>3. (TypeOK /\ Ind) /\ CallInv => CompletionTrue
  BY DEF Ind, CallInv, CompletionTrue
<1> QED
  BY <1>1, <1>2, <1>3, Invariance, PTL DEF Spec

-----------------------------------------------------------------------------
(* notify_hw *)

\* As long as the engine has not failed, DESC_INVLD_STATUS is set only while
\* the engine waits for it to be cleared.
StopInv ==
  aborts = 0 =>
    /\ "abort" \notin intr \cup handler.reg
    /\ invld => hw.mode = "stop"
    /\ notify_hw => invld

\* Every step keeps StopInv.
LEMMA NextStop ==
  ASSUME TypeOK, StopInv, [Next]_vars
  PROVE  StopInv'
<1>1. /\ hw \in [next : Slots, last : Slots,
                 mode : {"run", "xfer", "inv", "stop", "abort"}]
      /\ handler \in [on : BOOLEAN, reg : SUBSET {"invld", "done", "abort"}]
      /\ aborts \in Nat
  BY DEF TypeOK, EngineOK, ThreadOK, HistOK
<1>2. UNCHANGED <<aborts, intr, handler, invld, hw, notify_hw>> => StopInv'
  BY DEF StopInv
<1>3. ASSUME mic_dma_issue_pending, UNCHANGED <<aborts, intr, handler>>
      PROVE  StopInv'
  BY <1>1, <1>3 DEF StopInv, mic_dma_issue_pending, ClearInvld
<1>4. CASE \E t \in Clients : mic_dma_prep_memcpy_lock(t)
                              \/ mic_dma_tx_status(t) \/ Client(t)
  <2>1. PICK t \in Clients : mic_dma_prep_memcpy_lock(t)
                             \/ mic_dma_tx_status(t) \/ Client(t)
    BY <1>4
  <2>2. CASE mic_dma_update_pending(t) \/ Issue(t)
    BY ZenonT(60), <1>2, <1>3, <2>2 DEF mic_dma_update_pending, Issue
  <2>3. CASE ~(mic_dma_update_pending(t) \/ Issue(t))
    BY ZenonT(60), <1>2, <2>1, <2>3
    DEF mic_dma_prep_memcpy_lock, mic_dma_tx_status, Client, Redo,
        mic_dma_prog_memcpy_desc, ProgInc, mic_dma_tx_submit_unlock,
        mic_dma_fence_intr_desc, FenceInc, engine, hist, notes
  <2> QED
    BY <2>2, <2>3
<1>5. CASE Cleanup \/ \E p \in Threads : CleanupBegin(p)
  BY <1>2, <1>5
  DEF Cleanup, CleanupBegin, CleanupStep, CleanupEnd, engine, hist, notes
<1>6. CASE Handler
  <2>1. CASE mic_dma_ack_interrupt
    BY ZenonT(60), <2>1 DEF StopInv, mic_dma_ack_interrupt, hist, notes
  <2>2. CASE mic_dma_invld_desc_interrupt
    BY <1>1, <2>2 DEF StopInv, mic_dma_invld_desc_interrupt, Served,
                      ClearInvld, hist, notes
  <2>3. CASE mic_dma_abort_interrupt
    BY <2>3 DEF StopInv, mic_dma_abort_interrupt
  <2>4. CASE HandlerReturn
    BY ZenonT(60), <2>4 DEF StopInv, HandlerReturn, engine, hist, notes
  <2> QED
    BY <1>6, <2>1, <2>2, <2>3, <2>4 DEF Handler
<1>7. CASE Engine \/ HwAbort
  <2>1. CASE HwFetch
    BY <1>1, <2>1 DEF StopInv, HwFetch, hist, notes
  <2>2. CASE HwDone
    BY ZenonT(60), <1>1, <2>2 DEF StopInv, HwDone, notes
  <2>3. CASE HwInvld
    BY <1>1, <2>3 DEF StopInv, HwInvld, hist, notes
  <2>4. CASE HwAbort
    BY <1>1, <2>4 DEF StopInv, HwAbort
  <2> QED
    BY <1>7, <2>1, <2>2, <2>3, <2>4 DEF Engine
<1>8. CASE UNCHANGED vars
  BY ZenonT(60), <1>2, <1>8 DEF vars
<1> QED
  BY <1>4, <1>5, <1>6, <1>7, <1>8 DEF Next

\* notify_hw is set only while the engine waits, until it first fails: the
\* clear of issue_pending is seen.
THEOREM Notify == Spec => []NotifyWhenStopped
<1>1. Init => StopInv
  BY DEF Init, StopInv
<1>2. (TypeOK /\ Ind) /\ StopInv /\ [Next]_vars => StopInv'
  BY NextStop
<1>3. StopInv => NotifyWhenStopped
  BY DEF StopInv, NotifyWhenStopped
<1> QED
  BY <1>1, <1>2, <1>3, Invariance, PTL DEF Spec

=============================================================================
