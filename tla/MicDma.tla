------------------------------- MODULE MicDma -------------------------------
(***************************************************************************)
(* The x200 DMA channel driver (mic_x200_dma.c): a ring of descriptors     *)
(* written by client threads, moved by the DMA engine, and reaped by       *)
(* mic_dma_cleanup, which runs in the clients and in the interrupt thread. *)
(*                                                                         *)
(* Each client action is the code between two points at which another      *)
(* thread, the interrupt handler or the engine can be seen.  The sections  *)
(* under issue_lock are single steps.  The engine (the Hw actions) is      *)
(* external: it is modelled from the way the driver uses its registers and *)
(* from what the driver's comments say of its prefetching.                 *)
(***************************************************************************)
EXTENDS Naturals, Sequences, FiniteSets

CONSTANTS Clients,      \* threads that prepare and submit transactions
          Irq,          \* the interrupt thread (mic_dma_thread_fn)
          Nobody,       \* holder of a free lock
          RX_SIZE,      \* MIC_DMA_DESC_RX_SIZE
          PendingLevel, \* mic_dma_pending_level
          AbortTries,   \* the 5 of mic_dma_abort_interrupt
          Requests,     \* [n |-> memcpy descriptors, flags |-> prep flags]
          MaxTx,        \* bound on the transactions submitted
          MaxAbort      \* bound on the faults of the engine

ASSUME SizeAssumption == RX_SIZE \in Nat \ {0, 1}
ASSUME ThreadAssumption == Irq \notin Clients /\ Nobody \notin Clients \cup {Irq}
ASSUME RequestAssumption ==
  Requests \subseteq [n : Nat, flags : {"none", "fence", "intr"}]
ASSUME BoundAssumption ==
  /\ PendingLevel \in Nat /\ AbortTries \in Nat
  /\ MaxTx \in Nat /\ MaxAbort \in Nat

VARIABLES
  ring,       \* desc_ring: valid and interrupt bits; seq is the ghost number
  tx_array,   \* cookie and whether a callback is set
  head, last_tail,
  cookie,     \* chan.cookie, the last one assigned
  completed,  \* chan.completed_cookie
  notify_hw,
  abort,      \* abort_tail and abort_counter
  prep_lock,  \* its holder
  clean,      \* cleanup_lock's holder and the locals of its mic_dma_cleanup
  cl,         \* per client: program counter and locals
  handler,    \* mic_dma_intr_handler: running, and the bits still to serve
  wake,       \* the interrupt thread has been woken
  invld,      \* MIC_DMA_CTRL_DESC_INVLD_STATUS
  intr,       \* MIC_DMA_INTR_CTRL_STATUS
  hw,         \* NEXT and LAST descriptor registers and the engine's mode
  posted, done, tailed, issued, txs, missed, gaveup, aborts   \* history

chan == <<ring, tx_array, head, last_tail, cookie, completed>>
locks == <<prep_lock, clean>>
engine == <<invld, intr, hw>>
counts == <<posted, done, tailed>>
notes == <<issued, missed, gaveup, aborts>>
hist == <<counts, txs, notes>>
vars == <<ring, tx_array, head, last_tail, cookie, completed, notify_hw,
          abort, prep_lock, clean, cl, handler, wake, invld, intr, hw,
          posted, done, tailed, issued, txs, missed, gaveup, aborts>>

Slots == 0 .. RX_SIZE - 1
Threads == Clients \cup {Irq}

mic_dma_ring_inc(i) == IF i = RX_SIZE - 1 THEN 0 ELSE i + 1

mic_dma_ring_dec(i) == IF i = 0 THEN RX_SIZE - 1 ELSE i - 1

\* Slots in use between a tail and a head.
Used(h, t) == IF h >= t THEN h - t ELSE h + RX_SIZE - t

\* One slot too many: the ring may be filled until head meets last_tail.
ring_count_full(h, t) == RX_SIZE - Used(h, t)

\* Free slots, one of which is kept empty.
mic_dma_ring_count(h, t) == (RX_SIZE - Used(h, t)) - 1

Idle == [pc |-> "idle", n |-> 0, flags |-> "none"]
Empty == [valid |-> FALSE, intr |-> FALSE, seq |-> 0]
Unlocked == [by |-> Nobody, head |-> 0, idx |-> 0, n |-> 0]

(***************************************************************************)
(* History.  Descriptors are numbered from 1 in the order they are         *)
(* written: posted counts the moves of head, done the ones the engine has  *)
(* moved, tailed those last_tail has passed, issued those in the ring at   *)
(* the last issue_pending.  txs[c] is the transaction with cookie c: its   *)
(* last descriptor, whether it has a callback and how often it was called. *)
(* missed: issue_pending has logged "DESC_INVLD_STATUS not set".           *)
(***************************************************************************)
HistInit ==
  /\ posted = 0 /\ done = 0 /\ tailed = 0 /\ issued = 0
  /\ txs = <<>>
  /\ missed = FALSE /\ gaveup = FALSE /\ aborts = 0

\* mic_dma_chan_setup has run and the engine has found the ring empty.
Init ==
  /\ ring = [i \in Slots |-> Empty]
  /\ tx_array = [i \in Slots |-> [cookie |-> 0, cb |-> FALSE]]
  /\ head = 0 /\ last_tail = 0
  /\ cookie = 0 /\ completed = 0
  /\ notify_hw = TRUE
  /\ abort = [tail |-> 0, counter |-> 0]
  /\ prep_lock = Nobody
  /\ clean = Unlocked
  /\ cl = [t \in Clients |-> Idle]
  /\ handler = [on |-> FALSE, reg |-> {}]
  /\ wake = FALSE
  /\ invld = TRUE /\ intr = {}
  /\ hw = [next |-> 0, last |-> 0, mode |-> "stop"]
  /\ HistInit

-----------------------------------------------------------------------------
(* Register writes *)

\* Writing the status bit back clears it and restarts an engine that has set
\* it.  A clear that comes while the engine is still about to set the bit is
\* overwritten.
ClearInvld ==
  /\ invld' = FALSE
  /\ hw' = IF hw.mode = "stop" THEN [hw EXCEPT !.mode = "run"] ELSE hw

\* notify_hw stays set after the clear.
issue_pending_keep ==
  /\ IF notify_hw /\ invld THEN ClearInvld ELSE UNCHANGED <<invld, hw>>
  /\ UNCHANGED notify_hw
  /\ issued' = posted
  /\ missed' = (missed \/ (notify_hw /\ ~invld))

mic_dma_issue_pending ==
  /\ IF notify_hw /\ invld
       THEN notify_hw' = FALSE /\ ClearInvld
       ELSE UNCHANGED <<notify_hw, invld, hw>>
  /\ issued' = posted
  /\ missed' = (missed \/ (notify_hw /\ ~invld))

-----------------------------------------------------------------------------
(* Clients *)

Goto(t, l) == cl' = [cl EXCEPT ![t].pc = l]

\* The descriptors a request needs: one more for the fence or interrupt.
NumDesc(r) == r.n + (IF r.flags = "none" THEN 0 ELSE 1)

\* The space check of mic_dma_prog_memcpy_desc, made when prep_lock is taken
\* (first) and again after a cleanup.  Out of space, t sleeps and starts over
\* without the lock, or gives up when the 30 s are over.
mic_dma_do_dma(t, r, first) ==
  \/ /\ NumDesc(r) = 0
     /\ cl' = [cl EXCEPT ![t] = Idle]
     /\ prep_lock' = Nobody
  \/ /\ NumDesc(r) > 0
     /\ mic_dma_ring_count(head, last_tail) >= NumDesc(r)
     /\ cl' = [cl EXCEPT ![t] = [pc |-> "prog", n |-> r.n, flags |-> r.flags]]
     /\ prep_lock' = t
  \/ /\ first
     /\ mic_dma_ring_count(head, last_tail) < NumDesc(r)
     /\ cl' = [cl EXCEPT ![t] = [pc |-> "clean", n |-> r.n, flags |-> r.flags]]
     /\ prep_lock' = t
  \/ /\ ~first
     /\ mic_dma_ring_count(head, last_tail) < NumDesc(r)
     /\ cl' = [cl EXCEPT ![t].pc = "sleep"]
     /\ prep_lock' = Nobody
  \/ /\ ~first
     /\ mic_dma_ring_count(head, last_tail) < NumDesc(r)
     /\ cl' = [cl EXCEPT ![t] = Idle]
     /\ prep_lock' = Nobody

mic_dma_prep_memcpy_lock(t) ==
  /\ cl[t].pc \in {"idle", "posted"}
  /\ prep_lock = Nobody
  /\ cookie < MaxTx
  /\ \E r \in Requests : mic_dma_do_dma(t, r, TRUE)
  /\ UNCHANGED <<chan, notify_hw, abort, clean, handler, wake, engine, hist>>

\* The second attempt, and the retry after the sleep and its cleanup.
Redo(t) ==
  /\ \/ cl[t].pc = "redo" /\ mic_dma_do_dma(t, cl[t], FALSE)
     \/ cl[t].pc = "lock" /\ prep_lock = Nobody /\ mic_dma_do_dma(t, cl[t], TRUE)
  /\ UNCHANGED <<chan, notify_hw, abort, clean, handler, wake, engine, hist>>

\* A descriptor is written at head; its valid bit is the last thing written.
mic_dma_memcpy_desc(i) ==
  ring' = [ring EXCEPT ![head] = [valid |-> TRUE, intr |-> i,
                                  seq |-> posted + 1]]

mic_dma_inc_head ==
  /\ head' = mic_dma_ring_inc(head)
  /\ posted' = posted + 1

\* The loop of mic_dma_prog_memcpy_desc.
mic_dma_prog_memcpy_desc(t) ==
  /\ cl[t].pc = "prog" /\ cl[t].n > 0
  /\ mic_dma_memcpy_desc(FALSE)
  /\ Goto(t, "inc")
  /\ UNCHANGED <<tx_array, head, last_tail, cookie, completed, notify_hw,
                 abort, locks, handler, wake, engine, hist>>

ProgInc(t) ==
  /\ cl[t].pc = "inc"
  /\ mic_dma_inc_head
  /\ cl' = [cl EXCEPT ![t].pc = "prog", ![t].n = @ - 1]
  /\ UNCHANGED <<ring, tx_array, last_tail, cookie, completed, notify_hw,
                 abort, locks, handler, wake, engine, done, tailed, txs,
                 notes>>

\* Index of the final descriptor which is or will be programmed.
allocate_tx(t) == IF cl[t].flags = "none" THEN mic_dma_ring_dec(head) ELSE head

\* The caller sets its callback and submits: mic_dma_tx_submit_unlock up to the
\* fence descriptor.
mic_dma_tx_submit_unlock(t) ==
  /\ cl[t].pc = "prog" /\ cl[t].n = 0
  /\ cookie' = cookie + 1
  /\ tx_array' = [tx_array EXCEPT ![allocate_tx(t)] =
                    [cookie |-> cookie + 1,
                     cb |-> @.cb \/ cl[t].flags = "intr"]]
  /\ txs' = Append(txs,
               [last |-> IF cl[t].flags = "none" THEN posted ELSE posted + 1,
                intr |-> cl[t].flags = "intr", calls |-> 0])
  /\ IF cl[t].flags = "none"
       THEN Goto(t, "pending") /\ prep_lock' = Nobody
       ELSE Goto(t, "fence") /\ UNCHANGED prep_lock
  /\ UNCHANGED <<ring, head, last_tail, completed, notify_hw, abort, clean,
                 handler, wake, engine, counts, notes>>

mic_dma_fence_intr_desc(t) ==
  /\ cl[t].pc = "fence"
  /\ mic_dma_memcpy_desc(cl[t].flags = "intr")
  /\ Goto(t, "fence_inc")
  /\ UNCHANGED <<tx_array, head, last_tail, cookie, completed, notify_hw,
                 abort, locks, handler, wake, engine, hist>>

FenceInc(t) ==
  /\ cl[t].pc = "fence_inc"
  /\ mic_dma_inc_head
  /\ cl' = [cl EXCEPT ![t] = [Idle EXCEPT !.pc = "pending"]]
  /\ prep_lock' = Nobody
  /\ UNCHANGED <<ring, tx_array, last_tail, cookie, completed, notify_hw,
                 abort, clean, handler, wake, engine, done, tailed, txs,
                 notes>>

mic_dma_update_pending(t) ==
  /\ cl[t].pc = "pending"
  /\ Goto(t, "posted")
  /\ IF mic_dma_ring_count(head, last_tail) > PendingLevel
       THEN mic_dma_issue_pending
       ELSE UNCHANGED <<notify_hw, invld, hw, issued, missed>>
  /\ UNCHANGED <<chan, abort, locks, handler, wake, intr, counts, txs,
                 gaveup, aborts>>

\* The caller's dma_async_issue_pending.
Issue(t) ==
  /\ cl[t].pc = "posted"
  /\ Goto(t, "idle")
  /\ mic_dma_issue_pending
  /\ UNCHANGED <<chan, abort, locks, handler, wake, intr, counts, txs,
                 gaveup, aborts>>

\* mic_dma_tx_status of a cookie that is not complete: cleanup follows.
mic_dma_tx_status(t) ==
  /\ cl[t].pc = "idle"
  /\ completed < cookie
  /\ Goto(t, "poll")
  /\ UNCHANGED <<chan, notify_hw, abort, locks, handler, wake, engine, hist>>

-----------------------------------------------------------------------------
(* mic_dma_cleanup, in three parts: cleanup_lock is held from the first to *)
(* the last.                                                               *)

Wants(p) == IF p = Irq THEN wake
                       ELSE cl[p].pc \in {"clean", "sleep", "poll"}

CleanupBegin(p) ==
  /\ clean.by = Nobody
  /\ Wants(p)
  /\ clean' = [by |-> p, head |-> head, idx |-> last_tail,
               n |-> tailed]
  /\ wake' = (wake /\ p # Irq)
  /\ UNCHANGED <<chan, notify_hw, abort, prep_lock, cl, handler, engine, hist>>

\* callback stays set after it has been called.
complete_keeps_callback(i) ==
  LET c == tx_array[i].cookie IN
  IF c = 0 THEN UNCHANGED <<completed, tx_array, txs>>
  ELSE /\ completed' = c
       /\ UNCHANGED tx_array
       /\ txs' = IF tx_array[i].cb
                   THEN [txs EXCEPT ![c].calls = @ + 1] ELSE txs

\* dma_cookie_complete and the callback of the descriptor at i.
Complete(i) ==
  LET c == tx_array[i].cookie IN
  IF c = 0 THEN UNCHANGED <<completed, tx_array, txs>>
  ELSE /\ completed' = c
       /\ tx_array' = [tx_array EXCEPT ![i] = [cookie |-> 0, cb |-> FALSE]]
       /\ txs' = IF tx_array[i].cb
                   THEN [txs EXCEPT ![c].calls = @ + 1] ELSE txs

CleanupStep ==
  /\ clean.by # Nobody
  /\ clean.idx # clean.head
  /\ ~ring[clean.idx].valid
  /\ Complete(clean.idx)
  /\ clean' = [by |-> clean.by, head |-> clean.head,
               idx |-> mic_dma_ring_inc(clean.idx), n |-> clean.n + 1]
  /\ UNCHANGED <<ring, head, last_tail, cookie, notify_hw, abort, prep_lock,
                 cl, handler, wake, engine, counts, notes>>

\* Where a client goes when its cleanup returns.
AfterCleanup(l) == IF l = "clean" THEN "redo"
                   ELSE IF l = "sleep" THEN "lock" ELSE "idle"

CleanupEnd ==
  /\ clean.by # Nobody
  /\ clean.idx = clean.head \/ ring[clean.idx].valid
  /\ last_tail' = clean.idx
  /\ tailed' = clean.n
  /\ clean' = Unlocked
  /\ cl' = IF clean.by = Irq THEN cl
           ELSE [cl EXCEPT ![clean.by].pc = AfterCleanup(@)]
  /\ UNCHANGED <<ring, tx_array, head, cookie, completed, notify_hw, abort,
                 prep_lock, handler, wake, engine, posted, done, txs, notes>>

-----------------------------------------------------------------------------
(* mic_dma_intr_handler *)

mic_dma_ack_interrupt ==
  /\ ~handler.on
  /\ intr # {}
  /\ handler' = [on |-> TRUE, reg |-> intr]
  /\ intr' = {}
  /\ UNCHANGED <<chan, notify_hw, abort, locks, cl, wake, invld, hw, hist>>

Served(b) == handler' = [handler EXCEPT !.reg = @ \ {b}]

\* Never looks at the ring.
invld_desc_no_check ==
  /\ handler.on /\ "invld" \in handler.reg
  /\ Served("invld")
  /\ notify_hw' = (notify_hw \/ invld)
  /\ UNCHANGED <<invld, hw>>
  /\ UNCHANGED <<chan, abort, locks, cl, wake, intr, hist>>

mic_dma_invld_desc_interrupt ==
  /\ handler.on /\ "invld" \in handler.reg
  /\ Served("invld")
  /\ IF ~notify_hw /\ invld
       THEN IF ring[mic_dma_ring_dec(head)].valid
              THEN ClearInvld /\ UNCHANGED notify_hw
              ELSE notify_hw' = TRUE /\ UNCHANGED <<invld, hw>>
       ELSE UNCHANGED <<notify_hw, invld, hw>>
  /\ UNCHANGED <<chan, abort, locks, cl, wake, intr, hist>>

\* The k-th slot after last_tail.
At(k) == IF last_tail + k < RX_SIZE THEN last_tail + k
                                    ELSE (last_tail + k) - RX_SIZE

\* Distances from last_tail of the valid descriptors before head.
ValidBeforeHead == {k \in Slots : k < Used(head, last_tail) /\ ring[At(k)].valid}

\* The search for a valid descriptor is left out.
first_valid_is_head == head

\* "Make sure next reg points to the first valid entry or head".
FirstValid ==
  IF ValidBeforeHead = {} THEN head
  ELSE At(CHOOSE k \in ValidBeforeHead : \A j \in ValidBeforeHead : k <= j)

\* The counter after an abort that leaves the LAST register where hw.last is.
AbortCounter == IF abort.tail # hw.last THEN 0 ELSE abort.counter + 1

\* The restart is mic_dma_enable_chan.
mic_dma_abort_interrupt ==
  /\ handler.on /\ "abort" \in handler.reg /\ "invld" \notin handler.reg
  /\ Served("abort")
  /\ abort' = [tail |-> hw.last, counter |-> AbortCounter]
  /\ IF AbortCounter < AbortTries
       THEN /\ hw' = [hw EXCEPT !.next = FirstValid, !.mode = "run"]
            /\ invld' = FALSE
            /\ notify_hw' = TRUE
            /\ UNCHANGED gaveup
       ELSE /\ hw' = [hw EXCEPT !.next = FirstValid]
            /\ gaveup' = TRUE
            /\ UNCHANGED <<invld, notify_hw>>
  /\ UNCHANGED <<chan, locks, cl, wake, intr, counts, txs, issued, missed,
                 aborts>>

\* Return: IRQ_WAKE_THREAD when a descriptor with its interrupt bit is done.
HandlerReturn ==
  /\ handler.on /\ handler.reg \subseteq {"done"}
  /\ handler' = [on |-> FALSE, reg |-> {}]
  /\ wake' = (wake \/ "done" \in handler.reg)
  /\ UNCHANGED <<chan, notify_hw, abort, locks, cl, engine, hist>>

-----------------------------------------------------------------------------
(* The DMA engine *)

\* Fetch the descriptor at NEXT: move it, or note that it is not valid.
HwFetch ==
  /\ hw.mode = "run"
  /\ hw' = [hw EXCEPT !.mode = IF ring[hw.next].valid THEN "xfer" ELSE "inv"]
  /\ UNCHANGED <<chan, notify_hw, abort, locks, cl, handler, wake, invld, intr,
                 hist>>

HwDone ==
  /\ hw.mode = "xfer"
  /\ ring' = [ring EXCEPT ![hw.next] = Empty]
  /\ intr' = IF ring[hw.next].intr THEN intr \cup {"done"} ELSE intr
  /\ hw' = [next |-> mic_dma_ring_inc(hw.next), last |-> hw.next,
            mode |-> "run"]
  /\ done' = done + 1
  /\ UNCHANGED <<tx_array, head, last_tail, cookie, completed, notify_hw,
                 abort, locks, cl, handler, wake, invld, posted, tailed, txs,
                 notes>>

HwInvld ==
  /\ hw.mode = "inv"
  /\ invld' = TRUE
  /\ intr' = intr \cup {"invld"}
  /\ hw' = [hw EXCEPT !.mode = "stop"]
  /\ UNCHANGED <<chan, notify_hw, abort, locks, cl, handler, wake, hist>>

\* A fault: the descriptor being moved is not done.
HwAbort ==
  /\ hw.mode = "xfer"
  /\ aborts < MaxAbort
  /\ intr' = intr \cup {"abort"}
  /\ hw' = [hw EXCEPT !.mode = "abort"]
  /\ aborts' = aborts + 1
  /\ UNCHANGED <<chan, notify_hw, abort, locks, cl, handler, wake, invld,
                 counts, txs, issued, missed, gaveup>>

-----------------------------------------------------------------------------
Client(t) ==
  \/ Redo(t)
  \/ mic_dma_prog_memcpy_desc(t)
  \/ ProgInc(t)
  \/ mic_dma_tx_submit_unlock(t)
  \/ mic_dma_fence_intr_desc(t)
  \/ FenceInc(t)
  \/ mic_dma_update_pending(t)
  \/ Issue(t)

Cleanup == CleanupStep \/ CleanupEnd

Handler ==
  \/ mic_dma_ack_interrupt
  \/ mic_dma_invld_desc_interrupt
  \/ mic_dma_abort_interrupt
  \/ HandlerReturn

Engine == HwFetch \/ HwDone \/ HwInvld

Next ==
  \/ \E t \in Clients :
       \/ mic_dma_prep_memcpy_lock(t)
       \/ mic_dma_tx_status(t)
       \/ Client(t)
  \/ \E p \in Threads : CleanupBegin(p)
  \/ Cleanup
  \/ Handler
  \/ Engine
  \/ HwAbort

Spec == Init /\ [][Next]_vars

(***************************************************************************)
(* A client that has called into the driver runs on, so does whoever holds *)
(* cleanup_lock, the interrupt handler, the interrupt thread and the       *)
(* engine.  The spin locks are fair.  Nobody has to prepare a transaction  *)
(* or to poll, and the engine need not fail.                               *)
(***************************************************************************)
FairSpec ==
  /\ Spec
  /\ \A t \in Clients : WF_vars(Client(t)) /\ SF_vars(Redo(t))
  /\ \A p \in Threads : SF_vars(CleanupBegin(p))
  /\ WF_vars(Cleanup)
  /\ WF_vars(Handler)
  /\ WF_vars(Engine)

-----------------------------------------------------------------------------
Tx == [last : Nat, intr : BOOLEAN, calls : Nat]

Labels == {"idle", "clean", "redo", "sleep", "lock", "prog", "inc", "fence",
           "fence_inc", "pending", "posted", "poll"}

ChanOK ==
  /\ ring \in [Slots -> [valid : BOOLEAN, intr : BOOLEAN, seq : Nat]]
  /\ tx_array \in [Slots -> [cookie : Nat, cb : BOOLEAN]]
  /\ head \in Slots /\ last_tail \in Slots
  /\ cookie \in Nat /\ completed \in Nat
  /\ notify_hw \in BOOLEAN
  /\ abort \in [tail : Slots, counter : Nat]

ThreadOK ==
  /\ prep_lock \in Clients \cup {Nobody}
  /\ clean \in [by : Threads \cup {Nobody}, head : Slots, idx : Slots, n : Nat]
  /\ cl \in [Clients -> [pc : Labels, n : Nat,
                         flags : {"none", "fence", "intr"}]]
  /\ handler \in [on : BOOLEAN, reg : SUBSET {"invld", "done", "abort"}]
  /\ wake \in BOOLEAN

EngineOK ==
  /\ invld \in BOOLEAN
  /\ intr \in SUBSET {"invld", "done", "abort"}
  /\ hw \in [next : Slots, last : Slots,
             mode : {"run", "xfer", "inv", "stop", "abort"}]

HistOK ==
  /\ posted \in Nat /\ done \in Nat /\ tailed \in Nat /\ issued \in Nat
  /\ txs \in Seq(Tx)
  /\ missed \in BOOLEAN /\ gaveup \in BOOLEAN /\ aborts \in Nat

\* The type of the channel, the threads' locals, the engine and the history.
TypeOK == ChanOK /\ ThreadOK /\ EngineOK /\ HistOK

\* A descriptor is written only into a slot that the engine has moved and
\* that last_tail has passed, and one slot stays empty: the space check of
\* mic_dma_prog_memcpy_desc, made once for all the descriptors of a request
\* and its fence, stays true although last_tail and the engine move on.
SlotFree ==
  \A t \in Clients :
    (cl[t].pc = "prog" /\ cl[t].n > 0) \/ cl[t].pc = "fence" =>
      /\ ~ring[head].valid
      /\ mic_dma_ring_inc(head) # last_tail

\* The engine moves the descriptors once each and in the order they were
\* written, also after mic_dma_abort_interrupt has moved its NEXT register.
MovedInOrder ==
  hw.mode = "xfer" => ring[hw.next].valid /\ ring[hw.next].seq = done + 1

\* dma_cookie_status never reports a transaction as complete before the engine
\* has moved its last descriptor, whatever mic_dma_cleanup finds in tx_array.
CompletedMoved ==
  \A c \in 1 .. Len(txs) :
    c <= completed => txs[c].last <= done

\* A callback is called at most once, and only when everything the
\* transaction has programmed is moved, whichever thread runs the cleanup.
CallbackOnce ==
  \A c \in 1 .. Len(txs) :
    /\ txs[c].calls <= (IF txs[c].intr THEN 1 ELSE 0)
    /\ txs[c].calls = 1 => txs[c].last <= done

\* Completion is true to the engine: neither the status of a cookie nor a
\* callback, however cleanups and submissions are interleaved, comes before
\* the descriptors are moved, and no callback is called twice or for nothing.
CompletionTrue == CompletedMoved /\ CallbackOnce

\* What the serialisation of issue_pending and the invalid-descriptor
\* interrupt is for: until the engine first fails, notify_hw is set only while
\* the engine has set DESC_INVLD_STATUS and waits, so that the clear of
\* issue_pending is never overwritten.
NotifyWhenStopped ==
  aborts = 0 /\ notify_hw => invld /\ hw.mode = "stop"

\* Descriptors in the ring when issue_pending is called are moved, unless it
\* has logged that DESC_INVLD_STATUS is not set or recovery has given up: the
\* handler restarts an engine that stopped just before they were written.
PickedUp == []<>(done >= issued \/ missed \/ gaveup)

\* The callback of an issued transaction is called, by the interrupt thread
\* when nobody polls.
CallbackCalled ==
  \A c \in 1 .. MaxTx :
    (/\ c <= Len(txs) /\ txs[c].intr
     /\ txs[c].last <= issued)
      ~> (\/ c <= Len(txs) /\ txs[c].calls = 1
          \/ missed \/ gaveup)

=============================================================================
