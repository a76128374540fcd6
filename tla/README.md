# A verification model of the Xeon Phi software stack (MPSS)

The repository holds two generations of Intel's Manycore Platform Software
Stack: `mpss3` (Knights Corner) and `mpss4` (Knights Landing). This directory
models the part whose correctness is hardest to test: the kernel drivers of
`mpss4` (`mpss4/mpss-modules`), through which the host and the cards talk over
PCIe. Paths below are relative to `mpss4/mpss-modules/mic/` unless they start
with `mpss`.

* [The system](#the-system): the parts, their state and what makes them hard
* [Modules](#modules): which module models what, and what it leaves out
* [Runs](#runs): what TLC checks, with which bounds and which fairness
* [Proofs](#proofs): what TLAPS proves, from what, and along which argument
* [What the checks found](#what-the-checks-found): disagreements and
  observations
* [Not modelled](#not-modelled)

## The system

Host and cards are *nodes*. Every pair of nodes shares memory over PCIe and can
raise a doorbell interrupt on the other side; nothing else connects them.

| part | source | state | what is hard | module |
|---|---|---|---|---|
| ring buffer | `scif/scif_rb.c` | memory, two published and two cached offsets | no lock between producer and consumer; wrap; full versus empty | ScifRb, ByteRing |
| endpoints, ports | `scif/scif_api.c`, `scif_epd.c`, `scif_fd.c`, `scif_ports.c` | endpoint structures, the lists they are on, port reference counts | a handshake by message against closes and timeouts; addresses that are used again | ScifConn |
| byte stream | `scif/scif_api.c` | ring, wait queues, `sendlock`, `recvlock` | wake-ups, chunks, signals, disconnection in the middle | ScifStream |
| nodes | `scif/scif_nm.c`, `scif_nodeqp.c`, `scif_peer_bus.c`, `scif_main.c` | queue pairs, peer devices, acknowledgement counts | removal by either side during set-up, connects and another removal | ScifNode |
| fences | `scif/scif_fence.c`, `scif_dma.c` | marks, requests, reference counts | answers and callbacks against closes and lost nodes | ScifFence |
| COSM | `cosm/*.c`, `cosm_client/*.c`, `mic_x200/mic_boot.c` | card state, current command, work items, session | aborts, timeouts, restarts of the card, messages of an earlier boot | Cosm |
| DMA engine | `mpss4/mpss-modules/mic_x200_dma` | descriptor ring, cookies | engine and software both own the ring | MicDma |

The parts build on each other. A node queue pair is a pair of rings, and the
connection handshake runs over it; each connection has a pair of rings of its
own for its byte stream; fences order the copies of a connection, which are
descriptors of a DMA channel; COSM talks to its client on the card over a SCIF
connection, and its commands boot and reset the nodes that all the others live
on.

Correctness, in a sentence each: the ring delivers what was written; the two
ends of a connection agree that it exists; a stream neither loses, repeats nor
mixes bytes, and tells the truth about how far it got; a fence covers the copies
it was asked to cover; no descriptor is overwritten or reported complete early;
memory is not used after it has been given back; nobody waits for ever; a card
is always in a state that the next command can lead out of. The places where
this is hard to test are listed, with their lines, under `hazards` in
`PROJECT.json`.

## Modules

Every definition that models code is listed with its lines under `map` in
`PROJECT.json`. Definitions marked *Mutant* are plausible bugs: the property
they belong to is violated when the definition after them is replaced by them.

### ByteRing and ScifRb: the ring buffer

`ByteRing` is the promise: a queue of bounded room with one producer and one
consumer, each of which sees what the other has published. `ScifRb` is
`scif_rb.c`: each side has its cached offset and publishes it with
`scif_rb_commit` and `scif_rb_update_read_ptr`. Copies in and out go byte by
byte, so that the other side runs between any two bytes. The code masks offsets
with size - 1, so its sizes are powers of two; the model takes the remainder
modulo the size, which is the same for these, and its theorems hold for every
size above one. The write barriers make the order of stores the order of steps;
weaker memory is not modelled. `ImplementsRing` is the refinement mapping.

### ScifConn: endpoints and ports

Node A connects, node B listens and accepts. An endpoint is its address in
kernel memory, which travels in messages and is allocated again; a ghost counter
(`birth`) tells successive endpoints at one address apart. `pc` is the place of
the system call that works on an endpoint, cut where the code gives up its locks
or waits. Messages between two nodes are a FIFO each way, as the node queue pair
keeps them in order. Each of the eight connection messages is an action; the one
handler that gives up a lock in the middle is two (`scif_cnctreq`,
`cnctreq_queue`). `refs` is the port table, with the conversion of `-ENOSPC` to
a 16-bit port number.

A connect and a close may give up waiting at any moment (`conn_timeout`,
`disconnect_return`), and an allocation or mapping of connect and accept may
fail; `MaxTrouble` bounds these together. The ghost `late` holds the addresses
at which a connect or a close has timed out: most properties speak of the other
addresses (`OnTime`), because the code has nothing to tell a late answer from
the answer to the next call at the same address, and the properties fail there.

Simplifications: sends on the node queue pair do not fail and nodes stay alive;
no connection of a node with itself; no non-blocking connect; one thread per
endpoint; a write to freed memory has no effect unless the address has been
allocated again; dropping the last port reference and entering the zombie list
are one step. An endpoint is closed only when no other call is inside it, as the
descriptor of an open file is; that includes the listener of an accept that
waits.

### ScifStream: send and receive

Any number of threads send at end A and receive at end B of one connection, each
end used by a kernel client or by user space (`Kernel`), while either is closed.
A call takes `sendlock` or `recvlock` where the code does, loops under the
endpoint's spin lock, gives it up to wait, and may be hit by a signal. User
calls are cut into chunks. The ring is abstract here: `stream` is everything
ever committed, `rd` and `released` how far it has been read and given back.
`UsesRing` states that this is `ByteRing`, which ScifRb implements.

Simplifications: notices to the peer are never refused, which leaves out the
early returns of `_scif_send` and `_scif_recv` after a refused one
(`scif_api.c:976`, `:1050`); one direction at a time; no loopback and no
`scif_poll()`. A close waits for whoever holds `sendlock` or `recvlock`, then
for the acknowledgement of its disconnect or until that wait times out
(`disconnect_timeout`; such a close goes through the places "late" and "lost"
instead of "teardown" and "gone"). A thread that has been called but has not
entered may still come after the close. `Mixed` lets kernel clients send without
`SCIF_SEND_BLOCK`; such calls bypass `sendlock` and can land in the middle of a
blocking send of another thread, so the absence of fragmentation is stated for
`Mixed = FALSE`.

### ScifNode: set-up and removal of nodes

The host and its cards. A thread is a call stack of frames of which the head one
runs: the ordered work queue of each queue pair, the loopback queue of the host,
the remove callbacks of the hardware devices, and callers of `scif_connect()`
and `scif_get_node_info()`. A behaviour begins in one of the `Scenarios`: how
many cards there are, whether the network is up or every `SCIF_INIT` is under
way, and which calls are made. Waits for `SCIF_NODE_ALIVE_TIMEOUT` may expire at
any time. The ghosts `clean` and `held` of a device say that its endpoints have
been invalidated, and that a connect held the peer device when it was
unregistered. `scif_exit_ack` consumes its message although the handler loop
stops before it publishes the read pointer (`scif_nodeqp.c:1098`):
`scif_rb_get_next` has moved the local one. Simplifications: allocations do not
fail, a queue pair is never full and is set up once, `scif_poll_qp_state()`
finds the other card.

### ScifFence: marks, waits and signals

Each end has the DMA channel it reserved when it connected; a cookie is a
position in the channel, descriptors complete in order and their callbacks run
later, in order too (MicDma is the detailed channel). A call marks, waits or
signals for the copies of its own end or of the peer; the peer answers from its
message handler, and waits from the work queue `misc_work`; either end closes,
and a node may be lost. A behaviour begins in one of the `Scenarios`, the calls
each thread makes. Simplifications: refused calls are no steps; registered
windows are left out, so that a signal may find one or not; the host's loopback
connection uses no DMA and is left out. The wait of a close for its
acknowledgement may time out at any moment (`closer` is then "late").

### Cosm: the life of a card

The current command, the card's state and `command_mutex` (`cosm_main.c`); the
state flow work item, from its start over invoke, poll, switch of state and the
clearing of the command, each a step of its own because the two last ones are
visible separately; the server thread with its `flush_work` and the work item of
a session (`cosm_scif_server.c`); the client and its notifiers on the card; and
what the hardware operations of `mic_boot.c` do to it. The tables `cosm_states`
and `cosm_commands` are operators. A session is one connection; what it sent
stays readable after it has been closed, as ScifStream shows
(`ResetMeansDrained`). Simplifications: one card; heartbeats are the absence of
`work_hang`; no attributes other than `state`, no removal of the driver.

### MicDma: the descriptor ring of a DMA channel

Clients prepare and submit transactions under `prep_lock`, each a number of
descriptors with an optional fence or interrupt descriptor; `mic_dma_cleanup`
runs in the clients and in the interrupt thread under its own lock; the
interrupt handler deals with completion, an empty ring and an abort. A step is
the code between two points at which somebody else is seen. The engine is
external: the `Hw` actions fetch, move, stop at an invalid descriptor and fail,
as the driver's registers and comments have it. Simplifications: a behaviour
begins when `mic_dma_chan_setup` has run and the engine has found the ring
empty, so the moments between the two are left out; no allocation or release of
the channel; the wait for the engine to acknowledge an abort is one step that
succeeds, which leaves out the branch for an abort bit that is still set
(`mic_x200_dma.c:920`).

## Runs

| run | module, cfg | asks |
|---|---|---|
| `rb` | MCScifRb | is every step of the ring in shared memory a step of the bounded queue `ByteRing` |
| `conn` | MCScifConn, ScifConn | with timeouts and failures, addresses and the last port number used again: does the accepting side always have its peer, is it the port that was asked for, do replies and disconnects find the endpoint they are for, are ports given back, are grants and disconnects answered |
| `stream` | MCScifStream, ScifStream | are messages whole, results true, resets late enough, messages for answered closes never stray; are sleepers woken, is the ring a bounded queue, does close return |
| `node` | MCScifNode, ScifNode | do acknowledgements follow the clean-up, is nothing of a removed card kept, does a reference protect the queue pair, do removals return and both sides agree |
| `fence` | MCScifFence, ScifFence | does a wait cover its mark, are signals queued behind the copies, do answers find their request and fences their endpoint, do calls return |
| `cosm` | MCCosm, Cosm | are commands neither lost nor mixed up, is there one session, is the echo of a command ignored, does every command end, does the server go on |
| `dma` | MCMicDma, MicDma | is no descriptor overwritten, moved twice or out of order, nothing reported or called back early, are issued descriptors picked up |
| `conn_half`, `conn_hang`, `conn_port` | MCScifConn, ScifConnHalf, ScifConnHang, ScifConnPort | disagreements, each as a counterexample (below) |
| `cosm_stale`, `dma_callback` | MCCosm, CosmStale; MCMicDma, MicDmaCallback | likewise |

**Bounds.** Each is a named constant, and as small as the hard cases allow.

* `rb`: six bytes through a ring of four wrap it, with messages of up to three
  that are split at its end.
* `conn`: two connecting endpoints, of which the second is given the port number
  that `-ENOSPC` turns into, one listener that may bind either of two ports, one
  slot whose address is used twice, and one timeout, failed allocation or failed
  mapping (`MaxTrouble`) at any moment. This is enough for an answer to reach
  the wrong attempt, for an address to be used again under a connection that is
  half open, and for both sides to close at once. The three violation runs need
  one endpoint of each kind.
* `stream`: a ring with room for one byte and messages of two force every send
  to wait, two senders compete, and one signal hits any of them or one close
  gives up waiting (`MaxTrouble`).
* `node`: ten scenarios of one or two cards (`MCScifNode`), each a removal that
  meets the set-up, a connect in either direction, a request for node
  information or another removal. Two cards that are both removed are left out
  for the time they take.
* `fence`: seven scenarios (`MCScifFence`) of up to three threads with one or
  two calls each, among them crossing waits, signals of both kinds, closes and a
  lost node.
* `cosm`: two commands after the reset at probe are enough to abort a command
  and start another, two connections to have an old and a new session, one
  failed boot, one interrupted wait. `cosm_stale` needs three commands.
* `dma`: three transactions through a ring of three wrap it and fill it; one
  failure of the engine.

**Symmetry** is used in `conn`, for safety only, among addresses of one kind and
among the ports of node B.

**Deadlock** is not checked: clients may stop calling, and a bounded run ends.
That nobody is stuck is what the liveness properties state.

**Fairness** is assumed only for code that the kernel runs by itself. ScifConn:
calls in progress go on and messages are handled, but nobody needs to call
anything; only `conn_hang` uses it. ScifStream: threads inside a call, closes
and handlers go on; no signal need come and no timeout is counted on. Cosm:
callers, work items and the server go on, the poll for a heartbeat times out if
the card is silent, and a command that polls either completes or times out;
nothing is assumed of the card. MicDma: clients inside a call, the interrupt
thread and the engine go on, and a thread that waits for the cleanup lock, or to
redo a prepare that found no space, gets its turn (strong fairness; the locks
are handed over). ScifNode and ScifFence have no cycles, so that every behaviour
ends: there `RemoveReturns`, `Agreed` and `CallReturns` state that the system
does not come to rest before the call has returned or both sides agree, which
under weak fairness of `Progress` is the same as that it happens.

## Proofs

TLAPS checks the theorems below for every value of the constants that satisfies
the named assumptions of the component's module: sizes above one, positive
chunks, disjoint sets of threads and addresses, bounds that are natural numbers.
Sets of threads, sizes, bounds and scenarios are otherwise arbitrary. The type
invariants of these five components are proved here rather than checked in runs;
that of ScifNode is checked by `node`. Every proof module begins by naming its
default back ends: SMT, several times because a translation may run out of time
on a busy machine, then Zenon.

**ScifRbProofs.** `Delivery` (`InOrder`), `NoOverwrite` (`UnreadIntact`) and
`Refinement` (`ImplementsRing`) follow from `IInv`, which ties the offsets to
byte counts that never wrap: each offset is its count modulo `Size`, the
producer is less than `Size` ahead of what the consumer has released, and every
slot between holds the byte that was sent. The argument needs no more than facts
about remainders, stated as lemmas.

**ScifStreamProofs.** `Counts` (`CountsTrue`), `Drained` (`ResetMeansDrained`)
and `NoStrayMessage` (`MessageFindsEndpoint`) follow from `IInv`. It says where
the bytes of a call are (`CallInv`), what an endpoint's place in its close says
about its state and list (`EndInv`), and which messages may be under way: a
disconnect is the last thing an endpoint sends on its own account, an
acknowledgement the last of all (`MessageInv`), and after either the queue stays
empty (`QuietInv`). `NoStrayMessage` is about a close that had its answer, while
the close of the other end may time out: the invariant has a clause for each
place of such a close. `Drained` alone is not inductive: it needs that a
disconnected end has a peer that sends no more. `Whole` (`NotFragmented`) rests
on a second invariant, `WholeInv`: a sender inside its call holds `sendlock`,
and the bytes of a message that is not finished are the last of the stream. It
assumes that kernel clients block (`~Mixed`). `Refinement` (`UsesRing`) shows
that the stream uses its ring as `ByteRing`: with `ScifRbProofs` the ring in
memory is what the stream needs.

**CosmProofs.** `Stability` (`StableWhenIdle`), `NoLostCommand`
(`CommandHasFlow`), `Warnings` (`NoWarning`), `StartSeen` (`StartedOnReturn`)
and `Sessions` (`OneSession`) follow from one invariant that says, for each
place of the state flow and of the callers, what the stored command, the state
before it and the completion are. It is needed because none of them is
inductive: `StableWhenIdle` depends on what the flow will switch to, that on the
command it was started for, and that on the mutex and the `cancel_work_sync` of
the callers. `Echo` (`EchoIgnored`) has an invariant of its own, `EchoInv`:
sessions come into use in their order, and once a card has been asked in this
boot to shut down or to reboot, or its answer is under way, the card is not
online and no flow is about to make it so.

**MicDmaProofs.** `SlotsFree` (`SlotFree`), `Order` (`MovedInOrder`) and
`Completion` (`CompletedMoved`) follow from `Ind`. Distances are measured from
`last_tail`: the invariant says which slots hold valid descriptors (from the
engine's position to the last one written), that the holder of `prep_lock` still
has the space it has asked for however head, tail and engine have moved
meanwhile, and that no cookie in `tx_array` belongs to a transaction that ends
behind its slot. `Callbacks` (`CompletionTrue`) adds `CallInv`: a callback in
`tx_array` has not been called, is in the slot of the last descriptor of its
transaction, and no cleanup under way has passed it. `Notify`
(`NotifyWhenStopped`) adds `StopInv`, about the engine and `notify_hw`, until
the engine fails.

**ScifFenceProofs.** `WaitCovers` (`WaitedDone`) follows from `FenceInv`, which
follows a mark and a wait through the messages: a message that belongs to the
latest call of its thread agrees with it, a `MARK_ACK` carries a cookie behind
what the call is to cover, and a `WAIT_ACK` is sent after its mark is done.

**Only model-checked.** The liveness properties (`NoLostWakeup`, `CloseReturns`,
`CommandEnds`, `ServerReturns`, `PickedUp`) and those that speak of `ENABLED`
(`RemoveReturns`, `Agreed`, `CallReturns`) are outside the prover's reach. The
other properties of ScifConn and ScifNode, and `SignalsQueued`,
`AnswerFindsRequest` and `EndpointFound` of ScifFence, are checked on the
instances above and not proved: they relate every message under way to the place
of every call on both sides, and their inductive strengthenings have not been
written.

## What the checks found

Each of these is a run that ends in a counterexample, and an entry of `findings`
with the lines of the code and of the text it contradicts.

* `conn_half`: a connecting endpoint acknowledges the grant before it enters the
  connected list. If the accepted endpoint is closed in between, its disconnect
  finds nobody, and the connecting side stays connected to an endpoint that is
  gone.
* `conn_hang`: a grant that meets a connect which has timed out is not answered,
  and the accept waits for ever; `scif.h` lists `EAGAIN` for it.
* `conn_port`: a disconnect that is handled before its accept has taken a
  reference on the port drops the reference of the listener, whose port is then
  free while it listens.
* `cosm_stale`: an ONLINE of an aborted boot, read late, completes the next
  boot; a notice left over from the earlier boot may then be executed, too.
* `dma_callback`: the interrupt descriptor is valid before head has passed it;
  the interrupt thread that looks in between stops short of it, and the callback
  is not called.

Met while modelling, and left without a run of their own:

* closing a listener drops pending requests (`scif_api.c:293`); `scif.h` says
  that they are rejected. The connects end by their timeout. So do those whose
  request is queued to a listener that is closed between the two locks of
  `scif_cnctreq()` (`scif_epd.c:179`);
* a user's call that is interrupted in a later chunk returns the error alone and
  hides what it has moved (`scif_api.c:1153`);
* once a connect or a close has timed out, a late grant or a late `DISCNT_ACK`
  is taken by the next endpoint at the same address (`scif_epd.c:215`, `:356`),
  and messages reach an endpoint that has been freed; the properties of
  ScifConn, ScifStream and ScifFence that this breaks are stated for the other
  endpoints;
* of several accepts on one port that are all disconnected before they return,
  one may leave a reference on the port for good (`NoPortLeak` is stated for one
  slot);
* a card that removes itself while one of its connects holds the peer device of
  the host may never send its EXIT, and the host keeps it as a peer (`Agreed`
  excuses that case by `held`);
* non-blocking kernel sends bypass `sendlock` and can land in the middle of a
  blocking send of another thread (`Mixed`);
* a host that removes a card during the set-up forwards a `NODE_ADD_ACK` for
  which there is no queue pair any more (`scif_nodeqp.c:896`);
* a removal that names a node whose peer device was never registered is not
  acknowledged (`scif_nm.c:193`), which costs a timeout, and a late
  `NODE_REMOVE_ACK` counts for the next removal (`scif_nm.c:239`), whose wait may
  end early or last its whole timeout; no property forbids either;
* the peer-to-peer work queue that drops the last reference destroys itself
  (`scif_nm.c:164`);
* `scif_fence_mark_cb()` drops the last reference of an endpoint without
  scheduling the work that would free it (`scif_fence.c:588`);
* when its node is gone, a fence request is freed although an answer may be on
  its way; and a request to a peer whose close has timed out may never be
  answered, while its caller waits for as long as the node is alive.

## Not modelled

`components` in `PROJECT.json` lists every part with its reason. Of the modelled
drivers: non-blocking connect and `scif_poll()`, loopback connections, nodes
that die in the middle of a connection handshake (`scif_invalidate_ep()` is
modelled for endpoints with fences), a full node queue pair and refused sends,
and the destruction of a queue pair under threads that are still inside send or
receive after the peer has disconnected (`scif_api.c:231`). RMA windows and
`mmap` are interval bookkeeping over addresses, larger than everything modelled
so far together. Virtio over PCIe, the address look-up table and the interrupt
sources are register and page polling with no protocol that the models here
depend on. User space, tools and packaging are I/O and configuration. The
drivers of `mpss3` are the ancestors of those of `mpss4`, from which they differ
in power management mainly.
