------------------------------- MODULE ScifRb -------------------------------
(***************************************************************************)
(* The byte ring of the SCIF driver (scif_rb.c): one producer and one      *)
(* consumer on the two sides of the PCIe bus, no lock between them.        *)
(*                                                                         *)
(* Each side keeps a cached offset of its own (current_write_offset,       *)
(* current_read_offset) and publishes it to the other side afterwards      *)
(* (scif_rb_commit, scif_rb_update_read_ptr).  The copies in and out of    *)
(* the ring are not atomic: the model copies one byte per step, so the     *)
(* peer runs between any two bytes.  The write barriers of the code order  *)
(* the copies before the pointer updates, which is the order of the steps. *)
(***************************************************************************)
EXTENDS Integers, Sequences

CONSTANTS Size,      \* rb->size, a power of two
          Data,      \* the values a byte can have
          MaxLen,    \* bound: the longest message a caller writes or reads
          MaxBytes   \* bound: the bytes a behaviour writes in all

ASSUME SizeAssumption == Size \in Nat /\ Size > 1
ASSUME BoundAssumption == MaxLen \in Nat \ {0} /\ MaxBytes \in Nat

VARIABLES mem,                    \* rb_base[0 .. size-1]
          read_ptr, write_ptr,    \* *rb->read_ptr, *rb->write_ptr (shared)
          current_read_offset, current_write_offset,
          wmsg, wdone,            \* writer inside memcpy_torb: message, bytes copied
          rhdr, rlen, rdone,      \* reader inside memcpy_fromrb: header, size, bytes copied
          sent, rcvd,             \* history: bytes copied into / out of the ring
          committed, freed        \* history: bytes published by commit / update_read_ptr

wvars == <<current_write_offset, wmsg, wdone>>
rvars == <<current_read_offset, rhdr, rlen, rdone>>
vars == <<mem, read_ptr, write_ptr, wvars, rvars, sent, rcvd, committed, freed>>

Messages == UNION {[1..n -> Data] : n \in 1..MaxLen}

(* CIRC_CNT and CIRC_SPACE of linux/circ_buf.h: "& (size-1)" on a power of two. *)
scif_rb_ring_cnt(head, tail) == (head - tail) % Size

scif_rb_ring_space(head, tail) == (tail - (head + 1)) % Size

scif_rb_space == scif_rb_ring_space(current_write_offset, read_ptr)

(* Mutant: counted from the published read pointer, not from the cached one. *)
rb_count_published == scif_rb_ring_cnt(write_ptr, read_ptr)

scif_rb_count == scif_rb_ring_cnt(write_ptr, current_read_offset)

(* memcpy_torb / memcpy_fromrb: byte k of a message whose header is at     *)
(* offset off.  The first size1 bytes go to the end of the ring, the rest  *)
(* to its base.                                                            *)
Slot(off, k) == LET size1 == Size - off
                IN  IF k < size1 THEN off + k ELSE k - size1

Init == /\ mem \in [0..Size-1 -> Data]
        /\ read_ptr = 0 /\ write_ptr = 0
        /\ current_read_offset = 0 /\ current_write_offset = 0
        /\ wmsg = <<>> /\ wdone = 0
        /\ rhdr = 0 /\ rlen = 0 /\ rdone = 0
        /\ sent = <<>> /\ rcvd = <<>> /\ committed = 0 /\ freed = 0

-----------------------------------------------------------------------------
(* The writer.  scif_rb_write reads the shared read pointer once; without  *)
(* room it returns -ENOMEM and changes nothing.                            *)
scif_rb_write(msg) ==
    /\ wmsg = <<>>
    /\ Len(sent) + Len(msg) <= MaxBytes
    /\ scif_rb_space >= Len(msg)
    /\ wmsg' = msg
    /\ UNCHANGED <<mem, read_ptr, write_ptr, current_write_offset, wdone, rvars,
                   sent, rcvd, committed, freed>>

(* One byte of memcpy_torb; with the last byte scif_rb_write advances its  *)
(* cached offset and returns.                                              *)
memcpy_torb ==
    /\ wmsg # <<>>
    /\ mem' = [mem EXCEPT ![Slot(current_write_offset, wdone)] = wmsg[wdone + 1]]
    /\ sent' = Append(sent, wmsg[wdone + 1])
    /\ \/ /\ wdone + 1 < Len(wmsg)
          /\ wdone' = wdone + 1
          /\ UNCHANGED <<wmsg, current_write_offset>>
       \/ /\ wdone + 1 = Len(wmsg)
          /\ wdone' = 0
          /\ wmsg' = <<>>
          /\ current_write_offset' = (current_write_offset + Len(wmsg)) % Size
    /\ UNCHANGED <<read_ptr, write_ptr, rvars, rcvd, committed, freed>>

scif_rb_commit ==
    /\ wmsg = <<>>
    /\ write_ptr' = current_write_offset
    /\ committed' = Len(sent)
    /\ UNCHANGED <<mem, read_ptr, wvars, rvars, sent, rcvd, freed>>

-----------------------------------------------------------------------------
(* The reader.  scif_rb_get_next advances its cached offset before it      *)
(* copies; with fewer than size bytes it returns 0 and changes nothing.    *)
scif_rb_get_next(size) ==
    /\ rlen = 0
    /\ scif_rb_count >= size
    /\ rhdr' = current_read_offset
    /\ rlen' = size
    /\ current_read_offset' = (current_read_offset + size) % Size
    /\ UNCHANGED <<mem, read_ptr, write_ptr, wvars, rdone, sent, rcvd, committed, freed>>

(* One byte of memcpy_fromrb.                                              *)
memcpy_fromrb ==
    /\ rlen # 0
    /\ rcvd' = Append(rcvd, mem[Slot(rhdr, rdone)])
    /\ \/ /\ rdone + 1 < rlen
          /\ rdone' = rdone + 1
          /\ UNCHANGED rlen
       \/ /\ rdone + 1 = rlen
          /\ rdone' = 0
          /\ rlen' = 0
    /\ UNCHANGED <<mem, read_ptr, write_ptr, wvars, current_read_offset, rhdr,
                   sent, committed, freed>>

scif_rb_update_read_ptr ==
    /\ rlen = 0
    /\ read_ptr' = current_read_offset
    /\ freed' = Len(rcvd)
    /\ UNCHANGED <<mem, write_ptr, wvars, rvars, sent, rcvd, committed>>

-----------------------------------------------------------------------------
Next == \/ \E msg \in Messages : scif_rb_write(msg)
        \/ memcpy_torb
        \/ scif_rb_commit
        \/ \E size \in 1..MaxLen : scif_rb_get_next(size)
        \/ memcpy_fromrb
        \/ scif_rb_update_read_ptr

Spec == Init /\ [][Next]_vars

-----------------------------------------------------------------------------
(* Every variable has its type: offsets stay inside the ring, and the copies *)
(* of scif_rb_write() and scif_rb_get_next() inside their messages.         *)
TypeOK == /\ mem \in [0..Size-1 -> Data]
          /\ read_ptr \in 0..Size-1 /\ write_ptr \in 0..Size-1
          /\ current_read_offset \in 0..Size-1
          /\ current_write_offset \in 0..Size-1
          /\ wmsg \in Seq(Data) /\ wdone \in Nat
          /\ rhdr \in 0..Size-1 /\ rlen \in Nat /\ rdone \in Nat
          /\ sent \in Seq(Data) /\ rcvd \in Seq(Data)
          /\ committed \in Nat /\ freed \in Nat

(* The consumer gets exactly the bytes the producer wrote, in order, and   *)
(* none that were not committed: no interleaving of a write, a commit, a   *)
(* read and a pointer update at any wrap position lets a byte be lost,     *)
(* repeated, or read before it is there.                                   *)
InOrder == /\ Len(rcvd) <= committed
           /\ \A i \in 1..Len(rcvd) : rcvd[i] = sent[i]

(* Slot of the n-th byte ever written (n from 1).                          *)
SlotOf(n) == (n - 1) % Size

(* A byte the reader has not yet copied out is still in the ring: the     *)
(* producer, which sees only the published read pointer, never overwrites  *)
(* it, although both sides move at the same time.                          *)
UnreadIntact == \A n \in Len(rcvd) + 1 .. Len(sent) : mem[SlotOf(n)] = sent[n]

-----------------------------------------------------------------------------
(* The unwrapped positions of the two cached offsets.                      *)
wpos == Len(sent) - wdone

rpos == Len(rcvd) + rlen - rdone

InProgress == /\ IF wmsg = <<>> THEN wdone = 0 ELSE wdone < Len(wmsg)
              /\ IF rlen = 0 THEN rdone = 0 ELSE rdone < rlen

Order == freed + rdone <= Len(rcvd) /\ rpos <= committed /\ committed <= wpos

Offsets == /\ read_ptr = freed % Size
           /\ write_ptr = committed % Size
           /\ current_read_offset = rpos % Size
           /\ current_write_offset = wpos % Size
           /\ rlen # 0 => rhdr = (Len(rcvd) - rdone) % Size

(* One slot always stays free: a full ring is told from an empty one.      *)
Room == wpos + Len(wmsg) - freed <= Size - 1

(* The inductive invariant: the wrapped offsets are the true positions     *)
(* modulo the ring size, the positions are ordered and less than a ring    *)
(* apart, and the bytes between them are intact.                           *)
IInv == TypeOK /\ InProgress /\ Order /\ Offsets /\ Room /\ UnreadIntact /\ InOrder

-----------------------------------------------------------------------------
(* The ring is a bounded queue: what memcpy_torb() has copied has been put  *)
(* in, scif_rb_commit() publishes it, memcpy_fromrb() takes it out and      *)
(* scif_rb_update_read_ptr() releases it.                                   *)
Ring == INSTANCE ByteRing WITH Values <- Data, Room <- Size - 1,
                               in <- sent, pub <- committed, out <- rcvd, rel <- freed

(* The ring in shared memory implements the bounded queue: no step of       *)
(* scif_rb.c, seen from outside, is anything but a write or a read of it.   *)
ImplementsRing == Ring!Spec
=============================================================================
