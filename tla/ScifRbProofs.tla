---------------------------- MODULE ScifRbProofs ----------------------------
(***************************************************************************)
(* Proofs about the byte ring, for every ring size, alphabet and bound.    *)
(***************************************************************************)
EXTENDS ScifRb, TLAPS

\* A leaf that names no back end is tried with SMT, again when its translation
\* runs out of time, and then with Zenon.
USE SMTT(60), SMTT(61), SMTT(62), SMTT(63), ZenonT(60)

-----------------------------------------------------------------------------
(* Arithmetic modulo the ring size.                                        *)

(* What % and \div mean.                                                   *)
LEMMA DivMod ==
    ASSUME NEW a \in Int
    PROVE  a % Size \in 0..Size-1 /\ a \div Size \in Int
           /\ a = Size * (a \div Size) + (a % Size)
BY SizeAssumption

(* A positive multiple of the ring size is at least the ring size.         *)
LEMMA Multiple ==
    ASSUME NEW q \in Int, q >= 1
    PROVE  Size * q >= Size
BY SizeAssumption

(* The remainder is unique: this is how every wrapped offset below is      *)
(* computed.                                                               *)
LEMMA ModUnique ==
    ASSUME NEW a \in Int, NEW q \in Int, NEW r \in 0..Size-1, a = Size * q + r
    PROVE  a % Size = r
<1> DEFINE p == a \div Size
           s == a % Size
<1>1. s \in 0..Size-1 /\ p \in Int /\ a = Size * p + s
  BY DivMod
<1> HIDE DEF p, s
<1>2. ~ (p - q >= 1)
  <2>1. Size * (p - q) = r - s
    BY <1>1, SizeAssumption
  <2> QED
    BY <2>1, <1>1, Multiple, SizeAssumption
<1>3. ~ (q - p >= 1)
  <2>1. Size * (q - p) = s - r
    BY <1>1, SizeAssumption
  <2> QED
    BY <2>1, <1>1, Multiple, SizeAssumption
<1>4. p = q
  BY <1>1, <1>2, <1>3
<1>5. s = r
  BY <1>1, <1>4, SizeAssumption
<1> QED
  BY <1>5 DEF s

(* Advancing a wrapped offset wraps the advanced position.                 *)
LEMMA ModPlus ==
    ASSUME NEW a \in Int, NEW k \in Int
    PROVE  ((a % Size) + k) % Size = (a + k) % Size
<1> DEFINE p == a \div Size
           s == a % Size
           u == (a + k) \div Size
           v == (a + k) % Size
<1>1. s \in 0..Size-1 /\ p \in Int /\ a = Size * p + s
  BY DivMod
<1>2. v \in 0..Size-1 /\ u \in Int /\ a + k = Size * u + v
  BY DivMod
<1> HIDE DEF p, s, u, v
<1>3. s + k = Size * (u - p) + v
  BY <1>1, <1>2, SizeAssumption
<1>4. (s + k) % Size = v
  BY <1>1, <1>2, <1>3, ModUnique
<1> QED
  BY <1>4 DEF s, v

(* A position below the ring size is its own offset.                       *)
LEMMA ModSmall ==
    ASSUME NEW a \in 0..Size-1
    PROVE  a % Size = a
<1>1. a = Size * 0 + a
  BY SizeAssumption
<1> QED
  BY <1>1, ModUnique, SizeAssumption

(* The two-part copy addresses byte k of a message at position a.          *)
LEMMA SlotIsPosition ==
    ASSUME NEW a \in Int, NEW k \in 0..Size-1
    PROVE  Slot(a % Size, k) = (a + k) % Size
<1> DEFINE s == a % Size
<1>1. s \in 0..Size-1
  BY DivMod
<1>2. (s + k) % Size = (a + k) % Size
  BY ModPlus
<1> HIDE DEF s
<1>3. CASE k < Size - s
  <2>1. (s + k) % Size = s + k
    BY <1>1, <1>3, ModSmall, SizeAssumption
  <2> QED
    BY <2>1, <1>2, <1>3 DEF Slot, s
<1>4. CASE ~ (k < Size - s)
  <2>1. s + k = Size * 1 + (k - (Size - s)) /\ k - (Size - s) \in 0..Size-1
    BY <1>1, <1>4, SizeAssumption
  <2>2. (s + k) % Size = k - (Size - s)
    BY <2>1, <1>1, ModUnique
  <2> QED
    BY <2>2, <1>2, <1>4 DEF Slot, s
<1> QED
  BY <1>3, <1>4

(* scif_rb_ring_cnt of two positions less than a ring apart is their       *)
(* distance.                                                               *)
LEMMA RingCnt ==
    ASSUME NEW h \in Int, NEW t \in Int, h - t \in 0..Size-1
    PROVE  scif_rb_ring_cnt(h % Size, t % Size) = h - t
<1> DEFINE p == h \div Size
           s == h % Size
           u == t \div Size
           v == t % Size
<1>1. s \in 0..Size-1 /\ p \in Int /\ h = Size * p + s
  BY DivMod
<1>2. v \in 0..Size-1 /\ u \in Int /\ t = Size * u + v
  BY DivMod
<1> HIDE DEF p, s, u, v
<1>3. s - v = Size * (u - p) + (h - t)
  BY <1>1, <1>2, SizeAssumption
<1>4. (s - v) % Size = h - t
  BY <1>1, <1>2, <1>3, ModUnique
<1> QED
  BY <1>4 DEF s, v, scif_rb_ring_cnt

(* scif_rb_ring_space is what is left of the ring, less the free slot.     *)
LEMMA RingSpace ==
    ASSUME NEW h \in Int, NEW t \in Int, h - t \in 0..Size-1
    PROVE  scif_rb_ring_space(h % Size, t % Size) = Size - 1 - (h - t)
<1> DEFINE p == h \div Size
           s == h % Size
           u == t \div Size
           v == t % Size
<1>1. s \in 0..Size-1 /\ p \in Int /\ h = Size * p + s
  BY DivMod
<1>2. v \in 0..Size-1 /\ u \in Int /\ t = Size * u + v
  BY DivMod
<1> HIDE DEF p, s, u, v
<1>3. v - (s + 1) = Size * (p - u - 1) + (Size - 1 - (h - t))
  BY <1>1, <1>2, SizeAssumption
<1>4. (v - (s + 1)) % Size = Size - 1 - (h - t)
  BY <1>1, <1>2, <1>3, ModUnique, SizeAssumption
<1> QED
  BY <1>4 DEF s, v, scif_rb_ring_space

(* Different positions less than a ring apart have different slots.        *)
LEMMA SlotsApart ==
    ASSUME NEW a \in Int, NEW b \in Int, a < b, b - a < Size
    PROVE  a % Size # b % Size
<1>1. scif_rb_ring_cnt(b % Size, a % Size) = b - a
  <2>1. b - a \in 0..Size-1
    BY SizeAssumption
  <2> QED
    BY <2>1, RingCnt
<1>2. SUFFICES ASSUME a % Size = b % Size PROVE FALSE
  OBVIOUS
<1>3. (b % Size) - (a % Size) = 0
  BY <1>2, DivMod
<1>4. 0 % Size = 0
  BY ModSmall, SizeAssumption
<1> QED
  BY <1>1, <1>3, <1>4 DEF scif_rb_ring_cnt

-----------------------------------------------------------------------------
(* The positions are integers, and less than a ring apart.                 *)
Apart == /\ wpos \in Nat /\ rpos \in Nat
         /\ wpos - freed \in 0..Size-1
         /\ committed - rpos \in 0..Size-1
         /\ Len(wmsg) \in Nat /\ Len(sent) \in Nat /\ Len(rcvd) \in Nat
         /\ freed \in Nat /\ committed \in Nat
         /\ wdone \in Nat /\ rdone \in Nat /\ rlen \in Nat
         /\ freed + rdone <= Len(rcvd) /\ rdone <= rlen

LEMMA Positions == IInv => Apart
BY SizeAssumption DEF Apart, IInv, TypeOK, InProgress, Order, Room, wpos, rpos

LEMMA InitIInv == Init => IInv
<1> SUFFICES ASSUME Init PROVE IInv
  OBVIOUS
<1>1. 0 % Size = 0
  BY ModSmall, SizeAssumption
<1> QED
  BY <1>1, SizeAssumption
  DEF Init, IInv, TypeOK, InProgress, Order, Offsets, Room, UnreadIntact, InOrder, wpos, rpos

(* scif_rb_write: the space it sees may be stale, but only too small.      *)
LEMMA WriteStep ==
    ASSUME IInv, NEW msg \in Messages, scif_rb_write(msg)
    PROVE  IInv'
<1>0. Apart
  BY Positions
<1>1. msg \in Seq(Data) /\ Len(msg) \in Nat /\ msg # <<>>
  BY BoundAssumption DEF Messages
<1>2. scif_rb_space = Size - 1 - (wpos - freed)
  BY <1>0, RingSpace DEF Apart, IInv, Offsets, scif_rb_space, TypeOK
<1>3. wmsg = <<>> /\ wmsg' = msg /\ wpos' = wpos /\ rpos' = rpos
      /\ UNCHANGED <<mem, read_ptr, write_ptr, current_write_offset, wdone, current_read_offset,
                     rhdr, rlen, rdone, sent, rcvd, committed, freed>>
  BY DEF scif_rb_write, rvars, wpos, rpos
<1>4. TypeOK' /\ InProgress'
  BY <1>1, <1>3 DEF IInv, TypeOK, InProgress
<1>5. Order' /\ Offsets'
  BY <1>3 DEF IInv, Order, Offsets
<1>6. Room'
  BY <1>1, <1>2, <1>0, SizeAssumption
  DEF Apart, IInv, TypeOK, Room, scif_rb_write, wpos, InProgress
<1>7. UnreadIntact' /\ InOrder'
  BY DEF IInv, UnreadIntact, InOrder, SlotOf, scif_rb_write
<1> QED
  BY <1>4, <1>6, <1>7, <1>5 DEF IInv

(* memcpy_torb: the slot written is that of the next byte, and no unread   *)
(* byte lives there.                                                       *)
LEMMA CopyInStep ==
    ASSUME IInv, memcpy_torb
    PROVE  IInv'
<1>0. Apart
  BY Positions
<1> DEFINE b == wmsg[wdone + 1]
           m == Len(sent)
<1>1. wdone \in Nat /\ Len(wmsg) \in Nat /\ wdone < Len(wmsg) /\ b \in Data /\ m \in Nat
      /\ wmsg # <<>>
  BY DEF IInv, TypeOK, InProgress, memcpy_torb
<1>2. wdone \in 0..Size-1
  BY <1>1, <1>0, SizeAssumption DEF Apart, IInv, Room
<1>3. Slot(current_write_offset, wdone) = m % Size
  <2>1. Slot(current_write_offset, wdone) = (wpos + wdone) % Size
    BY <1>2, <1>0, SlotIsPosition DEF Apart, IInv, Offsets
  <2>2. wpos + wdone = m
    BY <1>1, <1>2 DEF wpos
  <2> QED
    BY <2>1, <2>2
<1>4. m % Size \in 0..Size-1
  BY <1>1, DivMod
<1>5. mem' = [mem EXCEPT ![m % Size] = b] /\ sent' = Append(sent, b)
  BY <1>3 DEF memcpy_torb
<1>6. sent' \in Seq(Data) /\ Len(sent') = m + 1 /\ sent'[m + 1] = b
      /\ \A i \in 1..m : sent'[i] = sent[i]
  BY <1>1, <1>5 DEF IInv, TypeOK
<1>7. mem' \in [0..Size-1 -> Data] /\ sent' \in Seq(Data)
       /\ UNCHANGED <<read_ptr, write_ptr, rvars, rcvd, committed, freed>>
  BY ZenonT(60), <1>1, <1>4, <1>5, <1>6 DEF IInv, TypeOK, memcpy_torb
<1>8. TypeOK' /\ InProgress' /\ Offsets'
  <2>1. CASE wdone + 1 < Len(wmsg)
    <3>1. wdone' = wdone + 1 /\ UNCHANGED <<wmsg, current_write_offset>>
      BY <2>1, <1>1 DEF memcpy_torb
    <3>2. wpos' = wpos
      BY <1>1, <1>6, <3>1 DEF wpos
    <3> QED
      BY <1>1, <1>7, <2>1, <3>1, <3>2
      DEF IInv, TypeOK, InProgress, Offsets, rvars, rpos
  <2>2. CASE wdone + 1 = Len(wmsg)
    <3>1. wdone' = 0 /\ wmsg' = <<>>
          /\ current_write_offset' = (current_write_offset + Len(wmsg)) % Size
      BY <2>2, <1>1 DEF memcpy_torb
    <3>2. wpos' = wpos + Len(wmsg)
      BY <1>1, <1>6, <2>2, <3>1 DEF wpos
    <3>3. current_write_offset' = wpos' % Size
      BY <1>1, <3>1, <3>2, <1>0, ModPlus DEF Apart, IInv, Offsets
    <3>4. current_write_offset' \in 0..Size-1
      BY <1>1, <3>2, <3>3, <1>0, DivMod DEF Apart
    <3> QED
      BY <1>1, <1>7, <3>1, <3>3, <3>4 DEF IInv, TypeOK, InProgress, Offsets, rvars, rpos
  <2> QED
    BY <2>1, <2>2 DEF memcpy_torb
<1>9. Order' /\ Room'
  <2>1. rpos' = rpos
    BY <1>7 DEF rpos, rvars
  <2>2. wpos' \in Nat /\ Len(wmsg') \in Nat /\ wpos <= wpos'
        /\ wpos' + Len(wmsg') = wpos + Len(wmsg)
    <3>1. \/ wdone' = wdone + 1 /\ wmsg' = wmsg
          \/ wdone + 1 = Len(wmsg) /\ wdone' = 0 /\ wmsg' = <<>>
      BY DEF memcpy_torb
    <3>2. Len(sent') = Len(sent) + 1
      BY <1>6
    <3>3. Len(sent) - wdone \in Nat /\ Len(sent) \in Nat /\ wdone \in Nat /\ Len(wmsg) \in Nat
          /\ wdone < Len(wmsg)
      BY <1>0, <1>1 DEF Apart, wpos
    <3>4. CASE wdone' = wdone + 1 /\ wmsg' = wmsg
      BY <3>2, <3>3, <3>4 DEF wpos
    <3>5. CASE wdone + 1 = Len(wmsg) /\ wdone' = 0 /\ wmsg' = <<>>
      <4>1. Len(wmsg') = 0
        BY <3>5
      <4> QED
        BY <3>2, <3>3, <3>5, <4>1 DEF wpos
    <3> QED
      BY <3>1, <3>4, <3>5
  <2>3. Order'
    BY <1>7, <2>1, <2>2, <1>0 DEF Apart, IInv, Order, rvars
  <2>4. Room'
    BY <1>7, <2>2, <1>0, SizeAssumption DEF Apart, IInv, Room, rvars
  <2> QED
    BY <2>3, <2>4
<1>10. UnreadIntact'
  <2> SUFFICES ASSUME NEW n \in Len(rcvd)' + 1 .. Len(sent)'
               PROVE  mem'[SlotOf(n)] = sent'[n]
    BY DEF UnreadIntact, SlotOf
  <2>1. rcvd' = rcvd /\ Len(rcvd) \in Nat /\ m - Len(rcvd) < Size /\ mem \in [0..Size-1 -> Data]
    <3>1. freed <= Len(rcvd) /\ m <= wpos + Len(wmsg)
      BY <1>1, <1>0 DEF Apart, wpos
    <3> QED
      BY <3>1, <1>0, <1>1, <1>7, SizeAssumption DEF Apart, IInv, TypeOK, Room
  <2>2. CASE n = m + 1
    BY <2>2, <1>1, <1>4, <1>5, <1>6, <2>1 DEF SlotOf
  <2>3. CASE n # m + 1
    <3>1. n \in Len(rcvd) + 1 .. m
      BY <2>1, <2>3, <1>1, <1>6
    <3>2. (n - 1) % Size # m % Size
      <4>1. n - 1 \in Int /\ m \in Int /\ n - 1 < m /\ m - (n - 1) < Size
        BY <3>1, <2>1, <1>1, SizeAssumption
      <4> HIDE DEF m
      <4> QED
        BY <4>1, SlotsApart
    <3>3. (n - 1) % Size \in 0..Size-1
      <4>1. n - 1 \in Int
        BY <3>1, <2>1, <1>1
      <4> QED
        BY ZenonT(60), <4>1, DivMod
    <3> QED
      BY <3>1, <3>2, <3>3, <2>1, <1>4, <1>5, <1>6, <1>1 DEF IInv, UnreadIntact, SlotOf
  <2> QED
    BY <2>2, <2>3
<1>11. InOrder'
  <2>1. Len(rcvd) \in Nat /\ Len(rcvd) <= m /\ rcvd' = rcvd /\ committed' = committed
    BY <1>1, <1>0, <1>7 DEF Apart, IInv, TypeOK, Order, InOrder, wpos
  <2> QED
    BY <2>1, <1>1, <1>6 DEF IInv, InOrder
<1> QED
  BY <1>8, <1>9, <1>10, <1>11 DEF IInv

LEMMA CommitStep ==
    ASSUME IInv, scif_rb_commit
    PROVE  IInv'
<1>0. Apart
  BY Positions
<1>1. wdone = 0 /\ wpos = Len(sent)
  BY <1>0 DEF Apart, IInv, InProgress, scif_rb_commit, wpos
<1>2. wpos' = wpos /\ rpos' = rpos /\ committed' = wpos /\ write_ptr' = wpos % Size
      /\ UNCHANGED <<mem, read_ptr, current_write_offset, wmsg, wdone, current_read_offset,
                     rhdr, rlen, rdone, sent, rcvd, freed>>
  BY <1>1 DEF IInv, Offsets, scif_rb_commit, wvars, rvars, wpos, rpos
<1>3. TypeOK' /\ InProgress' /\ Offsets' /\ Room'
  BY <1>0, <1>2 DEF Apart, IInv, TypeOK, InProgress, Offsets, Room, scif_rb_commit
<1>4. Order' /\ InOrder'
  BY <1>0, <1>1, <1>2 DEF Apart, IInv, Order, InOrder
<1>5. UnreadIntact'
  BY <1>2 DEF IInv, UnreadIntact, SlotOf
<1> QED
  BY <1>3, <1>4, <1>5 DEF IInv

(* scif_rb_get_next: the bytes it claims are committed ones.               *)
LEMMA GetNextStep ==
    ASSUME IInv, NEW size \in 1..MaxLen, scif_rb_get_next(size)
    PROVE  IInv'
<1>0. Apart
  BY Positions
<1>1. size \in Nat /\ size > 0
  BY BoundAssumption
<1>2. rdone = 0 /\ rlen = 0 /\ rpos = Len(rcvd)
  BY <1>0 DEF Apart, IInv, TypeOK, InProgress, scif_rb_get_next, rpos
<1>3. size <= committed - rpos
  <2>1. scif_rb_count = committed - rpos
    BY <1>0, RingCnt DEF Apart, IInv, TypeOK, Offsets, scif_rb_count
  <2> QED
    BY <2>1 DEF scif_rb_get_next
<1>4. rpos' = rpos + size
  BY <1>1, <1>2, <1>0 DEF Apart, scif_rb_get_next, rpos
<1>5. current_read_offset' = rpos' % Size
  BY <1>1, <1>4, <1>0, ModPlus DEF Apart, IInv, Offsets, scif_rb_get_next
<1>6. current_read_offset' \in 0..Size-1
  BY <1>1, <1>4, <1>5, <1>0, DivMod DEF Apart
<1>7. TypeOK' /\ InProgress' /\ Order'
  BY <1>1, <1>2, <1>3, <1>4, <1>6, <1>0
  DEF Apart, IInv, TypeOK, InProgress, Order, scif_rb_get_next, wvars, wpos
<1>8. Offsets'
  BY <1>2, <1>5, <1>0 DEF Apart, IInv, Offsets, scif_rb_get_next, wvars, wpos
<1>9. Room' /\ UnreadIntact' /\ InOrder'
  BY DEF IInv, Room, UnreadIntact, InOrder, SlotOf, scif_rb_get_next, wvars, wpos
<1> QED
  BY <1>7, <1>8, <1>9 DEF IInv

(* memcpy_fromrb: the slot read is that of the next byte, still intact.    *)
LEMMA CopyOutStep ==
    ASSUME IInv, memcpy_fromrb
    PROVE  IInv'
<1>0. Apart
  BY Positions
<1> DEFINE b == mem[Slot(rhdr, rdone)]
           m == Len(rcvd)
<1>1. rdone \in Nat /\ rlen \in Nat /\ rdone < rlen /\ m \in Nat /\ rdone <= m
  BY DEF IInv, TypeOK, InProgress, Order, memcpy_fromrb
<1>2. m < rpos /\ rpos <= committed /\ committed <= Len(sent) /\ rdone <= Size - 1
      /\ committed \in Nat /\ freed \in Nat
  BY <1>1, <1>0, SizeAssumption DEF Apart, IInv, Order, wpos, rpos
<1>3. Slot(rhdr, rdone) = SlotOf(m + 1)
  <2>1. rhdr = (m - rdone) % Size
    BY DEF IInv, Offsets, memcpy_fromrb
  <2>2. Slot(rhdr, rdone) = ((m - rdone) + rdone) % Size
    <3>1. m - rdone \in Int /\ rdone \in 0..Size-1
      BY <1>1, <1>2, SizeAssumption
    <3> HIDE DEF m
    <3> QED
      BY <3>1, <2>1, SlotIsPosition
  <2>3. (m - rdone) + rdone = (m + 1) - 1
    BY <1>1
  <2> QED
    BY <2>2, <2>3 DEF SlotOf
<1>4. b = sent[m + 1]
  BY <1>1, <1>2, <1>3, <1>0 DEF Apart, IInv, UnreadIntact
<1>5. b \in Data
  BY <1>1, <1>2, <1>4, <1>0 DEF Apart, IInv, TypeOK
<1>6. rcvd' \in Seq(Data) /\ Len(rcvd') = m + 1 /\ rcvd'[m + 1] = b
      /\ \A i \in 1..m : rcvd'[i] = rcvd[i]
  BY <1>1, <1>5 DEF IInv, TypeOK, memcpy_fromrb
<1>7. rpos' = rpos
  <2>1. \/ rdone' = rdone + 1 /\ rlen' = rlen
        \/ rdone + 1 = rlen /\ rdone' = 0 /\ rlen' = 0
    BY DEF memcpy_fromrb
  <2>2. Len(rcvd') = Len(rcvd) + 1
    BY <1>6
  <2>3. Len(rcvd) \in Nat /\ rlen \in Nat /\ rdone \in Nat
    BY <1>0 DEF Apart
  <2>4. CASE rdone' = rdone + 1 /\ rlen' = rlen
    BY <2>2, <2>3, <2>4 DEF rpos
  <2>5. CASE rdone + 1 = rlen /\ rdone' = 0 /\ rlen' = 0
    BY <2>2, <2>3, <2>5 DEF rpos
  <2> QED
    BY <2>1, <2>4, <2>5
<1>8. TypeOK' /\ InProgress'
  BY <1>1, <1>6 DEF IInv, TypeOK, InProgress, memcpy_fromrb, wvars
<1>9. Order' /\ Room'
  <2>1. freed' = freed /\ committed' = committed /\ wpos' = wpos /\ wmsg' = wmsg
        /\ rdone' \in Nat /\ rdone' <= rdone + 1 /\ Len(rcvd') = Len(rcvd) + 1
    BY <1>1, <1>6 DEF memcpy_fromrb, wvars, wpos
  <2> QED
    BY <1>0, <1>7, <2>1 DEF Apart, IInv, Order, Room
<1>10. Offsets'
  BY <1>1, <1>6, <1>7 DEF IInv, Offsets, memcpy_fromrb, wvars, wpos
<1>11. UnreadIntact' /\ InOrder'
  <2>1. UNCHANGED <<mem, sent, committed>> /\ Len(rcvd') = Len(rcvd) + 1
    BY <1>6 DEF memcpy_fromrb
  <2>2. UnreadIntact'
    BY <1>0, <2>1 DEF Apart, IInv, UnreadIntact, SlotOf
  <2>3. \A i \in 1..Len(rcvd') : rcvd'[i] = sent[i]
    BY <1>1, <1>4, <1>6, <2>1 DEF IInv, InOrder
  <2> QED
    BY <1>0, <1>2, <2>1, <2>2, <2>3 DEF Apart, InOrder
<1> QED
  BY <1>8, <1>9, <1>10, <1>11 DEF IInv

LEMMA UpdateReadPtrStep ==
    ASSUME IInv, scif_rb_update_read_ptr
    PROVE  IInv'
<1>0. Apart
  BY Positions
<1>1. rdone = 0 /\ rlen = 0 /\ rpos = Len(rcvd)
  BY <1>0 DEF Apart, IInv, TypeOK, InProgress, scif_rb_update_read_ptr, rpos
<1>2. wpos' = wpos /\ rpos' = rpos /\ freed' = rpos /\ read_ptr' = rpos % Size
      /\ UNCHANGED <<mem, write_ptr, current_write_offset, wmsg, wdone, current_read_offset,
                     rhdr, rlen, rdone, sent, rcvd, committed>>
  BY <1>1 DEF IInv, Offsets, scif_rb_update_read_ptr, wvars, rvars, wpos, rpos
<1>3. TypeOK' /\ InProgress' /\ Offsets'
  BY <1>0, <1>2 DEF Apart, IInv, TypeOK, InProgress, Offsets, scif_rb_update_read_ptr
<1>4. Order' /\ Room'
  BY <1>0, <1>1, <1>2, SizeAssumption DEF Apart, IInv, Order, Room
<1>5. UnreadIntact' /\ InOrder'
  BY <1>2 DEF IInv, UnreadIntact, InOrder, SlotOf
<1> QED
  BY <1>3, <1>4, <1>5 DEF IInv

(* Every step of the ring preserves the inductive invariant.               *)
LEMMA NextIInv == IInv /\ [Next]_vars => IInv'
<1> SUFFICES ASSUME IInv, [Next]_vars PROVE IInv'
  OBVIOUS
<1>1. CASE UNCHANGED vars
  BY <1>1 DEF vars, wvars, rvars, IInv, TypeOK, InProgress, Order, Offsets, Room,
              UnreadIntact, InOrder, SlotOf, wpos, rpos
<1> QED
  BY <1>1, WriteStep, CopyInStep, CommitStep, GetNextStep, CopyOutStep, UpdateReadPtrStep
  DEF Next

(* For every ring size and message length the inductive invariant holds.   *)
THEOREM Invariance == Spec => []IInv
BY InitIInv, NextIInv, PTL DEF Spec

(* The offsets of scif_rb.c stay inside the ring.                          *)
THEOREM TypeCorrect == Spec => []TypeOK
<1>1. IInv => TypeOK
  BY DEF IInv
<1> QED
  BY <1>1, Invariance, PTL

(* scif_rb_get_next returns the committed bytes, in order, whatever the    *)
(* size of the ring and however the two sides interleave.                  *)
THEOREM Delivery == Spec => []InOrder
<1>1. IInv => InOrder
  BY DEF IInv
<1> QED
  BY <1>1, Invariance, PTL

(* scif_rb_write never overwrites a byte that was not read.                *)
THEOREM NoOverwrite == Spec => []UnreadIntact
<1>1. IInv => UnreadIntact
  BY DEF IInv
<1> QED
  BY <1>1, Invariance, PTL

-----------------------------------------------------------------------------
(* Refinement: every step of the ring in memory is a step of the queue.    *)

(* memcpy_torb() puts one byte in.                                         *)
LEMMA CopyInWrites == IInv /\ IInv' /\ memcpy_torb => Ring!Write
<1> SUFFICES ASSUME IInv, IInv', memcpy_torb PROVE Ring!Write
  OBVIOUS
<1>1. wmsg \in Seq(Data) /\ wmsg # <<>> /\ wdone \in Nat /\ wdone < Len(wmsg)
      /\ sent \in Seq(Data) /\ sent' = Append(sent, wmsg[wdone + 1])
      /\ committed \in Nat /\ freed \in Nat /\ sent' \in Seq(Data)
      /\ UNCHANGED <<committed, rcvd, freed>>
  BY DEF IInv, TypeOK, InProgress, memcpy_torb
<1>2. Len(sent') = Len(sent) + 1 /\ \A i \in 1..Len(sent) : sent'[i] = sent[i]
  BY <1>1
<1>3. committed <= Len(sent)
  BY <1>1 DEF IInv, Order, wpos
<1>4. Len(sent) + 1 - freed <= Size - 1
  BY <1>1, SizeAssumption DEF IInv, Room, wpos
<1> QED
  BY <1>1, <1>2, <1>3, <1>4 DEF Ring!Write, Ring!Begins

(* scif_rb_commit() publishes.                                             *)
LEMMA CommitWrites == IInv /\ scif_rb_commit => Ring!Write
<1> SUFFICES ASSUME IInv, scif_rb_commit PROVE Ring!Write
  OBVIOUS
<1>1. sent \in Seq(Data) /\ committed \in Nat /\ freed \in Nat /\ wdone = 0 /\ wmsg = <<>>
      /\ committed' = Len(sent) /\ UNCHANGED <<sent, rcvd, freed>>
  BY DEF IInv, TypeOK, InProgress, scif_rb_commit
<1>2. committed <= Len(sent) /\ Len(sent) - freed <= Size - 1
  BY <1>1, SizeAssumption DEF IInv, Order, Room, wpos
<1> QED
  BY <1>1, <1>2 DEF Ring!Write, Ring!Begins

(* memcpy_fromrb() takes the next byte out.                                *)
LEMMA CopyOutReads == IInv /\ IInv' /\ memcpy_fromrb => Ring!Read
<1> SUFFICES ASSUME IInv, IInv', memcpy_fromrb PROVE Ring!Read
  OBVIOUS
<1>1. rcvd \in Seq(Data) /\ sent \in Seq(Data) /\ rcvd' \in Seq(Data) /\ rdone \in Nat
      /\ committed \in Nat /\ freed \in Nat /\ rlen \in Nat /\ rlen # 0
      /\ rcvd' = Append(rcvd, mem[Slot(rhdr, rdone)])
      /\ UNCHANGED <<sent, committed, freed>>
  BY DEF IInv, TypeOK, memcpy_fromrb
<1>2. Len(rcvd') = Len(rcvd) + 1 /\ \A i \in 1..Len(rcvd) : rcvd'[i] = rcvd[i]
  BY <1>1
<1>3. Len(rcvd') <= committed /\ \A i \in 1..Len(rcvd') : rcvd'[i] = sent[i]
  BY <1>1 DEF IInv, InOrder
<1>4. freed <= Len(rcvd) /\ committed <= Len(sent)
  <2>1. wdone \in Nat
    BY DEF IInv, TypeOK
  <2> QED
    BY <1>1, <2>1 DEF IInv, Order, wpos
<1> QED
  BY <1>1, <1>2, <1>3, <1>4 DEF Ring!Read, Ring!Begins

(* scif_rb_update_read_ptr() releases.                                     *)
LEMMA UpdateReads == IInv /\ scif_rb_update_read_ptr => Ring!Read
<1> SUFFICES ASSUME IInv, scif_rb_update_read_ptr PROVE Ring!Read
  OBVIOUS
<1>1. rcvd \in Seq(Data) /\ sent \in Seq(Data) /\ committed \in Nat /\ freed \in Nat
      /\ rdone \in Nat /\ wdone \in Nat
      /\ freed' = Len(rcvd) /\ UNCHANGED <<sent, committed, rcvd>>
  BY DEF IInv, TypeOK, scif_rb_update_read_ptr
<1>2. freed <= Len(rcvd) /\ committed <= Len(sent)
  BY <1>1 DEF IInv, Order, wpos
<1>3. Len(rcvd) <= committed /\ \A i \in 1..Len(rcvd) : rcvd[i] = sent[i]
  BY DEF IInv, InOrder
<1> QED
  BY <1>1, <1>2, <1>3 DEF Ring!Read, Ring!Begins

(* The ring in shared memory (scif_rb.c) implements the bounded queue, for *)
(* every ring size: seen from outside, a copy of one byte, a commit and a  *)
(* pointer update are each one write or read of the queue, at any point of *)
(* what the other side is doing.                                           *)
THEOREM Refinement == Spec => ImplementsRing
<1>1. Init => Ring!Init
  BY DEF Init, Ring!Init
<1>2. IInv /\ IInv' /\ [Next]_vars => [Ring!Write \/ Ring!Read]_(Ring!ringvars)
  <2> SUFFICES ASSUME IInv, IInv', [Next]_vars
               PROVE  Ring!Write \/ Ring!Read \/ UNCHANGED <<sent, committed, rcvd, freed>>
    BY DEF Ring!ringvars
  <2>1. CASE \E msg \in Messages : scif_rb_write(msg)
    BY <2>1 DEF scif_rb_write
  <2>2. CASE memcpy_torb
    BY <2>2, CopyInWrites
  <2>3. CASE scif_rb_commit
    BY <2>3, CommitWrites
  <2>4. CASE \E size \in 1..MaxLen : scif_rb_get_next(size)
    BY <2>4 DEF scif_rb_get_next
  <2>5. CASE memcpy_fromrb
    BY <2>5, CopyOutReads
  <2>6. CASE scif_rb_update_read_ptr
    BY <2>6, UpdateReads
  <2>7. CASE UNCHANGED vars
    BY <2>7 DEF vars
  <2> QED
    BY <2>1, <2>2, <2>3, <2>4, <2>5, <2>6, <2>7 DEF Next
<1> QED
  BY <1>1, <1>2, Invariance, PTL DEF Spec, ImplementsRing, Ring!Spec
=============================================================================
