--------------------------- MODULE SlotPathProofs ---------------------------
(***************************************************************************)
(* Slots are conserved, nothing overflows, a slot has one owner and a      *)
(* packet goes out as it was posted, for every ring size, burst size and   *)
(* number of applications.  Ktsnd implements SlotPath (run tx_path).       *)
(***************************************************************************)
EXTENDS SlotPath, FiniteSetTheorems, SequenceTheorems, TLAPS

\* The numbers of the model.
LEMMA Sizes ==
    /\ Capacity \in Nat \ {0} /\ RingSize = Capacity + 1
    /\ Slots \subseteq Nat /\ Ids \subseteq Nat \ {0}
    /\ 0 \in Slots
  BY SendmsgAssumption DEF Capacity, Slots, Ids

-----------------------------------------------------------------------------
(***************************************************************************)
(* Rings                                                                   *)
(***************************************************************************)
\* An entry added at the end of a ring.
LEMMA AppendRing ==
    ASSUME NEW ring \in Seq(Slots), NEW x \in Slots
    PROVE  /\ Append(ring, x) \in Seq(Slots)
           /\ Len(Append(ring, x)) = Len(ring) + 1
           /\ \A s : In(s, Append(ring, x)) <=> In(s, ring) \/ s = x
           /\ Distinct(ring) /\ ~In(x, ring) => Distinct(Append(ring, x))
<1> DEFINE r == Append(ring, x)
<1>1. /\ r \in Seq(Slots) /\ Len(r) = Len(ring) + 1 /\ Len(ring) \in Nat
      /\ \A i \in 1..Len(ring) : r[i] = ring[i]
      /\ r[Len(ring) + 1] = x
  OBVIOUS
<1> HIDE DEF r
<1>2. ASSUME NEW s
      PROVE  In(s, r) <=> In(s, ring) \/ s = x
  <2>1. ASSUME NEW i \in 1..Len(r), r[i] = s
        PROVE  In(s, ring) \/ s = x
    <3>1. CASE i = Len(ring) + 1  BY <2>1, <3>1, <1>1
    <3>2. CASE i \in 1..Len(ring)  BY <2>1, <3>2, <1>1 DEF In
    <3> QED  BY <3>1, <3>2, <1>1
  <2>2. ASSUME NEW i \in 1..Len(ring), ring[i] = s
        PROVE  In(s, r)
    BY <2>2, <1>1 DEF In
  <2>3. s = x => In(s, r)
    <3>1. Len(ring) + 1 \in 1..Len(r)  BY <1>1
    <3> QED  BY <3>1, <1>1 DEF In
  <2> QED  BY <2>1, <2>2, <2>3 DEF In
<1>3. ASSUME Distinct(ring), ~In(x, ring)
      PROVE  Distinct(r)
  <2> SUFFICES ASSUME NEW i \in 1..Len(r), NEW j \in 1..Len(r), r[i] = r[j]
               PROVE  i = j
    BY DEF Distinct
  <2>1. CASE i \in 1..Len(ring) /\ j \in 1..Len(ring)
    BY <2>1, <1>1, <1>3 DEF Distinct
  <2>2. CASE i = Len(ring) + 1 /\ j = Len(ring) + 1
    BY <2>2
  <2>3. CASE i \in 1..Len(ring) /\ j = Len(ring) + 1
    BY <2>3, <1>1, <1>3 DEF In
  <2>4. CASE i = Len(ring) + 1 /\ j \in 1..Len(ring)
    BY <2>4, <1>1, <1>3 DEF In
  <2> QED  BY <2>1, <2>2, <2>3, <2>4, <1>1
<1> QED  BY <1>1, <1>2, <1>3 DEF r

\* The entries of a ring after the first k.
LEMMA RestOfRing ==
    ASSUME NEW ring \in Seq(Slots), NEW k \in 0..Len(ring)
    PROVE  LET r == SubSeq(ring, k + 1, Len(ring))
           IN  /\ r \in Seq(Slots) /\ Len(r) = Len(ring) - k
               /\ \A s : In(s, r) <=> \E i \in (k + 1)..Len(ring) : ring[i] = s
               /\ Distinct(ring) => Distinct(r)
<1> DEFINE r == SubSeq(ring, k + 1, Len(ring))
<1>1. /\ r \in Seq(Slots) /\ Len(r) = Len(ring) - k /\ Len(ring) \in Nat
      /\ \A i \in 1..(Len(ring) - k) : r[i] = ring[k + i]
  OBVIOUS
<1> HIDE DEF r
<1>2. ASSUME NEW s
      PROVE  In(s, r) <=> \E i \in (k + 1)..Len(ring) : ring[i] = s
  <2>1. ASSUME NEW i \in 1..Len(r), r[i] = s
        PROVE  \E j \in (k + 1)..Len(ring) : ring[j] = s
    <3>1. k + i \in (k + 1)..Len(ring) /\ ring[k + i] = s  BY <2>1, <1>1
    <3> QED  BY <3>1
  <2>2. ASSUME NEW i \in (k + 1)..Len(ring), ring[i] = s
        PROVE  In(s, r)
    <3>1. i - k \in 1..Len(r) /\ k + (i - k) = i  BY <1>1
    <3>2. r[i - k] = ring[k + (i - k)]  BY <1>1, <3>1
    <3> QED  BY <2>2, <3>1, <3>2 DEF In
  <2> QED  BY <2>1, <2>2 DEF In
<1>3. ASSUME Distinct(ring)
      PROVE  Distinct(r)
  <2> SUFFICES ASSUME NEW i \in 1..Len(r), NEW j \in 1..Len(r), r[i] = r[j]
               PROVE  i = j
    BY DEF Distinct
  <2>1. k + i \in 1..Len(ring) /\ k + j \in 1..Len(ring) /\ ring[k + i] = ring[k + j]
    BY <1>1
  <2>2. k + i = k + j
    BY <2>1, <1>3 DEF Distinct
  <2> QED  BY <2>2
<1> QED  BY <1>1, <1>2, <1>3 DEF r

\* A ring without its first entry.
LEMMA TailRing ==
    ASSUME NEW ring \in Seq(Slots), ring # << >>
    PROVE  /\ Head(ring) \in Slots /\ In(Head(ring), ring)
           /\ Tail(ring) \in Seq(Slots) /\ Len(Tail(ring)) = Len(ring) - 1
           /\ Len(ring) > 0
           /\ \A s : In(s, Tail(ring)) => In(s, ring)
           /\ Distinct(ring) => Distinct(Tail(ring)) /\ ~In(Head(ring), Tail(ring))
<1> DEFINE r == Tail(ring)
<1>1. /\ r \in Seq(Slots) /\ Len(r) = Len(ring) - 1 /\ Len(ring) \in Nat \ {0}
      /\ \A i \in 1..(Len(ring) - 1) : r[i] = ring[i + 1]
      /\ Head(ring) = ring[1]
  OBVIOUS
<1>2. Head(ring) \in Slots /\ In(Head(ring), ring)
  BY <1>1 DEF In
<1> HIDE DEF r
<1>3. ASSUME NEW s, In(s, r)
      PROVE  \E i \in 2..Len(ring) : ring[i] = s
  <2>1. PICK i \in 1..Len(r) : r[i] = s  BY <1>3 DEF In
  <2>2. i + 1 \in 2..Len(ring) /\ ring[i + 1] = s  BY <2>1, <1>1
  <2> QED  BY <2>2
<1>4. \A s : In(s, r) => In(s, ring)
  BY <1>3, <1>1 DEF In
<1>5. ASSUME Distinct(ring)
      PROVE  Distinct(r) /\ ~In(Head(ring), r)
  <2>1. ~In(Head(ring), r)
    BY <1>1, <1>3, <1>5 DEF Distinct
  <2>2. ASSUME NEW i \in 1..Len(r), NEW j \in 1..Len(r), r[i] = r[j]
        PROVE  i = j
    <3>1. i + 1 \in 1..Len(ring) /\ j + 1 \in 1..Len(ring) /\ ring[i + 1] = ring[j + 1]
      BY <1>1, <2>2
    <3>2. i + 1 = j + 1
      BY <3>1, <1>5 DEF Distinct
    <3> QED  BY <3>2
  <2> QED  BY <2>1, <2>2 DEF Distinct
<1> QED  BY <1>1, <1>2, <1>4, <1>5 DEF r

-----------------------------------------------------------------------------
(***************************************************************************)
(* Applications that hold a slot                                           *)
(***************************************************************************)
\* Whoever holds a slot holds a real one, and there are finitely many.
LEMMA HoldersType ==
    ASSUME TypeOK
    PROVE  /\ IsFiniteSet(Holders) /\ Cardinality(Holders) \in Nat
           /\ \A a \in Holders : mine[a].slot \in Slots /\ mine[a].id \in Ids
<1>1. Holders \subseteq Senders
  BY DEF Holders
<1>2. IsFiniteSet(Holders) /\ Cardinality(Holders) \in Nat
  BY <1>1, SendmsgAssumption, FS_Subset, FS_CardinalityType
<1>3. \A a \in Holders : mine[a] \in Held
  BY DEF TypeOK, Holders
<1> QED  BY <1>2, <1>3 DEF Held

\* An application that takes a slot.
LEMMA HoldersGrow ==
    ASSUME TypeOK, NEW a \in Senders, mine[a] = None, NEW v, v # None,
           mine' = [mine EXCEPT ![a] = v]
    PROVE  /\ Holders' = Holders \cup {a} /\ a \notin Holders
           /\ Cardinality(Holders') = Cardinality(Holders) + 1
<1>1. Holders' = Holders \cup {a} /\ a \notin Holders
  BY DEF TypeOK, Holders
<1> QED  BY <1>1, HoldersType, FS_AddElement

\* An application that gives its slot away.
LEMMA HoldersShrink ==
    ASSUME TypeOK, NEW a \in Senders, mine[a] # None,
           mine' = [mine EXCEPT ![a] = None]
    PROVE  /\ Holders' = Holders \ {a} /\ a \in Holders
           /\ Cardinality(Holders') = Cardinality(Holders) - 1
           /\ Cardinality(Holders) > 0
<1>1. Holders' = Holders \ {a} /\ a \in Holders
  BY DEF TypeOK, Holders
<1>2. Cardinality(Holders \ {a}) = Cardinality(Holders) - 1
  BY <1>1, HoldersType, FS_RemoveElement
<1>3. Cardinality(Holders) # 0
  BY <1>1, HoldersType, FS_EmptySet
<1> QED  BY <1>1, <1>2, <1>3, HoldersType

\* Contents, read for one slot in flight, for one application and for one
\* packet.
LEMMA FlightContents ==
    ASSUME Contents, NEW s \in Slots, InFlight(s)
    PROVE  /\ mbuf[s] \in 1..ids /\ fate[mbuf[s]] = "posted"
           /\ meta[s] = asked[mbuf[s]]
  BY DEF Contents

LEMMA HolderContents ==
    ASSUME Contents, NEW a \in Holders
    PROVE  /\ mine[a].id \in 1..ids /\ fate[mine[a].id] = "unsent"
           /\ st[a] = "post" => /\ mbuf[mine[a].slot] = mine[a].id
                                /\ meta[mine[a].slot] = asked[mine[a].id]
  BY DEF Contents

LEMMA FateContents ==
    ASSUME Contents, NEW i \in Ids
    PROVE  fate[i] # "twice" /\ (i > ids => fate[i] = "unsent")
  BY DEF Contents

-----------------------------------------------------------------------------
(***************************************************************************)
(* The invariant                                                           *)
(***************************************************************************)
\* It holds at the start: all slots are in free_ring.
LEMMA InitPath == Init => PathInv
<1> SUFFICES ASSUME Init  PROVE PathInv
  OBVIOUS
<1> USE DEF Init, SendInit
<1>1. free \in Seq(Slots) /\ Len(free) = Capacity
  BY Sizes DEF Slots
<1>2. TypeOK
  <2>1. tx \in Seq(Slots) /\ txHead \in 0..(RingSize - 1) /\ ids \in 0..MaxMsgs
    BY Sizes, SendmsgAssumption
  <2>2. \A a \in Senders : /\ st[a] = "idle" => mine[a] = None
                           /\ st[a] \in {"fill", "post"} => mine[a] # None
    OBVIOUS
  <2>3. queue \in [Slots -> Nat] /\ queued \in Nat /\ drops \in Nat
    OBVIOUS
  <2> QED  BY <1>1, <2>1, <2>2, <2>3 DEF TypeOK
<1>3. Holders = {} /\ Cardinality(Holders) = 0
  BY FS_EmptySet DEF Holders
<1>4. SlotCount
  BY <1>1, <1>3, Sizes DEF SlotCount, Holding
<1>5. Distinct(free) /\ \A s : ~In(s, tx)
  BY <1>1, Sizes DEF Distinct, In
<1>6. Apart
  <2>1. Distinct(tx)
    BY DEF Distinct
  <2>2. ASSUME NEW s \in Slots
        PROVE  queue[s] <= 1 /\ ~InQueue(s) /\ ~InHand(s) /\ cur # s
    BY <1>3, SendmsgAssumption DEF InQueue, InHand
  <2> QED  BY <1>3, <1>5, <2>1, <2>2 DEF Apart
<1>7. Contents
  <2>1. \A s \in Slots : ~InFlight(s)
    BY <1>5 DEF InFlight, InQueue
  <2> QED  BY <2>1, <1>3 DEF Contents
<1> QED  BY <1>2, <1>4, <1>6, <1>7 DEF PathInv, NothingOverflows

\* sendmsg takes a slot: it was the first of free_ring and nobody else's.
LEMMA TakeSlotInv ==
    ASSUME PathInv, NEW a \in Senders, NEW t \in TxTimes, TakeSlot(a, t), UNCHANGED daemon
    PROVE  PathInv'
<1> DEFINE h == Head(free)
           v == [slot |-> h, id |-> ids + 1]
<1>1. TypeOK /\ SlotCount /\ ~failed
  BY DEF PathInv, NothingOverflows
<1>2. free \in Seq(Slots) /\ free # << >>
  BY <1>1 DEF TypeOK, TakeSlot
<1>3. h \in Slots /\ ids + 1 \in Ids /\ ids \in Nat /\ v \in Held /\ v # None
  <2>1. h \in Slots  BY <1>2, TailRing
  <2>2. ids + 1 \in Ids /\ ids \in Nat  BY <1>1, SendmsgAssumption DEF TypeOK, TakeSlot, Ids
  <2>3. v \in Held  BY <2>1, <2>2 DEF Held
  <2> QED  BY <2>1, <2>2, <2>3, SendmsgAssumption
<1>4. mine[a] = None /\ mine' = [mine EXCEPT ![a] = v]
  BY <1>1 DEF TypeOK, TakeSlot
<1>5. /\ Holders' = Holders \cup {a} /\ a \notin Holders
      /\ Cardinality(Holders') = Cardinality(Holders) + 1
  <2> HIDE DEF v
  <2> QED  BY <1>1, <1>3, <1>4, HoldersGrow
<1>6. /\ free' = Tail(free) /\ Len(free') = Len(free) - 1 /\ free' \in Seq(Slots)
  BY <1>2, TailRing DEF TakeSlot
<1>7. TypeOK'
  <2>1. asked' \in [Ids -> Nat]
    BY <1>1, SendmsgAssumption DEF TypeOK, TakeSlot
  <2>2. mine' \in [Senders -> {None} \cup Held]
    BY <1>1, <1>3, <1>4 DEF TypeOK
  <2>3. st' \in [Senders -> {"idle", "fill", "post", "dead"}]
    BY <1>1 DEF TypeOK, TakeSlot
  <2>4. \A b \in Senders : /\ st'[b] = "idle" => mine'[b] = None
                           /\ st'[b] \in {"fill", "post"} => mine'[b] # None
    BY <1>1, <1>3, <1>4 DEF TypeOK, TakeSlot
  <2>5. ids' \in 0..MaxMsgs
    BY <1>3 DEF TakeSlot, Ids
  <2> QED  BY <1>1, <1>6, <2>1, <2>2, <2>3, <2>4, <2>5 DEF TypeOK, TakeSlot, daemon, pools
<1>8. SlotCount'
  <2>1. Len(free) \in Nat /\ Len(tx) \in Nat /\ queued \in Nat /\ drops \in Nat
        /\ Cardinality(Holders) \in Nat /\ Holding \in Nat /\ Capacity \in Nat
    BY <1>1, HoldersType, Sizes DEF TypeOK, Holding
  <2>2. tx' = tx /\ queued' = queued /\ drops' = drops /\ Holding' = Holding
    BY DEF TakeSlot, daemon, Holding
  <2> QED  BY <1>1, <1>5, <1>6, <2>1, <2>2 DEF SlotCount
<1>9. NothingOverflows'
  BY <1>1 DEF NothingOverflows, TakeSlot
<1>10. ASSUME ~crossed'
       PROVE  Apart' /\ Contents'
  <2>1. Apart /\ Contents
    BY <1>10 DEF PathInv, daemon
  <2>2. In(h, free) /\ Distinct(free') /\ ~In(h, free') /\ \A s : In(s, free') => In(s, free)
    BY <2>1, <1>2, <1>6, TailRing DEF Apart
  <2>3. /\ tx' = tx /\ queue' = queue /\ cur' = cur /\ dpc' = dpc /\ fate' = fate
        /\ mbuf' = mbuf /\ meta' = meta /\ last' = last
    BY DEF TakeSlot, daemon, pools
  <2>4. /\ mine'[a].slot = h /\ mine'[a].id = ids + 1
        /\ \A b \in Holders : b # a /\ mine'[b] = mine[b] /\ b \in Senders
    BY <1>4, <1>1, <1>5 DEF TypeOK, Holders
  <2>5. \A s : InHand(s)' <=> InHand(s) \/ s = h
    BY <1>5, <2>4 DEF InHand
  <2>6. \A s : InQueue(s)' <=> InQueue(s)
    BY <2>3 DEF InQueue
  <2>7. ~In(h, tx) /\ ~InQueue(h) /\ ~InHand(h) /\ cur # h
    BY <2>1, <2>2, <1>3 DEF Apart
  <2>8. Apart'
    <3>1. ASSUME NEW b \in Holders', NEW c \in Holders', mine'[b].slot = mine'[c].slot
          PROVE  b = c
      <4>1. \A d \in Holders : mine'[d].slot # h
        BY <2>4, <2>7 DEF InHand
      <4>2. CASE b \in Holders /\ c \in Holders
        BY <4>2, <3>1, <2>1, <2>4 DEF Apart
      <4> QED  BY <4>1, <4>2, <3>1, <1>5, <2>4
    <3>2. ASSUME NEW s \in Slots
          PROVE  /\ queue'[s] <= 1
                 /\ In(s, free') => ~In(s, tx') /\ ~InQueue(s)' /\ ~InHand(s)' /\ cur' # s
                 /\ In(s, tx') => ~InQueue(s)' /\ ~InHand(s)' /\ cur' # s
                 /\ InQueue(s)' => ~InHand(s)' /\ cur' # s
                 /\ InHand(s)' => cur' # s
      BY <2>1, <2>2, <2>3, <2>5, <2>6, <2>7 DEF Apart
    <3> QED  BY <2>1, <2>2, <2>3, <3>1, <3>2 DEF Apart
  <2>9. Contents'
    <3>1. \A s : InFlight(s)' <=> InFlight(s)
      BY <2>3, <2>6 DEF InFlight
    <3>2. ids' = ids + 1 /\ \A i \in 1..ids : i \in Ids /\ asked'[i] = asked[i]
      <4>1. ids' = ids + 1 /\ asked' = [asked EXCEPT ![ids + 1] = t]
        BY DEF TakeSlot
      <4>2. asked \in [Ids -> Nat]
        BY <1>1 DEF TypeOK
      <4>3. \A i \in 1..ids : i \in Ids /\ i # ids + 1
        BY <1>3, SendmsgAssumption, SMTT(20) DEF Ids
      <4> QED  BY <4>1, <4>2, <4>3
    <3>3. \A s \in Slots : InFlight(s)' =>
              /\ mbuf'[s] \in 1..ids' /\ fate'[mbuf'[s]] = "posted"
              /\ meta'[s] = asked'[mbuf'[s]]
      BY <2>1, <2>3, <3>1, <3>2, <1>3 DEF Contents
    <3>4. ASSUME NEW b \in Holders'
          PROVE  /\ mine'[b].id \in 1..ids' /\ fate'[mine'[b].id] = "unsent"
                 /\ st'[b] = "post" => /\ mbuf'[mine'[b].slot] = mine'[b].id
                                       /\ meta'[mine'[b].slot] = asked'[mine'[b].id]
      <4>1. CASE b \in Holders
        <5>1. st'[b] = st[b]  BY <4>1, <2>4, <1>1 DEF TakeSlot, TypeOK
        <5>2. mine'[b] = mine[b]  BY <4>1, <2>4
        <5>3. mine[b].id \in 1..ids /\ fate[mine[b].id] = "unsent"
          BY <4>1, <2>1, HolderContents
        <5>4. st[b] = "post" => /\ mbuf[mine[b].slot] = mine[b].id
                                /\ meta[mine[b].slot] = asked[mine[b].id]
          BY <4>1, <2>1, HolderContents
        <5>5. mine[b].id \in 1..ids' /\ asked'[mine[b].id] = asked[mine[b].id]
          BY <5>3, <3>2, <1>3
        <5> QED  BY <5>1, <5>2, <5>3, <5>4, <5>5, <2>3
      <4>2. CASE b = a
        <5>1. st'[a] = "fill"  BY <1>1 DEF TakeSlot, TypeOK
        <5>2. fate[ids + 1] = "unsent"
          <6>1. ids + 1 \in Ids /\ ids + 1 > ids  BY <1>3
          <6> QED  BY <6>1, <2>1, FateContents
        <5> QED  BY <4>2, <5>1, <5>2, <2>3, <2>4, <3>2, <1>3
      <4> QED  BY <4>1, <4>2, <1>5
    <3>5. ASSUME NEW b \in Holders', NEW c \in Holders', mine'[b].id = mine'[c].id
          PROVE  b = c
      <4>1. ASSUME NEW d \in Holders  PROVE  mine'[d].id # ids + 1
        <5>1. mine'[d] = mine[d] /\ mine[d].id \in 1..ids
          BY <2>1, <2>4, HolderContents
        <5> QED  BY <5>1, <1>3
      <4>2. CASE b \in Holders /\ c \in Holders
        BY <4>2, <3>5, <2>1, <2>4 DEF Contents
      <4> QED  BY <4>1, <4>2, <3>5, <1>5, <2>4
    <3>6. \A i \in Ids : fate'[i] # "twice" /\ (i > ids' => fate'[i] = "unsent")
      <4>1. \A i \in Ids : i > ids + 1 => i > ids
        BY <1>3 DEF Ids
      <4> QED  BY <4>1, <2>1, <2>3, <3>2 DEF Contents
    <3>7. last' # None => last'.id \in 1..ids' /\ last'.txtime = asked'[last'.id]
      BY <2>1, <2>3, <3>2, <1>3 DEF Contents
    <3>8. \A r, s \in Slots : InFlight(r)' /\ InFlight(s)' /\ mbuf'[r] = mbuf'[s] => r = s
      BY <2>1, <2>3, <3>1 DEF Contents
    <3> QED  BY <3>3, <3>4, <3>5, <3>6, <3>7, <3>8 DEF Contents
  <2> QED  BY <2>8, <2>9
<1> QED  BY <1>7, <1>8, <1>9, <1>10 DEF PathInv

\* sendmsg writes its slot: nobody else reads it yet.
LEMMA FillInv ==
    ASSUME PathInv, NEW a \in Senders, Fill(a), UNCHANGED daemon
    PROVE  PathInv'
<1> DEFINE h == mine[a].slot
<1>1. TypeOK /\ SlotCount /\ ~failed
  BY DEF PathInv, NothingOverflows
<1>2. a \in Holders /\ h \in Slots /\ mine[a].id \in Ids
  <2>1. a \in Holders
    BY <1>1 DEF TypeOK, Fill, Holders
  <2> QED  BY <2>1, <1>1, HoldersType
<1>3. /\ free' = free /\ tx' = tx /\ queue' = queue /\ cur' = cur /\ dpc' = dpc
      /\ fate' = fate /\ last' = last /\ mine' = mine /\ ids' = ids /\ asked' = asked
      /\ queued' = queued /\ drops' = drops /\ failed' = failed /\ crossed' = crossed
      /\ txHead' = txHead /\ Holders' = Holders
  BY DEF Fill, daemon, Holders
<1>4. /\ mbuf' = [mbuf EXCEPT ![h] = mine[a].id]
      /\ meta' = [meta EXCEPT ![h] = asked[mine[a].id]]
      /\ st' = [st EXCEPT ![a] = "post"] /\ st[a] = "fill"
  BY DEF Fill
<1>5. TypeOK'
  BY <1>1, <1>2, <1>3, <1>4 DEF TypeOK
<1>6. SlotCount' /\ NothingOverflows'
  BY <1>1, <1>3 DEF SlotCount, NothingOverflows, Holding
<1>7. ASSUME ~crossed'
      PROVE  Apart' /\ Contents'
  <2>1. Apart /\ Contents
    BY <1>3, <1>7 DEF PathInv
  <2>2. InHand(h)
    BY <1>2 DEF InHand
  <2>3. ~InFlight(h)
    BY <2>1, <2>2, <1>2 DEF Apart, InFlight
  <2>4. Apart'
    BY <2>1, <1>3 DEF Apart, InQueue, InHand
  <2>5. \A s : InFlight(s)' <=> InFlight(s)
    BY <1>3 DEF InFlight, InQueue
  <2>6. \A s \in Slots : s # h => mbuf'[s] = mbuf[s] /\ meta'[s] = meta[s]
    BY <1>1, <1>4 DEF TypeOK
  <2>7. mbuf'[h] = mine[a].id /\ meta'[h] = asked[mine[a].id]
    BY <1>1, <1>2, <1>4 DEF TypeOK
  <2>8. \A s \in Slots : InFlight(s)' =>
            /\ mbuf'[s] \in 1..ids' /\ fate'[mbuf'[s]] = "posted"
            /\ meta'[s] = asked'[mbuf'[s]]
    <3>1. ASSUME NEW s \in Slots, InFlight(s)'
          PROVE  /\ mbuf[s] \in 1..ids /\ fate[mbuf[s]] = "posted"
                 /\ meta[s] = asked[mbuf[s]]
                 /\ mbuf'[s] = mbuf[s] /\ meta'[s] = meta[s]
      BY <3>1, <2>1, <2>3, <2>5, <2>6, FlightContents
    <3> QED  BY <3>1, <1>3
  <2>9. \A r, s \in Slots : InFlight(r)' /\ InFlight(s)' /\ mbuf'[r] = mbuf'[s] => r = s
    BY <2>1, <2>3, <2>5, <2>6 DEF Contents
  <2>10. ASSUME NEW b \in Holders', st'[b] = "post"
         PROVE  /\ mbuf'[mine'[b].slot] = mine'[b].id
                /\ meta'[mine'[b].slot] = asked'[mine'[b].id]
    <3>1. CASE b = a
      BY <3>1, <2>7, <1>3
    <3>2. CASE b # a
      <4>1. b \in Holders /\ b \in Senders /\ mine[b].slot \in Slots /\ mine[b].slot # h
        BY <3>2, <2>1, <1>1, <1>2, <1>3, HoldersType DEF Apart, Holders
      <4>2. st[b] = "post"
        BY <2>10, <3>2, <4>1, <1>1, <1>4 DEF TypeOK
      <4> QED  BY <4>1, <4>2, <2>1, <2>6, <1>3 DEF Contents
    <3> QED  BY <3>1, <3>2
  <2>11. \A b \in Holders' : mine'[b].id \in 1..ids' /\ fate'[mine'[b].id] = "unsent"
    BY <2>1, <1>3, HolderContents
  <2>12. Contents'
    BY <2>1, <2>8, <2>9, <2>10, <2>11, <1>3 DEF Contents
  <2> QED  BY <2>4, <2>12
<1> QED  BY <1>5, <1>6, <1>7 DEF PathInv

\* sendmsg posts its slot: there is room, and it is the daemon's from now on.
LEMMA PostInv ==
    ASSUME PathInv, NEW a \in Senders, Post(a), UNCHANGED daemon
    PROVE  PathInv'
<1> DEFINE h == mine[a].slot
           id == mine[a].id
<1>1. TypeOK /\ SlotCount /\ ~failed
  BY DEF PathInv, NothingOverflows
<1>2. mine[a] # None /\ mine' = [mine EXCEPT ![a] = None]
  BY <1>1 DEF TypeOK, Post
<1>3. /\ Holders' = Holders \ {a} /\ a \in Holders
      /\ Cardinality(Holders') = Cardinality(Holders) - 1
      /\ Cardinality(Holders) > 0
  BY <1>1, <1>2, HoldersShrink
<1>4. h \in Slots /\ id \in Ids
  BY <1>1, <1>3, HoldersType
<1>5. Len(free) \in Nat /\ Len(tx) \in Nat /\ queued \in Nat /\ drops \in Nat
      /\ Cardinality(Holders) \in Nat /\ Holding \in Nat /\ Capacity \in Nat
  BY <1>1, HoldersType, Sizes DEF TypeOK, Holding
<1>6. Len(tx) < Capacity
  BY <1>1, <1>3, <1>5 DEF SlotCount
<1>7. /\ tx' = Append(tx, h) /\ fate' = [fate EXCEPT ![id] = "posted"]
      /\ failed' = failed /\ st' = [st EXCEPT ![a] = "idle"] /\ st[a] = "post"
  BY <1>6 DEF Post
<1>8. /\ free' = free /\ queue' = queue /\ cur' = cur /\ dpc' = dpc
      /\ last' = last /\ ids' = ids /\ asked' = asked /\ mbuf' = mbuf /\ meta' = meta
      /\ queued' = queued /\ drops' = drops /\ crossed' = crossed /\ txHead' = txHead
      /\ Holding' = Holding
  BY DEF Post, daemon, pools, Holding
<1>9. tx \in Seq(Slots) /\ tx' \in Seq(Slots) /\ Len(tx') = Len(tx) + 1
  BY <1>1, <1>4, <1>7, AppendRing DEF TypeOK
<1>10. TypeOK'
  <2>1. fate' \in [{0} \cup Ids ->
                 {"unsent", "posted", "wire", "lost", "refused", "twice"}]
    BY <1>1, <1>7 DEF TypeOK
  <2>2. /\ mine' \in [Senders -> {None} \cup Held]
        /\ st' \in [Senders -> {"idle", "fill", "post", "dead"}]
        /\ \A b \in Senders : /\ st'[b] = "idle" => mine'[b] = None
                              /\ st'[b] \in {"fill", "post"} => mine'[b] # None
    BY <1>1, <1>2, <1>7 DEF TypeOK
  <2> QED  BY <1>1, <1>7, <1>8, <1>9, <2>1, <2>2 DEF TypeOK
<1>11. SlotCount' /\ NothingOverflows'
  BY <1>1, <1>3, <1>5, <1>7, <1>8, <1>9 DEF SlotCount, NothingOverflows
<1>12. ASSUME ~crossed'
       PROVE  Apart' /\ Contents'
  <2>1. Apart /\ Contents
    BY <1>8, <1>12 DEF PathInv
  <2>2. InHand(h)
    BY <1>3 DEF InHand
  <2>3. ~In(h, free) /\ ~In(h, tx) /\ ~InQueue(h) /\ cur # h
    BY <2>1, <2>2, <1>4 DEF Apart
  <2>4. Distinct(tx') /\ \A s : In(s, tx') <=> In(s, tx) \/ s = h
    BY <2>1, <2>3, <1>4, <1>7, <1>9, AppendRing DEF Apart
  <2>5. \A b \in Holders' : b \in Holders /\ b # a /\ mine'[b] = mine[b]
    BY <1>1, <1>2, <1>3 DEF TypeOK, Holders
  <2>6. \A s : InHand(s)' => InHand(s) /\ s # h
    BY <2>1, <2>5, <1>3 DEF InHand, Apart
  <2>7. \A s : InQueue(s)' <=> InQueue(s)
    BY <1>8 DEF InQueue
  <2>8. Apart'
    <3>1. \A b, c \in Holders' : mine'[b].slot = mine'[c].slot => b = c
      BY <2>1, <2>5 DEF Apart
    <3>2. ASSUME NEW s \in Slots
          PROVE  /\ queue'[s] <= 1
                 /\ In(s, free') => ~In(s, tx') /\ ~InQueue(s)' /\ ~InHand(s)' /\ cur' # s
                 /\ In(s, tx') => ~InQueue(s)' /\ ~InHand(s)' /\ cur' # s
                 /\ InQueue(s)' => ~InHand(s)' /\ cur' # s
                 /\ InHand(s)' => cur' # s
      BY <2>1, <2>3, <2>4, <2>6, <2>7, <1>8 DEF Apart
    <3> QED  BY <2>1, <2>4, <1>8, <3>1, <3>2 DEF Apart
  <2>9. \A s : InFlight(s)' <=> InFlight(s) \/ s = h
    BY <2>4, <2>7, <1>8 DEF InFlight
  <2>10. /\ id \in 1..ids /\ fate[id] = "unsent"
         /\ mbuf[h] = id /\ meta[h] = asked[id]
    BY <2>1, <1>3, <1>7 DEF Contents
  <2>11. /\ fate'[id] = "posted" /\ \A i \in Ids : i # id => fate'[i] = fate[i]
         /\ 1..ids \subseteq Ids
    <3>1. fate'[id] = "posted" /\ \A i \in Ids : i # id => fate'[i] = fate[i]
      BY <1>1, <1>4, <1>7 DEF TypeOK
    <3>2. 1..ids \subseteq Ids
      BY <1>1, SendmsgAssumption DEF TypeOK, Ids
    <3> QED  BY <3>1, <3>2
  <2>12. \A s \in Slots : InFlight(s) => mbuf[s] # id
    BY <2>1, <2>10 DEF Contents
  <2>13. \A s \in Slots : InFlight(s)' =>
            /\ mbuf'[s] \in 1..ids' /\ fate'[mbuf'[s]] = "posted"
            /\ meta'[s] = asked'[mbuf'[s]]
    <3>1. ids' = ids /\ mbuf' = mbuf /\ meta' = meta /\ asked' = asked
      BY <1>8
    <3>2. ASSUME NEW s \in Slots, InFlight(s)'
          PROVE  /\ mbuf[s] \in 1..ids /\ fate'[mbuf[s]] = "posted"
                 /\ meta[s] = asked[mbuf[s]]
      <4>1. CASE s = h  BY <4>1, <2>10, <2>11
      <4>2. CASE InFlight(s)
        <5>1. mbuf[s] \in 1..ids /\ fate[mbuf[s]] = "posted" /\ meta[s] = asked[mbuf[s]]
          BY <4>2, <2>1, FlightContents
        <5> QED  BY <4>2, <5>1, <2>11, <2>12
      <4> QED  BY <3>2, <4>1, <4>2, <2>9
    <3> QED  BY <3>1, <3>2
  <2>14. \A r, s \in Slots : InFlight(r)' /\ InFlight(s)' /\ mbuf'[r] = mbuf'[s] => r = s
    <3>1. \A r, s \in Slots : InFlight(r) /\ InFlight(s) /\ mbuf[r] = mbuf[s] => r = s
      BY <2>1 DEF Contents
    <3>2. mbuf' = mbuf /\ mbuf[h] = id
      BY <2>10, <1>8
    <3> QED  BY <3>1, <3>2, <2>9, <2>12
  <2>15. ASSUME NEW b \in Holders'
         PROVE  /\ mine'[b].id \in 1..ids' /\ fate'[mine'[b].id] = "unsent"
                /\ st'[b] = "post" => /\ mbuf'[mine'[b].slot] = mine'[b].id
                                      /\ meta'[mine'[b].slot] = asked'[mine'[b].id]
    <3>1. b \in Holders /\ b # a /\ mine'[b] = mine[b] /\ b \in Senders
      BY <2>5 DEF Holders
    <3>2. mine[b].id # id /\ st'[b] = st[b]
      BY <3>1, <2>1, <1>1, <1>3, <1>7 DEF Contents, TypeOK
    <3>3. /\ mine[b].id \in 1..ids /\ fate[mine[b].id] = "unsent"
          /\ st[b] = "post" => /\ mbuf[mine[b].slot] = mine[b].id
                               /\ meta[mine[b].slot] = asked[mine[b].id]
      BY <3>1, <2>1, HolderContents
    <3>4. fate'[mine[b].id] = "unsent"
      BY <3>2, <3>3, <2>11
    <3> QED  BY <3>1, <3>2, <3>3, <3>4, <1>8
  <2>16. \A b, c \in Holders' : mine'[b].id = mine'[c].id => b = c
    BY <2>1, <2>5 DEF Contents
  <2>17. \A i \in Ids : fate'[i] # "twice" /\ (i > ids' => fate'[i] = "unsent")
    <3>1. ids \in Nat /\ ~(id > ids)
      BY <1>1, <2>10 DEF TypeOK
    <3> QED  BY <3>1, <2>1, <2>11, <1>8 DEF Contents
  <2>18. last' # None => last'.id \in 1..ids' /\ last'.txtime = asked'[last'.id]
    BY <2>1, <1>8 DEF Contents
  <2> QED  BY <2>8, <2>13, <2>14, <2>15, <2>16, <2>17, <2>18 DEF Contents
<1> QED  BY <1>10, <1>11, <1>12 DEF PathInv

\* A killed application keeps its slot.
LEMMA DieInv ==
    ASSUME PathInv, NEW a \in Senders, Die(a), UNCHANGED daemon
    PROVE  PathInv'
<1>1. TypeOK /\ SlotCount /\ ~failed
  BY DEF PathInv, NothingOverflows
<1>2. /\ free' = free /\ tx' = tx /\ queue' = queue /\ cur' = cur /\ dpc' = dpc
      /\ fate' = fate /\ last' = last /\ mine' = mine /\ ids' = ids /\ asked' = asked
      /\ queued' = queued /\ drops' = drops /\ failed' = failed /\ crossed' = crossed
      /\ txHead' = txHead /\ Holders' = Holders /\ mbuf' = mbuf /\ meta' = meta
      /\ st' = [st EXCEPT ![a] = "dead"]
  BY DEF Die, daemon, pools, Holders
<1>3. TypeOK'
  BY <1>1, <1>2 DEF TypeOK
<1>4. SlotCount' /\ NothingOverflows'
  BY <1>1, <1>2 DEF SlotCount, NothingOverflows, Holding
<1>5. ASSUME ~crossed'
      PROVE  Apart' /\ Contents'
  <2>1. Apart /\ Contents
    BY <1>2, <1>5 DEF PathInv
  <2>2. Apart'
    BY <2>1, <1>2 DEF Apart, InQueue, InHand
  <2>3. \A s : InFlight(s)' <=> InFlight(s)
    BY <1>2 DEF InFlight, InQueue
  <2>4. \A b \in Holders : st'[b] = "post" => st[b] = "post"
    BY <1>1, <1>2 DEF TypeOK, Holders
  <2> QED  BY <2>1, <2>2, <2>3, <2>4, <1>2 DEF Contents
<1> QED  BY <1>3, <1>4, <1>5 DEF PathInv

-----------------------------------------------------------------------------
(***************************************************************************)
(* The daemon                                                              *)
(***************************************************************************)
\* The numbers that SlotCount adds.
LEMMA CountTypes ==
    ASSUME TypeOK
    PROVE  /\ Len(free) \in Nat /\ Len(tx) \in Nat /\ queued \in Nat /\ drops \in Nat
           /\ Cardinality(Holders) \in Nat /\ Holding \in Nat /\ Capacity \in Nat
  BY HoldersType, Sizes DEF TypeOK, Holding

\* How often a slot is in a burst that stays inside the ring: once if it is
\* among the first k entries of tx_ring, otherwise not at all.
LEMMA CopiesInside ==
    ASSUME TypeOK, NEW k \in 0..Len(tx), txHead + k <= RingSize, Distinct(tx), NEW s
    PROVE  /\ Copies(k, k, s) \in {0, 1}
           /\ Copies(k, k, s) = 1 <=> \E i \in 1..k : tx[i] = s
<1> DEFINE C == {i \in 1..k : TxTable(k)[i] = s}
<1>1. tx \in Seq(Slots) /\ Len(tx) \in Nat /\ txHead \in Nat /\ RingSize \in Nat
  BY Sizes DEF TypeOK
<1>2. \A i \in 1..k : TxTable(k)[i] = tx[i]
  BY <1>1 DEF TxTable
<1>3. CASE \E i \in 1..k : tx[i] = s
  <2>1. PICK i \in 1..k : tx[i] = s
    BY <1>3
  <2>2. C = {i}
    BY <2>1, <1>1, <1>2 DEF Distinct
  <2>3. Cardinality(C) = 1
    BY <2>2, FS_Singleton
  <2> QED  BY <1>3, <2>3 DEF Copies
<1>4. CASE ~ \E i \in 1..k : tx[i] = s
  <2>1. C = {}
    BY <1>2, <1>4
  <2>2. Cardinality(C) = 0
    BY <2>1, FS_EmptySet
  <2> QED  BY <1>4, <2>2 DEF Copies
<1> QED  BY <1>3, <1>4

\* A count of copies is a number.
LEMMA CopiesType ==
    ASSUME NEW k \in Nat, NEW n \in Nat, NEW s
    PROVE  Copies(k, n, s) \in Nat
<1> DEFINE C == {i \in 1..n : TxTable(k)[i] = s}
<1>1. IsFiniteSet(1..n) /\ C \subseteq 1..n
  BY FS_Interval
<1>2. Cardinality(C) \in Nat
  <2> HIDE DEF C
  <2> QED  BY <1>1, FS_Subset, FS_CardinalityType
<1> QED  BY <1>2 DEF Copies

\* A burst moves from tx_ring to the queue, where there is room for it.
LEMMA DrainInv ==
    ASSUME PathInv, Drain
    PROVE  PathInv'
<1> DEFINE k == Least(TxBurst, Len(tx))
           n == Least(k, Capacity - queued)
<1>1. TypeOK /\ SlotCount /\ ~failed
  BY DEF PathInv, NothingOverflows
<1>2. /\ Len(free) \in Nat /\ Len(tx) \in Nat /\ queued \in Nat /\ drops \in Nat
      /\ Cardinality(Holders) \in Nat /\ Holding \in Nat /\ Capacity \in Nat
  BY <1>1, CountTypes
<1>3. k \in 0..Len(tx) /\ k \in Nat
  BY <1>2, SendmsgAssumption DEF Least
<1>4. n = k
  BY <1>1, <1>2, <1>3 DEF SlotCount, Least
<1>5. /\ queue' = [s \in Slots |-> queue[s] + Copies(k, k, s)]
      /\ queued' = queued + k
      /\ tx' = SubSeq(tx, k + 1, Len(tx))
      /\ txHead' = (txHead + k) % RingSize
      /\ failed' = failed
      /\ crossed' = (crossed \/ txHead + k > RingSize)
  <2>1. queued' = queued + n /\ failed' = (failed \/ n < k)
    BY DEF Drain
  <2>2. queue' = [s \in Slots |-> queue[s] + Copies(k, n, s)]
    BY DEF Drain
  <2>3. ~(k < k)
    BY <1>3
  <2> HIDE DEF n
  <2>4. failed \in BOOLEAN
    BY <1>1 DEF TypeOK
  <2> QED  BY <1>1, <1>4, <2>1, <2>2, <2>3, <2>4 DEF Drain
<1>6. /\ free' = free /\ mbuf' = mbuf /\ meta' = meta /\ st' = st /\ mine' = mine
      /\ ids' = ids /\ asked' = asked /\ fate' = fate /\ dpc' = dpc /\ cur' = cur
      /\ last' = last /\ drops' = drops /\ Holders' = Holders /\ Holding' = Holding
  BY DEF Drain, pools, app, Holders, Holding
<1> HIDE DEF k, n
<1>7. /\ tx \in Seq(Slots) /\ tx' \in Seq(Slots) /\ Len(tx') = Len(tx) - k
      /\ \A s : In(s, tx') <=> \E i \in (k + 1)..Len(tx) : tx[i] = s
      /\ Distinct(tx) => Distinct(tx')
  <2>1. tx \in Seq(Slots) /\ k \in 0..Len(tx) /\ tx' = SubSeq(tx, k + 1, Len(tx))
    BY <1>1, <1>3, <1>5 DEF TypeOK
  <2> QED  BY <2>1, RestOfRing
<1>8. TypeOK'
  <2>1. queue' \in [Slots -> Nat] /\ queued' \in Nat
    BY <1>1, <1>2, <1>3, <1>5, CopiesType DEF TypeOK
  <2>2. txHead' \in 0..(RingSize - 1)
    BY <1>1, <1>3, <1>5, SendmsgAssumption DEF TypeOK
  <2>3. failed' \in BOOLEAN /\ crossed' \in BOOLEAN
    BY <1>1, <1>5 DEF TypeOK
  <2> QED  BY <1>1, <1>6, <1>7, <2>1, <2>2, <2>3 DEF TypeOK
<1>9. SlotCount' /\ NothingOverflows'
  <2>1. /\ Len(free') = Len(free) /\ Len(tx') = Len(tx) - k /\ queued' = queued + k
        /\ Cardinality(Holders') = Cardinality(Holders) /\ Holding' = Holding
        /\ drops' = drops /\ k \in Nat
    BY <1>3, <1>5, <1>6, <1>7
  <2>2. SlotCount'
    BY <1>1, <1>2, <2>1 DEF SlotCount
  <2> QED  BY <2>2, <1>1, <1>5 DEF NothingOverflows
<1>10. ASSUME ~crossed'
       PROVE  Apart' /\ Contents'
  <2>1. Apart /\ Contents /\ ~(txHead + k > RingSize)
    BY <1>5, <1>10 DEF PathInv
  <2>2. txHead + k <= RingSize
    BY <2>1, <1>1, <1>3, SendmsgAssumption DEF TypeOK
  <2>3. \A s : /\ Copies(k, k, s) \in {0, 1}
               /\ Copies(k, k, s) = 1 <=> \E i \in 1..k : tx[i] = s
    BY <2>1, <2>2, <1>1, <1>3, CopiesInside DEF Apart
  <2>4. \A s : In(s, tx) <=> In(s, tx') \/ \E i \in 1..k : tx[i] = s
    <3>1. \A i \in 1..Len(tx) : i \in 1..k \/ i \in (k + 1)..Len(tx)
      BY <1>2, <1>3
    <3>2. 1..k \subseteq 1..Len(tx) /\ (k + 1)..Len(tx) \subseteq 1..Len(tx)
      BY <1>2, <1>3
    <3> QED  BY <1>7, <3>1, <3>2 DEF In
  <2>5. ASSUME NEW s, In(s, tx'), NEW i \in 1..k, tx[i] = s
        PROVE  FALSE
    <3>1. PICK j \in (k + 1)..Len(tx) : tx[j] = s
      BY <1>7, <2>5
    <3>2. i \in 1..Len(tx) /\ j \in 1..Len(tx) /\ i # j
      BY <1>2, <1>3
    <3> QED  BY <2>1, <2>5, <3>1, <3>2 DEF Apart, Distinct
  <2>6. ASSUME NEW s \in Slots
        PROVE  /\ queue'[s] <= 1
               /\ InQueue(s)' <=> InQueue(s) \/ \E i \in 1..k : tx[i] = s
    <3>1. queue'[s] = queue[s] + Copies(k, k, s) /\ queue[s] \in Nat
      BY <1>1, <1>5 DEF TypeOK
    <3>2. CASE \E i \in 1..k : tx[i] = s
      <4>1. In(s, tx)
        BY <3>2, <2>4
      <4>2. queue[s] = 0
        BY <4>1, <3>1, <2>1 DEF Apart, InQueue
      <4> QED  BY <3>1, <3>2, <4>2, <2>3 DEF InQueue
    <3>3. CASE ~ \E i \in 1..k : tx[i] = s
      <4>1. Copies(k, k, s) = 0
        BY <3>3, <2>3
      <4>2. queue[s] <= 1
        BY <2>1 DEF Apart
      <4> QED  BY <3>1, <3>3, <4>1, <4>2 DEF InQueue
    <3> QED  BY <3>2, <3>3
  <2>7. \A s : InHand(s)' <=> InHand(s)
    BY <1>6 DEF InHand
  <2>8. Apart'
    <3>1. ASSUME NEW s \in Slots
          PROVE  /\ queue'[s] <= 1
                 /\ In(s, free') => ~In(s, tx') /\ ~InQueue(s)' /\ ~InHand(s)' /\ cur' # s
                 /\ In(s, tx') => ~InQueue(s)' /\ ~InHand(s)' /\ cur' # s
                 /\ InQueue(s)' => ~InHand(s)' /\ cur' # s
                 /\ InHand(s)' => cur' # s
      BY <2>1, <2>4, <2>5, <2>6, <2>7, <1>6 DEF Apart
    <3> QED  BY <2>1, <3>1, <1>6, <1>7 DEF Apart
  <2>9. \A s \in Slots : InFlight(s)' <=> InFlight(s)
    BY <2>4, <2>6, <1>6 DEF InFlight
  <2>10. Contents'
    BY <2>1, <2>9, <1>6 DEF Contents
  <2> QED  BY <2>8, <2>10
<1> QED  BY <1>8, <1>9, <1>10 DEF PathInv

\* An entry that leaves the queue was there once and is there no more.
LEMMA LeavesQueue ==
    ASSUME TypeOK, NEW q \in Slots, Leaves(q)
    PROVE  /\ queue' \in [Slots -> Nat] /\ queued' \in Nat /\ queued = queued' + 1
           /\ \A s \in Slots : s # q => queue'[s] = queue[s]
           /\ queue'[q] = queue[q] - 1 /\ queue[q] \in Nat \ {0}
  BY DEF TypeOK, Leaves

\* What the slots contain stays right when the packet in q gets a new fate and
\* q is no longer in flight.
LEMMA PacketLeaves ==
    ASSUME TypeOK, Contents, NEW q \in Slots, InFlight(q),
           NEW f \in {"wire", "lost", "refused"}, fate' = [fate EXCEPT ![mbuf[q]] = f],
           \A s \in Slots : InFlight(s)' <=> InFlight(s) /\ s # q,
           mbuf' = mbuf, meta' = meta, ids' = ids, asked' = asked, st' = st,
           mine' = mine,
           last' # None => last'.id \in 1..ids /\ last'.txtime = asked[last'.id]
    PROVE  Contents'
<1> DEFINE p == mbuf[q]
<1>1. p \in 1..ids /\ fate[p] = "posted"
  BY DEF Contents
<1>2. 1..ids \subseteq Ids /\ ids \in Nat
  BY SendmsgAssumption DEF TypeOK, Ids
<1>3. fate'[p] = f /\ \A i \in Ids : i # p => fate'[i] = fate[i]
  BY <1>1, <1>2 DEF TypeOK
<1>4. Holders' = Holders
  BY DEF Holders
<1>5. \A s \in Slots : InFlight(s)' => mbuf[s] # p
  BY DEF Contents
<1>6. \A s \in Slots : InFlight(s)' =>
          /\ mbuf'[s] \in 1..ids' /\ fate'[mbuf'[s]] = "posted"
          /\ meta'[s] = asked'[mbuf'[s]]
  BY <1>2, <1>3, <1>5 DEF Contents
<1>7. \A r, s \in Slots : InFlight(r)' /\ InFlight(s)' /\ mbuf'[r] = mbuf'[s] => r = s
  BY DEF Contents
<1>8. ASSUME NEW b \in Holders'
      PROVE  /\ mine'[b].id \in 1..ids' /\ fate'[mine'[b].id] = "unsent"
             /\ st'[b] = "post" => /\ mbuf'[mine'[b].slot] = mine'[b].id
                                   /\ meta'[mine'[b].slot] = asked'[mine'[b].id]
  <2>1. b \in Holders
    BY <1>4
  <2>2. /\ mine[b].id \in 1..ids /\ fate[mine[b].id] = "unsent"
        /\ st[b] = "post" => /\ mbuf[mine[b].slot] = mine[b].id
                             /\ meta[mine[b].slot] = asked[mine[b].id]
    BY <2>1, HolderContents
  <2>3. mine[b].id # p /\ mine[b].id \in Ids
    BY <2>2, <1>1, <1>2
  <2> QED  BY <2>2, <2>3, <1>3
<1>9. \A b, c \in Holders' : mine'[b].id = mine'[c].id => b = c
  BY <1>4 DEF Contents
<1>10. \A i \in Ids : fate'[i] # "twice" /\ (i > ids' => fate'[i] = "unsent")
  <2>1. ~(p > ids)
    <3> HIDE DEF p
    <3> QED  BY <1>1, <1>2
  <2> QED  BY <1>3, <2>1 DEF Contents
<1> QED  BY <1>6, <1>7, <1>8, <1>9, <1>10 DEF Contents

\* A late packet leaves the queue for good.
LEMMA DropInv ==
    ASSUME PathInv, NEW q \in Slots, DropLate(q)
    PROVE  PathInv'
<1>1. TypeOK /\ SlotCount /\ ~failed
  BY DEF PathInv, NothingOverflows
<1>2. /\ queue' \in [Slots -> Nat] /\ queued' \in Nat /\ queued = queued' + 1
      /\ \A s \in Slots : s # q => queue'[s] = queue[s]
      /\ queue'[q] = queue[q] - 1 /\ queue[q] \in Nat \ {0}
  BY <1>1, LeavesQueue DEF DropLate
<1>3. /\ free' = free /\ tx' = tx /\ mbuf' = mbuf /\ meta' = meta /\ st' = st
      /\ mine' = mine /\ ids' = ids /\ asked' = asked /\ failed' = failed
      /\ txHead' = txHead /\ dpc' = dpc /\ cur' = cur /\ last' = last
      /\ crossed' = crossed /\ Holders' = Holders /\ Holding' = Holding
      /\ drops' = drops + 1 /\ fate' = [fate EXCEPT ![mbuf[q]] = "lost"]
  BY DEF DropLate, pools, app, Holders, Holding
<1>4. TypeOK'
  <2>1. fate' \in [{0} \cup Ids ->
                 {"unsent", "posted", "wire", "lost", "refused", "twice"}]
    BY <1>1, <1>3 DEF TypeOK
  <2>2. drops' \in Nat
    BY <1>1, <1>3 DEF TypeOK
  <2> QED  BY <1>1, <1>2, <1>3, <2>1, <2>2 DEF TypeOK
<1>5. SlotCount' /\ NothingOverflows'
  <2>1. queued \in Nat /\ queued' = queued - 1
    BY <1>1 DEF DropLate, Leaves, TypeOK
  <2>2. SlotCount'
    BY <1>1, <1>3, <2>1, CountTypes DEF SlotCount
  <2> QED  BY <2>2, <1>1, <1>3 DEF NothingOverflows
<1>6. ASSUME ~crossed'
      PROVE  Apart' /\ Contents'
  <2>1. Apart /\ Contents
    BY <1>3, <1>6 DEF PathInv
  <2>2. \A s \in Slots : InQueue(s)' <=> InQueue(s) /\ s # q
    <3>1. queue[q] = 1
      BY <2>1, <1>2 DEF Apart
    <3> QED  BY <3>1, <1>2 DEF InQueue
  <2>3. InQueue(q)
    BY <1>2 DEF InQueue
  <2>4. \A s \in Slots : queue'[s] <= 1
    BY <2>1, <1>2 DEF Apart
  <2>5. \A s : InHand(s)' <=> InHand(s)
    BY <1>3 DEF InHand
  <2>6. Apart'
    BY <2>1, <2>2, <2>4, <2>5, <1>3 DEF Apart
  <2>7. \A s \in Slots : InFlight(s)' <=> InFlight(s) /\ s # q
    BY <2>1, <2>2, <2>3, <1>3 DEF InFlight, Apart
  <2>8. Contents'
    <3>1. last' # None => last'.id \in 1..ids /\ last'.txtime = asked[last'.id]
      BY <2>1, <1>3 DEF Contents
    <3>2. InFlight(q)
      BY <2>3 DEF InFlight
    <3> QED  BY <3>1, <3>2, <2>1, <2>7, <1>1, <1>3, PacketLeaves
  <2> QED  BY <2>6, <2>8
<1> QED  BY <1>4, <1>5, <1>6 DEF PathInv

\* The packet at the root of the queue is due: the daemon takes it.
LEMMA ExtractInv ==
    ASSUME PathInv, NEW q \in Slots, Extract(q)
    PROVE  PathInv'
<1>1. TypeOK /\ SlotCount /\ ~failed
  BY DEF PathInv, NothingOverflows
<1>2. /\ queue' \in [Slots -> Nat] /\ queued' \in Nat /\ queued = queued' + 1
      /\ \A s \in Slots : s # q => queue'[s] = queue[s]
      /\ queue'[q] = queue[q] - 1 /\ queue[q] \in Nat \ {0}
  BY <1>1, LeavesQueue DEF Extract
<1>3. /\ free' = free /\ tx' = tx /\ mbuf' = mbuf /\ meta' = meta /\ st' = st
      /\ mine' = mine /\ ids' = ids /\ asked' = asked /\ failed' = failed
      /\ txHead' = txHead /\ last' = last /\ crossed' = crossed
      /\ Holders' = Holders /\ drops' = drops /\ fate' = fate
  BY DEF Extract, sendVars, pools, app, Holders
<1>4. dpc = "poll" /\ cur = None /\ dpc' = "send" /\ cur' = q /\ q # None
  BY <1>1, SendmsgAssumption DEF Extract, Leaves, TypeOK
<1>5. TypeOK'
  BY <1>1, <1>2, <1>3, <1>4 DEF TypeOK
<1>6. SlotCount' /\ NothingOverflows'
  <2>1. /\ Len(free') = Len(free) /\ Len(tx') = Len(tx) /\ queued = queued' + 1
        /\ Cardinality(Holders') = Cardinality(Holders) /\ Holding' = 1 /\ Holding = 0
        /\ drops' = drops /\ queued' \in Nat
    BY <1>2, <1>3, <1>4 DEF Holding
  <2>2. SlotCount'
    BY <1>1, <2>1, CountTypes DEF SlotCount
  <2> QED  BY <2>2, <1>1, <1>3 DEF NothingOverflows
<1>7. ASSUME ~crossed'
      PROVE  Apart' /\ Contents'
  <2>1. Apart /\ Contents
    BY <1>3, <1>7 DEF PathInv
  <2>2. \A s \in Slots : InQueue(s)' <=> InQueue(s) /\ s # q
    <3>1. queue[q] = 1
      BY <2>1, <1>2 DEF Apart
    <3> QED  BY <3>1, <1>2 DEF InQueue
  <2>3. InQueue(q)
    BY <1>2 DEF InQueue
  <2>4. \A s \in Slots : queue'[s] <= 1
    BY <2>1, <1>2 DEF Apart
  <2>5. \A s : InHand(s)' <=> InHand(s)
    BY <1>3 DEF InHand
  <2>6. Apart'
    BY <2>1, <2>2, <2>3, <2>4, <2>5, <1>3, <1>4 DEF Apart
  <2>7. \A s \in Slots : InFlight(s)' <=> InFlight(s)
    BY <2>2, <2>3, <1>3, <1>4 DEF InFlight
  <2>8. Contents'
    BY <2>1, <2>7, <1>3 DEF Contents
  <2> QED  BY <2>6, <2>8
<1> QED  BY <1>5, <1>6, <1>7 DEF PathInv

\* The packet in the daemon's hands goes on the wire or is refused; either way
\* its slot is no longer in flight.
LEMMA TransmitInv ==
    ASSUME PathInv, Transmit
    PROVE  PathInv'
<1> DEFINE id == mbuf[cur]
<1>1. TypeOK /\ SlotCount /\ ~failed
  BY DEF PathInv, NothingOverflows
<1>2. /\ free' = free /\ tx' = tx /\ mbuf' = mbuf /\ meta' = meta /\ st' = st
      /\ mine' = mine /\ ids' = ids /\ asked' = asked /\ failed' = failed
      /\ txHead' = txHead /\ queue' = queue /\ queued' = queued /\ cur' = cur
      /\ crossed' = crossed /\ Holders' = Holders /\ Holding' = Holding
      /\ drops' = drops
  BY DEF Transmit, pools, app, Holders, Holding
<1>3. dpc = "send" /\ dpc' = "recycle" /\ cur \in Slots
  BY <1>1 DEF Transmit, TypeOK
<1>4. PICK f \in {"wire", "twice", "refused"} :
          /\ fate' = [fate EXCEPT ![id] = f]
          /\ fate[id] = "posted" => f # "twice"
          /\ last' = last \/ last' = [id |-> id, txtime |-> meta[cur]]
  BY DEF Transmit
<1>5. TypeOK'
  <2>1. fate' \in [{0} \cup Ids ->
                 {"unsent", "posted", "wire", "lost", "refused", "twice"}]
    BY <1>1, <1>4 DEF TypeOK
  <2> QED  BY <1>1, <1>2, <1>3, <2>1 DEF TypeOK
<1>6. SlotCount' /\ NothingOverflows'
  BY <1>1, <1>2 DEF SlotCount, NothingOverflows
<1>7. ASSUME ~crossed'
      PROVE  Apart' /\ Contents'
  <2>1. Apart /\ Contents
    BY <1>2, <1>7 DEF PathInv
  <2>2. \A s : (InHand(s)' <=> InHand(s)) /\ (InQueue(s)' <=> InQueue(s))
    BY <1>2 DEF InHand, InQueue
  <2>3. Apart'
    BY <2>1, <2>2, <1>2 DEF Apart
  <2>4. InFlight(cur)
    BY <1>3 DEF InFlight
  <2>5. \A s \in Slots : InFlight(s)' <=> InFlight(s) /\ s # cur
    BY <2>1, <2>2, <1>2, <1>3 DEF InFlight, Apart
  <2>6. id \in 1..ids /\ fate[id] = "posted" /\ meta[cur] = asked[id]
    BY <2>1, <2>4, <1>3 DEF Contents
  <2>7. last' # None => last'.id \in 1..ids /\ last'.txtime = asked[last'.id]
    <3>1. last # None => last.id \in 1..ids /\ last.txtime = asked[last.id]
      BY <2>1 DEF Contents
    <3>2. CASE last' = last
      BY <3>1, <3>2
    <3>3. CASE last' = [id |-> id, txtime |-> meta[cur]]
      <4>1. last'.id = id /\ last'.txtime = meta[cur]
        BY <3>3
      <4> QED  BY <4>1, <2>6
    <3> QED  BY <3>2, <3>3, <1>4
  <2>8. f \in {"wire", "lost", "refused"}
    BY <2>6, <1>4
  <2>9. Contents'
    BY <2>1, <2>4, <2>5, <2>7, <2>8, <1>1, <1>2, <1>3, <1>4, PacketLeaves
  <2> QED  BY <2>3, <2>9
<1> QED  BY <1>5, <1>6, <1>7 DEF PathInv

\* The slot goes back to free_ring, which has room for it.
LEMMA RecycleInv ==
    ASSUME PathInv, Recycle
    PROVE  PathInv'
<1>1. TypeOK /\ SlotCount /\ ~failed
  BY DEF PathInv, NothingOverflows
<1>2. /\ tx' = tx /\ mbuf' = mbuf /\ meta' = meta /\ st' = st /\ mine' = mine
      /\ ids' = ids /\ asked' = asked /\ fate' = fate /\ txHead' = txHead
      /\ queue' = queue /\ queued' = queued /\ last' = last /\ crossed' = crossed
      /\ Holders' = Holders /\ drops' = drops
  BY DEF Recycle, pools, app, Holders
<1>3. dpc = "recycle" /\ cur \in Slots /\ dpc' = "poll" /\ cur' = None /\ None \notin Slots
  BY <1>1, SendmsgAssumption DEF Recycle, TypeOK
<1>4. /\ Len(free) \in Nat /\ Len(tx) \in Nat /\ queued \in Nat /\ drops \in Nat
      /\ Cardinality(Holders) \in Nat /\ Capacity \in Nat /\ Holding = 1 /\ Holding' = 0
  BY <1>1, <1>3, CountTypes DEF Holding
<1>5. Len(free) < Capacity
  BY <1>1, <1>4 DEF SlotCount
<1>6. free' = Append(free, cur) /\ failed' = failed
  BY <1>1, <1>4, <1>5 DEF Recycle, TypeOK
<1>7. free \in Seq(Slots) /\ free' \in Seq(Slots) /\ Len(free') = Len(free) + 1
  BY <1>1, <1>3, <1>6, AppendRing DEF TypeOK
<1>8. TypeOK'
  BY <1>1, <1>2, <1>3, <1>6, <1>7 DEF TypeOK
<1>9. SlotCount' /\ NothingOverflows'
  BY <1>1, <1>2, <1>4, <1>6, <1>7 DEF SlotCount, NothingOverflows
<1>10. ASSUME ~crossed'
       PROVE  Apart' /\ Contents'
  <2>1. Apart /\ Contents
    BY <1>2, <1>10 DEF PathInv
  <2>2. ~In(cur, free) /\ ~In(cur, tx) /\ ~InQueue(cur) /\ ~InHand(cur)
    BY <2>1, <1>3 DEF Apart
  <2>3. Distinct(free') /\ \A s : In(s, free') <=> In(s, free) \/ s = cur
    BY <2>1, <2>2, <1>3, <1>6, <1>7, AppendRing DEF Apart
  <2>4. \A s : (InHand(s)' <=> InHand(s)) /\ (InQueue(s)' <=> InQueue(s))
    BY <1>2 DEF InHand, InQueue
  <2>5. Apart'
    <3>1. ASSUME NEW s \in Slots
          PROVE  /\ queue'[s] <= 1
                 /\ In(s, free') => ~In(s, tx') /\ ~InQueue(s)' /\ ~InHand(s)' /\ cur' # s
                 /\ In(s, tx') => ~InQueue(s)' /\ ~InHand(s)' /\ cur' # s
                 /\ InQueue(s)' => ~InHand(s)' /\ cur' # s
                 /\ InHand(s)' => cur' # s
      BY <2>1, <2>2, <2>3, <2>4, <1>2, <1>3 DEF Apart
    <3> QED  BY <2>1, <2>3, <3>1, <1>2 DEF Apart
  <2>6. \A s \in Slots : InFlight(s)' <=> InFlight(s)
    BY <2>4, <1>2, <1>3 DEF InFlight
  <2>7. Contents'
    BY <2>1, <2>6, <1>2 DEF Contents
  <2> QED  BY <2>5, <2>7
<1> QED  BY <1>8, <1>9, <1>10 DEF PathInv

\* A step that changes nothing.
LEMMA StutterInv ==
    ASSUME PathInv, UNCHANGED vars
    PROVE  PathInv'
<1>1. /\ free' = free /\ tx' = tx /\ mbuf' = mbuf /\ meta' = meta /\ st' = st
      /\ mine' = mine /\ ids' = ids /\ asked' = asked /\ fate' = fate
      /\ failed' = failed /\ txHead' = txHead /\ queue' = queue /\ queued' = queued
      /\ dpc' = dpc /\ cur' = cur /\ last' = last /\ drops' = drops /\ crossed' = crossed
  BY DEF vars, sendVars, pools, app, daemon
<1>2. Holders' = Holders /\ Holding' = Holding
  BY <1>1 DEF Holders, Holding
<1>3. \A s : (InHand(s)' <=> InHand(s)) /\ (InQueue(s)' <=> InQueue(s))
  BY <1>1, <1>2 DEF InHand, InQueue
<1>4. \A s : InFlight(s)' <=> InFlight(s)
  BY <1>1, <1>3 DEF InFlight
<1>5. TypeOK'
  BY <1>1 DEF PathInv, TypeOK
<1>6. SlotCount' /\ NothingOverflows'
  BY <1>1, <1>2 DEF PathInv, SlotCount, NothingOverflows
<1>7. Apart => Apart'
  BY <1>1, <1>2, <1>3 DEF Apart
<1>8. Contents => Contents'
  BY <1>1, <1>2, <1>4 DEF Contents
<1> QED  BY <1>1, <1>5, <1>6, <1>7, <1>8 DEF PathInv

\* PathInv is kept by every step.
LEMMA StepInv ==
    ASSUME PathInv, [Next]_vars
    PROVE  PathInv'
<1>1. CASE UNCHANGED vars
  BY <1>1, StutterInv
<1>2. ASSUME NEW a \in Senders, SendStep(a), UNCHANGED daemon
      PROVE  PathInv'
  BY <1>2, TakeSlotInv, FillInv, PostInv, DieInv DEF SendStep
<1>3. ASSUME NEW s \in Slots, DropLate(s) \/ Extract(s)
      PROVE  PathInv'
  BY <1>3, DropInv, ExtractInv
<1>4. CASE Drain \/ Transmit \/ Recycle
  BY <1>4, DrainInv, TransmitInv, RecycleInv
<1> QED  BY <1>1, <1>2, <1>3, <1>4 DEF Next

-----------------------------------------------------------------------------
(***************************************************************************)
(* The theorems                                                            *)
(***************************************************************************)
\* For any number of application threads, any ring size and burst, any of the
\* threads killed at any point: the slots are counted, nothing overflows, and
\* until a burst runs past the end of tx_ring each slot has one owner and what
\* it contains follows from where it is.
THEOREM PathInvariant == Spec => []PathInv
<1>1. Init => PathInv
  BY InitPath
<1>2. PathInv /\ [Next]_vars => PathInv'
  BY StepInv
<1> QED  BY <1>1, <1>2, PTL DEF Spec

\* sendmsg and the daemon lose a slot to a late packet and to nothing else,
\* bursts past the end of tx_ring included.
THEOREM SlotsConserved == Spec => []SlotCount
<1>1. PathInv => SlotCount
  BY DEF PathInv
<1> QED  BY <1>1, PathInvariant, PTL

\* The results that ktsnd.c does not look at, and the full tx_ring at which
\* sendmsg would lose its slot, are never failures.
THEOREM NoOverflow == Spec => []NothingOverflows
<1>1. PathInv => NothingOverflows
  BY DEF PathInv
<1> QED  BY <1>1, PathInvariant, PTL

\* No application writes a slot that another one or the daemon still uses,
\* until a burst runs past the end of tx_ring.
THEOREM OwnerUnique == Spec => []OneOwner
<1>1. PathInv => OneOwner
  BY DEF PathInv, OneOwner
<1> QED  BY <1>1, PathInvariant, PTL

\* Until then the daemon sends what was posted, for the time asked, once.
THEOREM WireCorrect == Spec => []WireFaithful
<1>1. PathInv => WireFaithful
  <2>1. TypeOK => 1..ids \subseteq Ids
    BY SendmsgAssumption DEF TypeOK, Ids
  <2> QED  BY <2>1 DEF PathInv, Contents, WireFaithful
<1> QED  BY <1>1, PathInvariant, PTL
=============================================================================
