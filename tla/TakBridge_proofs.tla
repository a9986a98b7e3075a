--------------------------- MODULE TakBridge_proofs ---------------------------
(***************************************************************************)
(* Proofs about TakBridge and TakSink, for any finite set of nodes, any    *)
(* queue capacity and any bounds that satisfy SinkAssumption and           *)
(* BridgeAssumption.                                                       *)
(*                                                                         *)
(* A failed event is put back behind newer ones, so the queue is in order  *)
(* only until a session ends.  The backlog is dropped before the next one, *)
(* and everything below is about a queue that will be written as it stands *)
(* (Live): one of a session, or one no session has touched yet.            *)
(***************************************************************************)
EXTENDS TakBridge, FiniteSetTheorems, SequenceTheorems, TLAPS

(* What is in the queue now will be written before it is dropped.          *)
Live == sess # "backoff" \/ ~was_connected

(* The positions of one entity are queued oldest first.                    *)
Ordered(q) ==
    \A i, j \in 1..Len(q) :
        i < j /\ q[i].key = q[j].key /\ q[i].ver # 0 /\ q[j].ver # 0 =>
            q[i].ver <= q[j].ver

(* A queued position is no older than what was written for the entity and  *)
(* no newer than what the bridge has of it.                                *)
Within(q, wr, la, st) ==
    \A i \in 1..Len(q) : q[i].ver # 0 =>
        /\ wr[q[i].key] <= q[i].ver
        /\ q[i].ver <= la[q[i].key]
        /\ HasPosition(st, q[i].key) => q[i].ver <= st[q[i].key]

(* A queued position is of an entity with a position, or its drop follows. *)
Backed(q, st) ==
    \A i \in 1..Len(q) : q[i].ver # 0 =>
        \/ HasPosition(st, q[i].key)
        \/ \E j \in i + 1 .. Len(q) : q[j] = DropCot(q[i].key)

Good(q, wr, la, st) == Ordered(q) /\ Within(q, wr, la, st) /\ Backed(q, st)

(* The bridge never holds a position newer than the broker's, nor older    *)
(* than one it has written.                                                *)
Held(wr, la, st) ==
    \A k \in Entities :
        /\ wr[k] <= la[k]
        /\ HasPosition(st, k) => wr[k] <= st[k] /\ st[k] <= la[k]

(* The broker retains a location only once there is one.                   *)
DueIsThere == \A k \in Entities : LocationTopic(k) \in due => latest[k] > 0

IInv ==
    /\ TypeOK
    /\ sess # "backoff" => was_connected
    /\ DueIsThere
    /\ Held(written, latest, state)
    /\ Live => Good(queue, written, latest, state)

-----------------------------------------------------------------------------
(* Sequences.                                                              *)

(* A set of the model's entities, one after the other in any order, names  *)
(* each of them and nothing else.                                          *)
LEMMA SetToSeqsProperties ==
    ASSUME NEW S \in SUBSET Entities, NEW ks \in SetToSeqs(S)
    PROVE  /\ ks \in Seq(S)
           /\ DOMAIN ks = 1..Len(ks)
           /\ \A x \in S : \E i \in 1..Len(ks) : ks[i] = x
<1>1. IsFiniteSet(Entities)
    BY FS_AddElement, BridgeAssumption
<1>2. IsFiniteSet(S) /\ Cardinality(S) \in Nat
    BY <1>1, FS_Subset, FS_CardinalityType
<1> DEFINE D == 1..Cardinality(S)
<1>3. IsFiniteSet(D) /\ Cardinality(D) = Cardinality(S)
    BY <1>2, FS_Interval
<1>4. ks \in [D -> S] /\ \A i, j \in D : i # j => ks[i] # ks[j]
    BY DEF SetToSeqs
<1>5. ks \in Injection(D, S)
    BY <1>4 DEF Injection, IsInjective
<1>6. ks \in Surjection(D, S)
    BY <1>2, <1>3, <1>5, FS_Injection
<1>7. ks \in Seq(S) /\ Len(ks) = Cardinality(S) /\ DOMAIN ks = D
    BY <1>2, <1>4
<1> QED
    BY <1>6, <1>7 DEF Surjection

(* q is what is left of all after its oldest events are gone.              *)
Suffix(q, all) ==
    /\ q \in Seq(CotEvent) /\ Len(q) <= Len(all)
    /\ \A i \in 1..Len(q) : q[i] = all[i + (Len(all) - Len(q))]

(* send() keeps the newest Cap of the events.                              *)
LEMMA EnqueuedProperties ==
    ASSUME NEW q \in Seq(CotEvent), NEW s \in Seq(CotEvent)
    PROVE  /\ Suffix(Enqueued(q, s), q \o s)
           /\ Len(Enqueued(q, s)) <= Cap
<1> DEFINE all == q \o s
           first == IF Len(all) > Cap THEN Len(all) - Cap + 1 ELSE 1
<1>1. /\ all \in Seq(CotEvent) /\ Len(all) \in Nat
      /\ \A i \in 1..Len(all) : all[i] \in CotEvent
    BY ConcatProperties, LenProperties
<1>2. first \in 1..(Len(all) + 1) /\ Len(all) - first + 1 <= Cap
    BY <1>1, SinkAssumption
<1>3. \A i \in first..Len(all) : all[i] \in CotEvent
    BY <1>1, <1>2
<1> HIDE DEF all, first
<1>4. /\ SubSeq(all, first, Len(all)) \in Seq(CotEvent)
      /\ Len(SubSeq(all, first, Len(all))) =
             IF first <= Len(all) THEN Len(all) - first + 1 ELSE 0
      /\ \A i \in 1 .. Len(all) - first + 1 :
             SubSeq(all, first, Len(all))[i] = all[first + i - 1]
    BY <1>1, <1>2, <1>3, SubSeqProperties
<1>5. PICK r : r = SubSeq(all, first, Len(all))
    OBVIOUS
<1>6. /\ r \in Seq(CotEvent) /\ Len(r) = Len(all) - first + 1 /\ first \in Nat
      /\ \A i \in 1 .. Len(all) - first + 1 : r[i] = all[first + i - 1]
    BY <1>1, <1>2, <1>4, <1>5
<1>7. Len(r) <= Cap /\ Len(r) <= Len(all)
    BY <1>1, <1>2, <1>6
<1>8. \A i \in 1..Len(r) : r[i] = all[i + (Len(all) - Len(r))]
    <2> SUFFICES ASSUME NEW i \in 1..Len(r)
                 PROVE  r[i] = all[i + (Len(all) - Len(r))]
        OBVIOUS
    <2>1. i \in 1..(Len(all) - first + 1) /\ first + i - 1 = i + (Len(all) - Len(r))
        BY <1>1, <1>6
    <2> QED
        BY <1>6, <2>1
<1>9. Enqueued(q, s) = r
    BY <1>5 DEF Enqueued, all, first
<1> QED
    BY <1>6, <1>7, <1>8, <1>9 DEF Suffix, all

-----------------------------------------------------------------------------
(* Good queues.                                                            *)

(* Every position of the batch s is the one the bridge has.                *)
Current(s, st) ==
    \A i \in 1..Len(s) :
        s[i].ver # 0 => HasPosition(st, s[i].key) /\ s[i].ver = st[s[i].key]

(* A queue whose oldest events are gone stays good.                        *)
LEMMA GoodSuffix ==
    ASSUME NEW all \in Seq(CotEvent), NEW q, Suffix(q, all),
           NEW wr, NEW la, NEW st, Good(all, wr, la, st)
    PROVE  Good(q, wr, la, st)
<1> DEFINE d == Len(all) - Len(q)
<1>1. /\ d \in Nat /\ Len(all) \in Nat /\ Len(q) \in Nat /\ Len(all) = Len(q) + d
      /\ \A i \in 1..Len(q) : q[i] = all[i + d] /\ i + d \in 1..Len(all)
    BY LenProperties DEF Suffix
<1> HIDE DEF d
<1>2. Ordered(q)
    <2> SUFFICES ASSUME NEW i \in 1..Len(q), NEW j \in 1..Len(q), i < j,
                        q[i].key = q[j].key, q[i].ver # 0, q[j].ver # 0
                 PROVE  q[i].ver <= q[j].ver
        BY DEF Ordered
    <2>1. /\ q[i] = all[i + d] /\ q[j] = all[j + d]
          /\ i + d \in 1..Len(all) /\ j + d \in 1..Len(all) /\ i + d < j + d
        BY <1>1
    <2> QED
        BY <2>1 DEF Good, Ordered
<1>3. Within(q, wr, la, st)
    BY <1>1 DEF Good, Within
<1>4. Backed(q, st)
    <2> SUFFICES ASSUME NEW i \in 1..Len(q), q[i].ver # 0, ~HasPosition(st, q[i].key)
                 PROVE  \E j \in i + 1 .. Len(q) : q[j] = DropCot(q[i].key)
        BY DEF Backed
    <2>1. PICK j \in i + d + 1 .. Len(all) : all[j] = DropCot(q[i].key)
        BY <1>1 DEF Good, Backed
    <2>2. j - d \in i + 1 .. Len(q) /\ j - d \in 1..Len(q) /\ (j - d) + d = j
        BY <1>1
    <2> QED
        BY <1>1, <2>1, <2>2
<1> QED
    BY <1>2, <1>3, <1>4 DEF Good

(* So does one that a batch of the bridge is added to, if the batch holds  *)
(* the drops that are missing.                                             *)
LEMMA GoodConcat ==
    ASSUME NEW q \in Seq(CotEvent), NEW s \in Seq(CotEvent),
           NEW wr \in [Entities -> Nat], NEW la \in [Entities -> Nat],
           NEW st \in [Entities -> Nat \cup {Absent}],
           Held(wr, la, st), Ordered(q), Within(q, wr, la, st), Current(s, st),
           \A i \in 1..Len(q) : q[i].ver # 0 =>
               \/ HasPosition(st, q[i].key)
               \/ \E j \in i + 1 .. Len(q) : q[j] = DropCot(q[i].key)
               \/ \E j \in 1..Len(s) : s[j] = DropCot(q[i].key)
    PROVE  Good(q \o s, wr, la, st)
<1> DEFINE a == q \o s
<1>1. /\ a \in Seq(CotEvent) /\ Len(a) = Len(q) + Len(s)
      /\ Len(q) \in Nat /\ Len(s) \in Nat
      /\ \A i \in 1..Len(a) : a[i] = IF i <= Len(q) THEN q[i] ELSE s[i - Len(q)]
    BY ConcatProperties, LenProperties
<1> HIDE DEF a
<1>2. \A i \in 1..Len(a) : a[i].key \in Entities /\ a[i].ver \in Nat
    <2>1. \A i \in 1..Len(a) : a[i] \in CotEvent
        BY <1>1, LenProperties
    <2> QED
        BY <2>1 DEF CotEvent
<1>3. \A i \in 1..Len(a) : i <= Len(q) => i \in 1..Len(q) /\ a[i] = q[i]
    BY <1>1
<1>4. \A i \in 1..Len(a) :
          ~(i <= Len(q)) => i - Len(q) \in 1..Len(s) /\ a[i] = s[i - Len(q)]
    BY <1>1
<1>5. \A i \in 1..Len(a) :
          ~(i <= Len(q)) /\ a[i].ver # 0 =>
              HasPosition(st, a[i].key) /\ a[i].ver = st[a[i].key]
    BY <1>4 DEF Current
<1>6. Within(a, wr, la, st)
    <2> SUFFICES ASSUME NEW i \in 1..Len(a), a[i].ver # 0
                 PROVE  /\ wr[a[i].key] <= a[i].ver
                        /\ a[i].ver <= la[a[i].key]
                        /\ HasPosition(st, a[i].key) => a[i].ver <= st[a[i].key]
        BY DEF Within
    <2>1. CASE i <= Len(q)
        BY <1>3, <2>1 DEF Within
    <2>2. CASE ~(i <= Len(q))
        BY <1>2, <1>5, <2>2 DEF Held
    <2> QED
        BY <2>1, <2>2
<1>7. Ordered(a)
    <2> SUFFICES ASSUME NEW i \in 1..Len(a), NEW j \in 1..Len(a), i < j,
                        a[i].key = a[j].key, a[i].ver # 0, a[j].ver # 0
                 PROVE  a[i].ver <= a[j].ver
        BY DEF Ordered
    <2>1. CASE j <= Len(q)
        <3>1. i \in 1..Len(q) /\ j \in 1..Len(q) /\ a[i] = q[i] /\ a[j] = q[j]
            BY <1>1, <1>3, <2>1
        <3> QED
            BY <3>1 DEF Ordered
    <2>2. CASE ~(j <= Len(q))
        <3>1. HasPosition(st, a[j].key) /\ a[j].ver = st[a[j].key]
            BY <1>5, <2>2
        <3>2. HasPosition(st, a[i].key) => a[i].ver <= st[a[i].key]
            BY <1>6 DEF Within
        <3> QED
            BY <3>1, <3>2
    <2> QED
        BY <2>1, <2>2
<1>8. Backed(a, st)
    <2> SUFFICES ASSUME NEW i \in 1..Len(a), a[i].ver # 0, ~HasPosition(st, a[i].key)
                 PROVE  \E j \in i + 1 .. Len(a) : a[j] = DropCot(a[i].key)
        BY DEF Backed
    <2>1. i \in 1..Len(q) /\ a[i] = q[i]
        BY <1>3, <1>5
    <2>2. CASE \E j \in i + 1 .. Len(q) : q[j] = DropCot(q[i].key)
        BY <1>1, <2>1, <2>2
    <2>3. CASE \E j \in 1..Len(s) : s[j] = DropCot(q[i].key)
        <3>1. PICK j \in 1..Len(s) : s[j] = DropCot(q[i].key)
            BY <2>3
        <3>2. /\ j + Len(q) \in i + 1 .. Len(a) /\ j + Len(q) \in 1..Len(a)
              /\ ~(j + Len(q) <= Len(q)) /\ (j + Len(q)) - Len(q) = j
            BY <1>1, <2>1
        <3> QED
            BY <1>4, <2>1, <3>1, <3>2
    <2> QED
        BY <2>1, <2>2, <2>3
<1> QED
    BY <1>6, <1>7, <1>8 DEF Good, a

(* send() of a batch of the bridge.                                        *)
LEMMA GoodEnqueued ==
    ASSUME NEW q \in Seq(CotEvent), NEW s \in Seq(CotEvent),
           NEW wr \in [Entities -> Nat], NEW la \in [Entities -> Nat],
           NEW st \in [Entities -> Nat \cup {Absent}],
           Held(wr, la, st), Good(q, wr, la, st), Current(s, st)
    PROVE  Good(Enqueued(q, s), wr, la, st)
<1>1. Good(q \o s, wr, la, st)
    BY GoodConcat DEF Good, Backed
<1>2. q \o s \in Seq(CotEvent) /\ Suffix(Enqueued(q, s), q \o s)
    BY ConcatProperties, EnqueuedProperties
<1> QED
    BY <1>1, <1>2, GoodSuffix

(* What _republish_all sends is what the bridge has.                       *)
LEMMA RefreshProperties ==
    ASSUME NEW st \in [Entities -> Nat \cup {Absent}], NEW fresh \in Refresh(st)
    PROVE  fresh \in Seq(CotEvent) /\ Current(fresh, st)
<1> DEFINE S == {k \in Entities : HasPosition(st, k)}
<1>1. PICK ks \in SetToSeqs(S) : fresh = [i \in DOMAIN ks |-> PositionCot(ks[i], st[ks[i]])]
    BY DEF Refresh
<1>2. ks \in Seq(S) /\ DOMAIN ks = 1..Len(ks) /\ Len(ks) \in Nat
    BY SetToSeqsProperties, LenProperties
<1>3. \A i \in 1..Len(ks) : /\ ks[i] \in Entities /\ HasPosition(st, ks[i])
                            /\ st[ks[i]] \in Nat
    BY <1>2 DEF HasPosition
<1>4. \A i \in 1..Len(ks) : PositionCot(ks[i], st[ks[i]]) \in CotEvent
    BY <1>3 DEF PositionCot, CotEvent
<1>5. fresh \in Seq(CotEvent) /\ Len(fresh) = Len(ks)
    BY <1>1, <1>2, <1>4
<1>6. Current(fresh, st)
    BY <1>1, <1>2, <1>3, <1>5 DEF Current, PositionCot
<1> QED
    BY <1>5, <1>6

(* What _publish_drop sends takes away every marker of S.                  *)
LEMMA DropsProperties ==
    ASSUME NEW S \in SUBSET Entities, NEW drops \in Drops(S)
    PROVE  /\ drops \in Seq(CotEvent)
           /\ \A i \in 1..Len(drops) : drops[i].ver = 0
           /\ \A k \in S : \E i \in 1..Len(drops) : drops[i] = DropCot(k)
<1>1. PICK ks \in SetToSeqs(S) : drops = [i \in DOMAIN ks |-> DropCot(ks[i])]
    BY DEF Drops
<1>2. /\ ks \in Seq(S) /\ DOMAIN ks = 1..Len(ks) /\ Len(ks) \in Nat
      /\ \A x \in S : \E i \in 1..Len(ks) : ks[i] = x
    BY SetToSeqsProperties, LenProperties
<1>3. \A i \in 1..Len(ks) : DropCot(ks[i]) \in CotEvent
    BY <1>2 DEF DropCot, CotEvent
<1>4. drops \in Seq(CotEvent) /\ Len(drops) = Len(ks)
    BY <1>1, <1>2, <1>3
<1>5. \A i \in 1..Len(drops) : drops[i] = DropCot(ks[i])
    BY <1>1, <1>2, <1>4
<1>6. \A i \in 1..Len(drops) : drops[i].ver = 0
    <2>1. \A x : DropCot(x).ver = 0
        BY DEF DropCot
    <2> QED
        BY <1>5, <2>1
<1>7. \A k \in S : \E i \in 1..Len(drops) : drops[i] = DropCot(k)
    BY <1>2, <1>4, <1>5
<1> QED
    BY <1>4, <1>6, <1>7

-----------------------------------------------------------------------------
(* The steps.                                                              *)

(* What a step leaves to show: the queue and what it is compared with.     *)
QueueInv ==
    /\ Held(written, latest, state)
    /\ Live => Good(queue, written, latest, state)

(* A message about k is merged and published, where the broker may have    *)
(* got a newer position meanwhile.                                         *)
LEMMA MergeStep ==
    ASSUME TypeOK, QueueInv, NEW k \in Entities, NEW v \in Nat, MergeAndPublish(k, v),
           latest' \in [Entities -> Nat], \A j \in Entities : latest[j] <= latest'[j],
           v # 0 => v = latest'[k] \/ v = state[k],
           HasPosition(state, k) => v # 0
    PROVE  /\ SinkTypeOK' /\ state' \in [Entities -> Nat \cup {Absent}]
           /\ QueueInv'
           /\ UNCHANGED <<sess, was_connected>>
<1>1. /\ queue \in Seq(CotEvent) /\ written \in [Entities -> Nat]
      /\ latest \in [Entities -> Nat] /\ state \in [Entities -> Nat \cup {Absent}]
    BY DEF TypeOK, SinkTypeOK, BridgeTypeOK
<1>2. /\ UNCHANGED <<sess, hand, was_connected, conn, written, shown>>
      /\ state' = [state EXCEPT ![k] = v]
      /\ queue' = IF v = 0 THEN queue ELSE Enqueued(queue, <<PositionCot(k, v)>>)
    BY DEF MergeAndPublish
<1>3. /\ state' \in [Entities -> Nat \cup {Absent}] /\ state'[k] = v
      /\ \A j \in Entities : j # k => state'[j] = state[j]
      /\ Absent \notin Nat
    BY <1>1, <1>2, BridgeAssumption
<1>4. \A j \in Entities : HasPosition(state, j) => HasPosition(state', j)
    BY <1>3 DEF HasPosition
<1>5. HasPosition(state', k) <=> v # 0
    BY <1>3 DEF HasPosition
<1>6. v # 0 => \/ v = latest'[k]
               \/ HasPosition(state, k) /\ v = state[k]
    BY <1>3 DEF HasPosition
<1>12. v # 0 => written[k] <= v /\ v <= latest'[k]
    <2>1. /\ written[k] <= latest[k] /\ latest[k] <= latest'[k]
          /\ HasPosition(state, k) => written[k] <= state[k] /\ state[k] <= latest[k]
        BY DEF QueueInv, Held
    <2>2. written[k] \in Nat /\ latest[k] \in Nat /\ latest'[k] \in Nat
        BY <1>1
    <2> QED
        BY <1>6, <2>1, <2>2
<1>7. Held(written, latest', state')
    <2> SUFFICES ASSUME NEW j \in Entities
                 PROVE  /\ written[j] <= latest'[j]
                        /\ HasPosition(state', j) =>
                               written[j] <= state'[j] /\ state'[j] <= latest'[j]
        BY DEF Held
    <2>1. written[j] <= latest[j] /\ latest[j] <= latest'[j]
        BY DEF QueueInv, Held
    <2>2. written[j] \in Nat /\ latest[j] \in Nat /\ latest'[j] \in Nat
        BY <1>1
    <2>3. CASE j = k
        BY <1>3, <1>5, <1>12, <2>1, <2>2, <2>3
    <2>4. CASE j # k
        <3>1. HasPosition(state', j) =>
                  /\ HasPosition(state, j) /\ state[j] \in Nat /\ state'[j] = state[j]
            BY <1>1, <1>3, <2>4 DEF HasPosition
        <3>2. HasPosition(state, j) => written[j] <= state[j] /\ state[j] <= latest[j]
            BY DEF QueueInv, Held
        <3> QED
            BY <2>1, <2>2, <3>1, <3>2
    <2> QED
        BY <2>3, <2>4
<1>8. ASSUME Live
      PROVE  Good(queue, written, latest', state')
    <2>1. Ordered(queue) /\ Within(queue, written, latest, state) /\ Backed(queue, state)
        BY <1>8 DEF QueueInv, Good
    <2>2. \A i \in 1..Len(queue) : queue[i].key \in Entities /\ queue[i].ver \in Nat
        <3>1. \A i \in 1..Len(queue) : queue[i] \in CotEvent
            BY <1>1, LenProperties
        <3> QED
            BY <3>1 DEF CotEvent
    <2>3. Backed(queue, state')
        BY <1>4, <2>1, <2>2 DEF Backed
    <2>4. Within(queue, written, latest', state')
        <3> SUFFICES ASSUME NEW i \in 1..Len(queue), queue[i].ver # 0
                     PROVE  LET e == queue[i]
                            IN  /\ written[e.key] <= e.ver
                                /\ e.ver <= latest'[e.key]
                                /\ HasPosition(state', e.key) => e.ver <= state'[e.key]
            BY DEF Within
        <3> DEFINE e == queue[i]
        <3>1. e.key \in Entities /\ e.ver \in Nat
            BY <2>2
        <3>2. /\ written[e.key] <= e.ver /\ e.ver <= latest[e.key]
              /\ HasPosition(state, e.key) => e.ver <= state[e.key]
            BY <2>1 DEF Within
        <3> HIDE DEF e
        <3>3. /\ latest[e.key] <= latest'[e.key]
              /\ latest[e.key] \in Nat /\ latest'[e.key] \in Nat
            BY <1>1, <3>1
        <3>4. e.ver <= latest'[e.key]
            BY <3>1, <3>2, <3>3
        <3>5. HasPosition(state', e.key) => e.ver <= state'[e.key]
            <4>1. CASE e.key = k
                BY <1>3, <1>5, <1>6, <3>2, <3>4, <4>1
            <4>2. CASE e.key # k
                BY <1>3, <3>1, <3>2, <4>2 DEF HasPosition
            <4> QED
                BY <4>1, <4>2
        <3> QED
            BY <3>2, <3>4, <3>5 DEF e
    <2> QED
        BY <2>1, <2>3, <2>4 DEF Good
<1>9. ASSUME v # 0
      PROVE  /\ <<PositionCot(k, v)>> \in Seq(CotEvent)
             /\ Current(<<PositionCot(k, v)>>, state')
    BY <1>3, <1>5, <1>9 DEF PositionCot, CotEvent, Current
<1>10. Live => Good(queue', written, latest', state')
    BY <1>1, <1>2, <1>3, <1>7, <1>8, <1>9, GoodEnqueued
<1>11. queue' \in Seq(CotEvent) /\ Len(queue') <= Cap
    BY <1>1, <1>2, <1>9, EnqueuedProperties DEF Suffix, TypeOK, SinkTypeOK
<1> QED
    BY <1>2, <1>3, <1>7, <1>10, <1>11
    DEF QueueInv, Live, TypeOK, SinkTypeOK

(* _handle_mqtt_message, for a location.                                   *)
LEMMA LocationStep ==
    ASSUME IInv, NEW k \in Entities, HandleLocation(k)
    PROVE  IInv'
<1>1. TypeOK /\ QueueInv
    BY DEF IInv, QueueInv
<1>2. latest \in [Entities -> Nat] /\ due \subseteq Topics
    BY <1>1 DEF TypeOK, BridgeTypeOK
<1>3. /\ latest' \in [Entities -> Nat] /\ latest'[k] \in Nat
      /\ \A j \in Entities : latest[j] <= latest'[j]
    BY <1>2 DEF HandleLocation
<1>4. latest'[k] # 0
    BY <1>2 DEF HandleLocation, IInv, DueIsThere
<1>5. MergeAndPublish(k, latest'[k])
    BY DEF HandleLocation
<1>6. /\ SinkTypeOK' /\ state' \in [Entities -> Nat \cup {Absent}]
      /\ QueueInv' /\ UNCHANGED <<sess, was_connected>>
    BY <1>1, <1>3, <1>4, <1>5, MergeStep
<1>7. BridgeTypeOK'
    BY <1>1, <1>3, <1>6 DEF HandleLocation, TypeOK, BridgeTypeOK
<1>8. DueIsThere'
    BY <1>2, <1>3 DEF HandleLocation, IInv, DueIsThere
<1> QED
    BY <1>6, <1>7, <1>8 DEF IInv, TypeOK, QueueInv, Live

(* _handle_mqtt_message, for a state.                                      *)
LEMMA StateStep ==
    ASSUME IInv, NEW n \in MeshNodes, NEW flag \in {"yes", "no"}, HandleState(n, flag)
    PROVE  IInv'
<1>1. TypeOK /\ QueueInv /\ n \in Entities
    BY BridgeAssumption DEF IInv, QueueInv
<1> DEFINE v == IF state[n] = Absent THEN 0 ELSE state[n]
<1>2. /\ latest \in [Entities -> Nat] /\ v \in Nat /\ latest' = latest
      /\ \A j \in Entities : latest[j] <= latest'[j]
    BY <1>1 DEF HandleState, TypeOK, BridgeTypeOK
<1>3. (v # 0 => v = state[n]) /\ (HasPosition(state, n) => v # 0)
    BY DEF HasPosition
<1>4. MergeAndPublish(n, v)
    BY DEF HandleState
<1> HIDE DEF v
<1>5. /\ SinkTypeOK' /\ state' \in [Entities -> Nat \cup {Absent}]
      /\ QueueInv' /\ UNCHANGED <<sess, was_connected>>
    BY <1>1, <1>2, <1>3, <1>4, MergeStep
<1>6. offline_since' \in [MeshNodes -> Nat \cup {Never}]
    <2>1. OfflineTracking(n, flag) \in Nat \cup {Never}
        BY <1>1 DEF OfflineTracking, TypeOK, BridgeTypeOK
    <2> QED
        BY <1>1, <2>1 DEF HandleState, TypeOK, BridgeTypeOK
<1>7. BridgeTypeOK'
    BY <1>1, <1>2, <1>5, <1>6 DEF HandleState, TypeOK, BridgeTypeOK
<1>8. DueIsThere'
    BY DEF HandleState, IInv, DueIsThere
<1> QED
    BY <1>5, <1>7, <1>8 DEF IInv, TypeOK, QueueInv, Live

(* Newer positions at the broker change nothing for the queue.             *)
LEMMA UnheardStep ==
    ASSUME IInv, PublishUnheard
    PROVE  IInv'
<1>1. /\ queue \in Seq(CotEvent) /\ written \in [Entities -> Nat]
      /\ latest \in [Entities -> Nat] /\ state \in [Entities -> Nat \cup {Absent}]
    BY DEF IInv, TypeOK, SinkTypeOK, BridgeTypeOK
<1>2. /\ latest' \in [Entities -> Nat] /\ \A j \in Entities : latest[j] <= latest'[j]
      /\ UNCHANGED <<sinkVars, mqtt, due, state, offline_since, now, faults>>
    <2>1. UNCHANGED <<sinkVars, mqtt, due, state, offline_since, now, faults>>
        BY DEF PublishUnheard
    <2>2. \/ latest' = latest
          \/ \E k \in Entities : latest' = [latest EXCEPT ![k] = latest[k] + 1]
        BY DEF PublishUnheard
    <2>3. \A j \in Entities : latest[j] <= latest[j] /\ latest[j] <= latest[j] + 1
        BY <1>1
    <2>4. latest' \in [Entities -> Nat] /\ \A j \in Entities : latest[j] <= latest'[j]
        <3>1. CASE latest' = latest
            BY <1>1, <2>3, <3>1
        <3>2. ASSUME NEW k \in Entities, latest' = [latest EXCEPT ![k] = latest[k] + 1]
              PROVE  /\ latest' \in [Entities -> Nat]
                     /\ \A j \in Entities : latest[j] <= latest'[j]
            BY <1>1, <2>3, <3>2
        <3> QED
            BY <2>2, <3>1, <3>2
    <2> QED
        BY <2>1, <2>4
<1>3. TypeOK'
    BY <1>2 DEF PublishUnheard, IInv, TypeOK, SinkTypeOK, BridgeTypeOK, sinkVars
<1>4. DueIsThere'
    BY <1>1, <1>2 DEF IInv, DueIsThere, LocationTopic
<1>5. Held(written, latest', state)
    <2>1. \A k \in Entities :
              HasPosition(state, k) => state[k] \in Nat
        BY <1>1 DEF HasPosition
    <2> QED
        BY <1>1, <1>2, <2>1 DEF IInv, Held
<1>6. ASSUME Live
      PROVE  Good(queue, written, latest', state)
    <2>1. \A i \in 1..Len(queue) : queue[i].key \in Entities /\ queue[i].ver \in Nat
        <3>1. \A i \in 1..Len(queue) : queue[i] \in CotEvent
            BY <1>1, LenProperties
        <3> QED
            BY <3>1 DEF CotEvent
    <2>2. \A k \in Entities, v \in Nat : v <= latest[k] => v <= latest'[k]
        BY <1>1, <1>2
    <2>3. Within(queue, written, latest', state)
        BY <1>6, <2>1, <2>2 DEF IInv, Good, Within
    <2> QED
        BY <1>6, <2>3 DEF IInv, Good
<1> QED
    BY <1>2, <1>3, <1>4, <1>5, <1>6 DEF IInv, Live, sinkVars

(* Steps that concern neither the queue nor the records.                   *)
LEMMA QuietStep ==
    ASSUME IInv, MqttConnects \/ MqttFails \/ SinkDrains \/ LinkDies \/ Tick
    PROVE  IInv'
<1>1. /\ UNCHANGED <<queue, written, latest, state, was_connected>>
      /\ sess' = sess \/ (sess = "drain" /\ sess' = "get")
    BY DEF MqttConnects, MqttFails, SinkDrains, DrainReturns, LinkDies, Tick,
       sinkVars, brokerVars
<1>2. TypeOK'
    <2>1. CASE MqttConnects \/ MqttFails
        BY <2>1 DEF MqttConnects, MqttFails, Fault, IInv, TypeOK, SinkTypeOK,
           BridgeTypeOK, sinkVars, Topics, LocationTopic, StateTopic
    <2>2. CASE SinkDrains
        BY <2>2 DEF SinkDrains, DrainReturns, IInv, TypeOK, SinkTypeOK,
           BridgeTypeOK, brokerVars
    <2>3. CASE LinkDies \/ Tick
        BY <2>3 DEF LinkDies, Tick, Fault, IInv, TypeOK, SinkTypeOK,
           BridgeTypeOK, brokerVars, sinkVars
    <2> QED
        BY <2>1, <2>2, <2>3
<1>3. DueIsThere'
    <2>1. CASE MqttConnects
        BY <2>1 DEF MqttConnects, DueIsThere, LocationTopic, StateTopic
    <2>2. CASE MqttFails
        BY <2>2 DEF MqttFails, DueIsThere
    <2>3. CASE due' = due
        BY <1>1, <2>3 DEF IInv, DueIsThere
    <2> QED
        BY <2>1, <2>2, <2>3 DEF SinkDrains, LinkDies, Tick, brokerVars
<1>4. (sess' # "backoff" => was_connected') /\ (Live' => Live)
    BY <1>1 DEF IInv, Live
<1> QED
    BY <1>1, <1>2, <1>3, <1>4 DEF IInv

(* _heartbeat_loop: the drops of the evicted records go behind their       *)
(* positions, and what is left of the records behind the drops.            *)
LEMMA HeartbeatStep ==
    ASSUME IInv, Heartbeat
    PROVE  IInv'
<1> DEFINE kept == [k \in Entities |-> IF k \in LongOffline THEN Absent ELSE state[k]]
           gone == {n \in LongOffline : HasPosition(state, n)}
<1>0. /\ queue \in Seq(CotEvent) /\ written \in [Entities -> Nat]
      /\ latest \in [Entities -> Nat] /\ state \in [Entities -> Nat \cup {Absent}]
      /\ Held(written, latest, state)
    BY DEF IInv, TypeOK, SinkTypeOK, BridgeTypeOK
<1>1. /\ state' = kept
      /\ UNCHANGED <<sess, hand, was_connected, conn, written, shown>>
      /\ UNCHANGED <<latest, online, mqtt, due, now, faults>>
    BY DEF Heartbeat, brokerVars
<1>2. PICK drops \in Drops(gone), fresh \in Refresh(kept) :
          queue' = Enqueued(Enqueued(queue, drops), fresh)
    BY DEF Heartbeat
<1>3. kept \in [Entities -> Nat \cup {Absent}] /\ gone \in SUBSET Entities
    BY <1>0, BridgeAssumption DEF LongOffline
<1>4. \A k \in Entities :
          /\ HasPosition(kept, k) => HasPosition(state, k) /\ kept[k] = state[k]
          /\ HasPosition(state, k) => HasPosition(kept, k) \/ k \in gone
    BY DEF HasPosition
<1> HIDE DEF kept, gone
<1>5. /\ drops \in Seq(CotEvent)
      /\ \A i \in 1..Len(drops) : drops[i].ver = 0
      /\ \A k \in gone : \E i \in 1..Len(drops) : drops[i] = DropCot(k)
    BY <1>3, DropsProperties
<1>6. fresh \in Seq(CotEvent) /\ Current(fresh, kept)
    BY <1>3, RefreshProperties
<1>7. /\ Enqueued(queue, drops) \in Seq(CotEvent)
      /\ queue' \in Seq(CotEvent) /\ Len(queue') <= Cap
    BY <1>0, <1>2, <1>5, <1>6, EnqueuedProperties DEF Suffix
<1>8. Held(written, latest, kept)
    BY <1>0, <1>4 DEF Held
<1>9. ASSUME Live
      PROVE  Good(queue', written, latest, kept)
    <2>1. Ordered(queue) /\ Within(queue, written, latest, state) /\ Backed(queue, state)
        BY <1>9 DEF IInv, Good
    <2>2. \A i \in 1..Len(queue) : queue[i].key \in Entities
        <3>1. \A i \in 1..Len(queue) : queue[i] \in CotEvent
            BY <1>0, LenProperties
        <3> QED
            BY <3>1 DEF CotEvent
    <2>3. Within(queue, written, latest, kept)
        BY <1>4, <2>1, <2>2 DEF Within
    <2>4. \A i \in 1..Len(queue) : queue[i].ver # 0 =>
              \/ HasPosition(kept, queue[i].key)
              \/ \E j \in i + 1 .. Len(queue) : queue[j] = DropCot(queue[i].key)
              \/ \E j \in 1..Len(drops) : drops[j] = DropCot(queue[i].key)
        BY <1>4, <1>5, <2>1, <2>2 DEF Backed
    <2>5. Current(drops, kept)
        BY <1>5 DEF Current
    <2>6. Good(queue \o drops, written, latest, kept)
        BY <1>0, <1>3, <1>5, <1>8, <2>1, <2>3, <2>4, <2>5, GoodConcat
    <2>7. Good(Enqueued(queue, drops), written, latest, kept)
        <3>1. queue \o drops \in Seq(CotEvent)
              /\ Suffix(Enqueued(queue, drops), queue \o drops)
            BY <1>0, <1>5, ConcatProperties, EnqueuedProperties
        <3> QED
            BY <2>6, <3>1, GoodSuffix
    <2> QED
        BY <1>0, <1>2, <1>3, <1>6, <1>7, <1>8, <2>7, GoodEnqueued
<1>10. offline_since' \in [MeshNodes -> Nat \cup {Never}]
    BY DEF Heartbeat, IInv, TypeOK, BridgeTypeOK
<1>11. TypeOK'
    BY <1>1, <1>3, <1>7, <1>10 DEF IInv, TypeOK, SinkTypeOK, BridgeTypeOK
<1>12. DueIsThere'
    BY <1>1 DEF IInv, DueIsThere
<1>13. (sess' # "backoff" => was_connected') /\ (Live' => Live)
    BY <1>1 DEF IInv, Live
<1>14. Held(written', latest', state')
    BY <1>1, <1>8
<1>15. Live' => Good(queue', written', latest', state')
    BY <1>1, <1>9, <1>13
<1> QED
    BY <1>11, <1>12, <1>13, <1>14, <1>15 DEF IInv

(* A queue with nothing in it is good.                                     *)
LEMMA GoodEmpty ==
    ASSUME NEW wr, NEW la, NEW st
    PROVE  Good(<<>>, wr, la, st)
BY EmptySeq DEF Good, Ordered, Within, Backed

(* _run connects: the backlog of an earlier session goes.                  *)
LEMMA ConnectStep ==
    ASSUME IInv, SinkConnects
    PROVE  IInv'
<1>0. /\ queue \in Seq(CotEvent) /\ written \in [Entities -> Nat]
      /\ latest \in [Entities -> Nat] /\ state \in [Entities -> Nat \cup {Absent}]
      /\ Held(written, latest, state) /\ <<>> \in Seq(CotEvent)
    BY DEF IInv, TypeOK, SinkTypeOK, BridgeTypeOK
<1>1. PICK fresh \in Refresh(state) : Connect(fresh)
    BY DEF SinkConnects
<1>2. /\ UNCHANGED <<hand, written, shown, latest, online, mqtt, due>>
      /\ UNCHANGED <<state, offline_since, now, faults>>
    BY <1>1 DEF SinkConnects, Connect, brokerVars
<1>3. fresh \in Seq(CotEvent) /\ Current(fresh, state)
    BY <1>0, RefreshProperties
<1>4. queue' \in Seq(CotEvent) /\ Len(queue') <= Cap
    <2>1. Enqueued(<<>>, fresh) \in Seq(CotEvent) /\ Len(Enqueued(<<>>, fresh)) <= Cap
        BY <1>0, <1>3, EnqueuedProperties DEF Suffix
    <2> QED
        BY <1>0, <1>1, <2>1 DEF Connect, IInv, TypeOK, SinkTypeOK
<1>5. Good(queue', written, latest, state)
    <2>1. CASE was_connected
        BY <1>0, <1>1, <1>3, <2>1, GoodEmpty, GoodEnqueued DEF Connect
    <2>2. CASE ~was_connected
        BY <1>1, <2>2 DEF Connect, IInv, Live
    <2> QED
        BY <2>1, <2>2
<1>6. TypeOK'
    <2>1. was_connected' \in BOOLEAN
        BY <1>1 DEF Connect
    <2> QED
        BY <1>1, <1>2, <1>4, <2>1 DEF Connect, IInv, TypeOK, SinkTypeOK, BridgeTypeOK
<1>7. DueIsThere'
    BY <1>2 DEF IInv, DueIsThere
<1>8. was_connected'
    BY <1>1 DEF Connect
<1>9. /\ Held(written', latest', state')
      /\ Good(queue', written', latest', state')
    BY <1>0, <1>2, <1>5
<1> QED
    BY <1>6, <1>7, <1>8, <1>9 DEF IInv

(* get() and write() take the oldest event.                                *)
LEMMA WriteStep ==
    ASSUME IInv, SinkWrites
    PROVE  /\ IInv'
           /\ \A k \in Entities : written'[k] >= written[k]
<1>0. /\ queue \in Seq(CotEvent) /\ Len(queue) <= Cap /\ queue # <<>>
      /\ written \in [Entities -> Nat] /\ shown \in [Entities -> Nat]
      /\ latest \in [Entities -> Nat] /\ state \in [Entities -> Nat \cup {Absent}]
      /\ Held(written, latest, state) /\ Good(queue, written, latest, state)
    BY DEF SinkWrites, Write, IInv, TypeOK, SinkTypeOK, BridgeTypeOK, Live
<1> DEFINE e == Head(queue)
<1>1. /\ e \in CotEvent /\ e.key \in Entities /\ e.ver \in Nat
      /\ Len(queue) \in Nat /\ 1 \in 1..Len(queue) /\ e = queue[1]
    <2>1. Head(queue) \in CotEvent /\ Len(queue) \in Nat \ {0}
        BY <1>0, HeadTailProperties, EmptySeq
    <2>2. Head(queue) = queue[1]
        BY <1>0
    <2>3. e.key \in Entities /\ e.ver \in Nat
        BY <2>1 DEF CotEvent
    <2> QED
        BY <2>1, <2>2, <2>3
<1>2. /\ sess = "get" /\ sess' = "drain" /\ hand' = e /\ queue' = Tail(queue)
      /\ written' = [written EXCEPT ![e.key] = IF e.ver = 0 THEN @ ELSE e.ver]
      /\ shown' = IF conn = "alive" THEN [shown EXCEPT ![e.key] = e.ver] ELSE shown
      /\ UNCHANGED <<was_connected, conn, latest, online, mqtt, due>>
      /\ UNCHANGED <<state, offline_since, now, faults>>
    BY DEF SinkWrites, Write, brokerVars
<1> HIDE DEF e
<1>3. /\ queue' \in Seq(CotEvent) /\ Len(queue') = Len(queue) - 1
      /\ \A i \in 1..Len(queue') : queue'[i] = queue[i + 1] /\ i + 1 \in 1..Len(queue)
    BY <1>0, <1>1, <1>2, HeadTailProperties
<1>4. e.ver # 0 => /\ written[e.key] <= e.ver /\ e.ver <= latest[e.key]
                   /\ HasPosition(state, e.key) => e.ver <= state[e.key]
    BY <1>0, <1>1 DEF Good, Within
<1>5. /\ written' \in [Entities -> Nat]
      /\ \A k \in Entities : k # e.key => written'[k] = written[k]
      /\ written'[e.key] = IF e.ver = 0 THEN written[e.key] ELSE e.ver
    BY <1>0, <1>1, <1>2
<1>6. \A k \in Entities : written'[k] >= written[k]
    <2> SUFFICES ASSUME NEW k \in Entities
                 PROVE  written'[k] >= written[k]
        OBVIOUS
    <2>1. written[k] \in Nat /\ written[e.key] \in Nat
        BY <1>0, <1>1
    <2>2. CASE k = e.key
        BY <1>1, <1>4, <1>5, <2>1, <2>2
    <2>3. CASE k # e.key
        BY <1>5, <2>1, <2>3
    <2> QED
        BY <2>2, <2>3
<1>7. Held(written', latest, state)
    <2> SUFFICES ASSUME NEW k \in Entities
                 PROVE  /\ written'[k] <= latest[k]
                        /\ HasPosition(state, k) =>
                               written'[k] <= state[k] /\ state[k] <= latest[k]
        BY DEF Held
    <2>1. /\ written[k] <= latest[k]
          /\ HasPosition(state, k) => written[k] <= state[k] /\ state[k] <= latest[k]
        BY <1>0 DEF Held
    <2> QED
        BY <1>4, <1>5, <2>1
<1>8. Good(queue', written, latest, state)
    <2>1. Suffix(queue', queue)
        BY <1>1, <1>3, LenProperties DEF Suffix
    <2> QED
        BY <1>0, <2>1, GoodSuffix
<1>9. Good(queue', written', latest, state)
    <2>1. \A i \in 1..Len(queue') : queue'[i].ver # 0 =>
              written'[queue'[i].key] <= queue'[i].ver
        <3> SUFFICES ASSUME NEW i \in 1..Len(queue'), queue'[i].ver # 0
                     PROVE  written'[queue'[i].key] <= queue'[i].ver
            OBVIOUS
        <3>1. queue'[i] = queue[i + 1] /\ i + 1 \in 1..Len(queue) /\ 1 < i + 1
            BY <1>3
        <3>2. queue'[i].key \in Entities
            <4>1. queue'[i] \in CotEvent
                BY <1>3, LenProperties
            <4> QED
                BY <4>1 DEF CotEvent
        <3>3. written[queue'[i].key] <= queue'[i].ver
            BY <1>8 DEF Good, Within
        <3>4. e.key = queue'[i].key /\ e.ver # 0 => e.ver <= queue'[i].ver
            BY <1>0, <1>1, <3>1 DEF Good, Ordered
        <3> QED
            BY <1>5, <3>2, <3>3, <3>4
    <2>2. Within(queue', written', latest, state)
        BY <1>8, <2>1 DEF Good, Within
    <2> QED
        BY <1>8, <2>2 DEF Good
<1>10. TypeOK'
    <2>1. shown' \in [Entities -> Nat]
        BY <1>0, <1>1, <1>2
    <2>2. hand' \in CotEvent /\ hand' # NoEvent
        BY <1>1, <1>2, SinkAssumption
    <2>3. SinkTypeOK'
        <3>1. Len(queue') <= Cap
            BY <1>0, <1>1, <1>3, SinkAssumption
        <3> QED
            BY <1>2, <1>3, <1>5, <2>1, <2>2, <3>1 DEF IInv, TypeOK, SinkTypeOK
    <2>4. BridgeTypeOK'
        BY <1>2 DEF IInv, TypeOK, BridgeTypeOK
    <2> QED
        BY <2>3, <2>4 DEF TypeOK
<1>11. DueIsThere'
    BY <1>2 DEF IInv, DueIsThere
<1>12. was_connected'
    BY <1>2 DEF IInv
<1>13. /\ Held(written', latest', state')
       /\ Good(queue', written', latest', state')
    BY <1>2, <1>7, <1>9
<1> QED
    BY <1>6, <1>10, <1>11, <1>12, <1>13 DEF IInv

(* A session that ends may leave the queue in disorder, but it will be     *)
(* dropped; a process that starts has none.                                *)
LEMMA EndStep ==
    ASSUME IInv, SessionEnds \/ Restart
    PROVE  IInv'
<1>1. CASE SessionEnds
    <2>1. /\ sess = "drain" /\ sess' = "backoff" /\ hand' = NoEvent
          /\ UNCHANGED <<was_connected, conn, written, shown, latest, online>>
          /\ UNCHANGED <<mqtt, due, state, offline_since, now, faults>>
        BY <1>1 DEF SessionEnds, DrainFails, DrainRaises, brokerVars
    <2>2. /\ queue \in Seq(CotEvent) /\ Len(queue) <= Cap /\ hand \in CotEvent
          /\ was_connected
        BY <2>1 DEF IInv, TypeOK, SinkTypeOK
    <2>3. queue' \in Seq(CotEvent) /\ Len(queue') <= Cap
        <3>1. /\ Append(queue, hand) \in Seq(CotEvent)
              /\ Len(Append(queue, hand)) = Len(queue) + 1 /\ Len(queue) \in Nat
            BY <2>2, AppendProperties, LenProperties
        <3>2. \/ queue' = queue
              \/ Len(queue) < Cap /\ queue' = Append(queue, hand)
            BY <1>1 DEF SessionEnds, DrainFails, DrainRaises
        <3> QED
            BY <2>2, <3>1, <3>2, SinkAssumption
    <2>4. SinkTypeOK' /\ BridgeTypeOK'
        BY <2>1, <2>3 DEF IInv, TypeOK, SinkTypeOK, BridgeTypeOK
    <2>5. DueIsThere' /\ Held(written', latest', state') /\ ~Live'
        BY <2>1, <2>2 DEF IInv, DueIsThere, Live
    <2> QED
        BY <2>1, <2>4, <2>5 DEF IInv, TypeOK
<1>2. CASE Restart
    <2>1. <<>> \in Seq(CotEvent) /\ Len(<<>>) = 0
        BY EmptySeq
    <2>2. was_connected' \in BOOLEAN
        BY <1>2 DEF Restart
    <2>3. SinkTypeOK'
        BY <1>2, <2>1, <2>2, SinkAssumption DEF Restart, IInv, TypeOK, SinkTypeOK
    <2>4. BridgeTypeOK'
        BY <1>2 DEF Restart, Fault, IInv, TypeOK, BridgeTypeOK
    <2>5. DueIsThere' /\ sess' = "backoff" /\ queue' = <<>>
        BY <1>2 DEF Restart, DueIsThere
    <2>6. Held(written', latest', state')
        BY <1>2 DEF Restart, IInv, Held, HasPosition
    <2>7. Good(queue', written', latest', state')
        BY <2>5, GoodEmpty
    <2> QED
        BY <2>3, <2>4, <2>5, <2>6, <2>7 DEF IInv, TypeOK
<1> QED
    BY <1>1, <1>2

-----------------------------------------------------------------------------
(* The inductive invariant.                                                *)

(* Nothing is known and nothing is queued.                                 *)
LEMMA InitInv == Init => IInv
<1> SUFFICES ASSUME Init
             PROVE  IInv
    OBVIOUS
<1>1. queue = <<>> /\ <<>> \in Seq(CotEvent) /\ Len(<<>>) = 0
    BY EmptySeq DEF Init, SinkInit
<1>2. SinkTypeOK
    <2>1. was_connected \in BOOLEAN
        BY DEF Init, SinkInit
    <2>2. Len(queue) <= Cap /\ queue \in Seq(CotEvent)
        BY <1>1, SinkAssumption
    <2>3. written \in [Entities -> Nat] /\ shown \in [Entities -> Nat]
        BY DEF Init, SinkInit
    <2> QED
        BY <2>1, <2>2, <2>3 DEF Init, SinkInit, SinkTypeOK
<1>3. BridgeTypeOK
    BY DEF Init, BridgeTypeOK
<1>4. DueIsThere /\ sess = "backoff"
    BY DEF Init, SinkInit, DueIsThere
<1>5. Held(written, latest, state)
    <2>1. \A k \in Entities : ~HasPosition(state, k)
        BY DEF Init, HasPosition
    <2>2. written = [k \in Entities |-> 0] /\ latest = [k \in Entities |-> 0]
        BY DEF Init, SinkInit
    <2>3. \A k \in Entities : written[k] <= latest[k]
        <3>1. 0 <= 0
            OBVIOUS
        <3>2. \A k \in Entities : written[k] = 0 /\ latest[k] = 0
            BY <2>2
        <3> QED
            BY <3>1, <3>2, Zenon
    <2> QED
        BY <2>1, <2>3 DEF Held
<1> QED
    BY <1>1, <1>2, <1>3, <1>4, <1>5, GoodEmpty DEF IInv, TypeOK

(* Every step keeps it.                                                    *)
LEMMA NextInv == IInv /\ [Next]_vars => IInv'
<1> SUFFICES ASSUME IInv, [Next]_vars
             PROVE  IInv'
    OBVIOUS
<1>1. CASE Next
    BY <1>1, LocationStep, StateStep, UnheardStep, QuietStep, HeartbeatStep,
       ConnectStep, WriteStep, EndStep DEF Next
<1>2. CASE UNCHANGED vars
    BY <1>2 DEF IInv, vars, sinkVars, brokerVars, TypeOK, SinkTypeOK,
       BridgeTypeOK, DueIsThere, Live
<1> QED
    BY <1>1, <1>2

-----------------------------------------------------------------------------
(* The theorems.                                                           *)

(* IInv holds in every state of every behaviour of the bridge.             *)
THEOREM Invariance == Spec => []IInv
BY InitInv, NextInv, PTL DEF Spec

(* Every variable keeps its type and the queue its bound _QUEUE_CAP        *)
(* (takserver.py:60-73), for any capacity and any number of records a      *)
(* heartbeat sends at once.                                                *)
THEOREM TypeCorrect == Spec => []TypeOK
<1>1. IInv => TypeOK
    BY DEF IInv
<1> QED
    BY <1>1, Invariance, PTL

(* While a session lasts, no write brings the marker of an evicted node    *)
(* back: a queued position is of an entity the bridge still knows, or the  *)
(* drop is behind it (bridge.py:205-208, takserver.py:111-118).            *)
THEOREM EvictionHolds == Spec => []EvictedStaysEvicted
<1>1. ASSUME IInv
      PROVE  EvictedStaysEvicted
    <2> SUFFICES ASSUME sess # "backoff", NEW i \in DOMAIN queue, queue[i].ver # 0,
                        state[queue[i].key] = Absent
                 PROVE  \E j \in i + 1 .. Len(queue) : queue[j] = DropCot(queue[i].key)
        BY DEF EvictedStaysEvicted
    <2>1. i \in 1..Len(queue) /\ Backed(queue, state)
        BY <1>1, LenProperties DEF IInv, TypeOK, SinkTypeOK, Live, Good
    <2> QED
        BY <2>1 DEF Backed, HasPosition
<1> QED
    BY <1>1, Invariance, PTL

(* Over all sessions and restarts the positions written for an entity      *)
(* never go back, although failed events are put back behind newer ones    *)
(* (takserver.py:111-126, 139-146).                                        *)
THEOREM NeverBack == Spec => WritesNeverGoBack
<1>1. IInv /\ [Next]_vars => [\A k \in Entities : written'[k] >= written[k]]_vars
    <2> SUFFICES ASSUME IInv, Next
                 PROVE  \A k \in Entities : written'[k] >= written[k]
        OBVIOUS
    <2>1. CASE SinkWrites
        BY <2>1, WriteStep
    <2>2. CASE ~SinkWrites
        <3>1. written' = written
            BY <2>2 DEF Next, HandleLocation, HandleState, MergeAndPublish,
               PublishUnheard, MqttConnects, MqttFails, Heartbeat, SinkConnects,
               Connect, SinkDrains, DrainReturns, SessionEnds, DrainFails,
               DrainRaises, LinkDies, Restart, Tick, sinkVars
        <3>2. \A k \in Entities : written[k] \in Nat
            BY DEF IInv, TypeOK, SinkTypeOK
        <3> QED
            BY <3>1, <3>2
    <2> QED
        BY <2>1, <2>2
<1> QED
    BY <1>1, Invariance, PTL DEF Spec, WritesNeverGoBack

=============================================================================
