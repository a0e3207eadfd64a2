------------------------- MODULE UsageMeteringProofs -------------------------
(***************************************************************************)
(* Proofs about UsageMetering, for any replicas, tenants, deltas, queue and *)
(* batch sizes: no delta is mislaid, and the committed counters are exact.  *)
(***************************************************************************)
EXTENDS UsageMetering, FiniteSetTheorems, SequenceTheorems, WellFoundedInduction, TLAPS

Items == Events \cup {Stop}

-----------------------------------------------------------------------------
(* The loops over the queue. *)

(* What the loop takes: the CHOOSE of Taken has a witness, the least count at
   which the loop could end. *)
LEMMA TakenFacts ==
  ASSUME NEW q \in Seq(Items), NEW room \in Nat
  PROVE  /\ Taken(q, room) \in 0..Len(q) /\ Taken(q, room) <= room
         /\ \A i \in 1..Taken(q, room) : q[i] # Stop
         /\ Taken(q, room) = room \/ Taken(q, room) = Len(q) \/ q[Taken(q, room) + 1] = Stop
<1> DEFINE Ends == {m \in Nat : m <= Len(q) /\ (m = room \/ m = Len(q) \/ q[m + 1] = Stop)}
<1>1. Len(q) \in Ends
  BY LenProperties
<1>2. PICK m \in Ends : \A y \in Ends : ~(<<y, m>> \in OpToRel(<, Nat))
  <2> HIDE DEF Ends
  <2>1. Ends \subseteq Nat
    BY DEF Ends
  <2> QED
    BY <1>1, <2>1, WFMin, NatLessThanWellFounded, Zenon
<1>3. \A y \in Nat : y < m => y \notin Ends
  BY <1>2 DEF OpToRel
<1>4. m <= room
  <2>1. room < m => room \in Ends
    BY LenProperties
  <2> QED
    BY <1>3, <2>1
<1>5. \A i \in 1..m : q[i] # Stop
  <2>1. ASSUME NEW i \in 1..m, q[i] = Stop
        PROVE  i - 1 \in Ends
    BY <2>1, LenProperties
  <2> QED
    BY <1>3, <2>1
<1>6. m \in 0..Len(q) /\ (m = room \/ m = Len(q) \/ q[m + 1] = Stop)
  BY LenProperties
<1> QED
  BY <1>4, <1>5, <1>6 DEF Taken

(* Sequences that differ at most by a Stop at the end hold the same deltas. *)
LEMMA SameDeltas ==
  ASSUME NEW m, NEW k \in Nat, DOMAIN m = 1..k,
         NEW p, NEW l \in Nat, DOMAIN p = 1..l,
         l = k \/ (l = k - 1 /\ m[k] = Stop),
         \A i \in 1..l : p[i] = m[i]
  PROVE  /\ Range(p) \ {Stop} = Range(m) \ {Stop}
         /\ IsInjective(m) => IsInjective(p)
<1>1. Range(p) \subseteq Range(m)
  BY DEF Range
<1>2. Range(m) \ {Stop} \subseteq Range(p)
  <2> SUFFICES ASSUME NEW i \in 1..k, m[i] # Stop
               PROVE  m[i] \in Range(p)
    BY DEF Range
  <2>1. i \in 1..l
    OBVIOUS
  <2> QED
    BY <2>1 DEF Range
<1>3. IsInjective(m) => IsInjective(p)
  BY DEF IsInjective
<1> QED
  BY <1>1, <1>2, <1>3

(* Taking n items of the queue into the batch changes neither what the replica
   holds nor its order. *)
LEMMA MovingKeeps ==
  ASSUME NEW b \in Seq(Items), NEW q \in Seq(Items), NEW n \in 0..Len(q)
  PROVE  /\ b \o SubSeq(q, 1, n) \in Seq(Items)
         /\ Len(b \o SubSeq(q, 1, n)) = Len(b) + n
         /\ \A i \in 1..(Len(b) + n) : (b \o SubSeq(q, 1, n))[i] = (b \o q)[i]
         /\ SubSeq(q, n + 1, Len(q)) \in Seq(Items)
         /\ Len(SubSeq(q, n + 1, Len(q))) = Len(q) - n
         /\ \A i \in 1..(Len(q) - n) : SubSeq(q, n + 1, Len(q))[i] = q[n + i]
         /\ (b \o SubSeq(q, 1, n)) \o SubSeq(q, n + 1, Len(q)) = b \o q
<1> DEFINE s == SubSeq(q, 1, n)
           u == SubSeq(q, n + 1, Len(q))
           c == b \o q
           d == b \o s
           all == d \o u
<1>1. /\ Len(q) \in Nat /\ Len(b) \in Nat
      /\ \A i \in 1..Len(q) : q[i] \in Items
  BY LenProperties, ElementOfSeq
<1>2. s \in Seq(Items) /\ Len(s) = n /\ \A i \in 1..n : s[i] = q[i]
  BY <1>1, SubSeqProperties
<1>3. u \in Seq(Items) /\ Len(u) = Len(q) - n /\ \A i \in 1..(Len(q) - n) : u[i] = q[n + i]
  BY <1>1, SubSeqProperties
<1> HIDE DEF s, u
<1>4. /\ c \in Seq(Items) /\ Len(c) = Len(b) + Len(q)
      /\ \A i \in 1..(Len(b) + Len(q)) : c[i] = IF i <= Len(b) THEN b[i] ELSE q[i - Len(b)]
  BY ConcatProperties
<1>5. /\ d \in Seq(Items) /\ Len(d) = Len(b) + n
      /\ \A i \in 1..(Len(b) + n) : d[i] = IF i <= Len(b) THEN b[i] ELSE s[i - Len(b)]
  BY <1>2, ConcatProperties
<1> HIDE DEF c, d
<1>6. ASSUME NEW i \in 1..(Len(b) + n)
      PROVE  d[i] = c[i]
  <2>1. i \in 1..(Len(b) + Len(q)) /\ (~(i <= Len(b)) => i - Len(b) \in 1..n)
    BY <1>1
  <2> QED
    BY <2>1, <1>2, <1>4, <1>5
<1>7. /\ all \in Seq(Items) /\ Len(all) = Len(d) + Len(u)
      /\ \A i \in 1..(Len(d) + Len(u)) : all[i] = IF i <= Len(d) THEN d[i] ELSE u[i - Len(d)]
  BY <1>3, <1>5, ConcatProperties
<1> HIDE DEF all
<1>8. Len(all) = Len(c)
  BY <1>1, <1>3, <1>4, <1>5, <1>7
<1>9. ASSUME NEW i \in 1..Len(all)
      PROVE  all[i] = c[i]
  <2>1. CASE i <= Len(d)
    <3>1. Len(d) \in Nat /\ Len(u) \in Nat
      BY <1>1, <1>3, <1>5
    <3>2. i \in 1..(Len(d) + Len(u)) /\ i \in 1..(Len(b) + n)
      BY <2>1, <3>1, <1>5, <1>7
    <3> QED
      BY <2>1, <3>2, <1>6, <1>7
  <2>2. CASE i > Len(d)
    <3>1. /\ i - Len(d) \in 1..(Len(q) - n) /\ n + (i - Len(d)) = i - Len(b)
          /\ i \in 1..(Len(b) + Len(q)) /\ ~(i <= Len(b)) /\ ~(i <= Len(d))
          /\ i \in 1..(Len(d) + Len(u))
      BY <2>2, <1>1, <1>3, <1>5, <1>7
    <3>2. all[i] = u[i - Len(d)]
      BY <3>1, <1>7
    <3>3. u[i - Len(d)] = q[i - Len(b)]
      BY <3>1, <1>3
    <3>4. c[i] = q[i - Len(b)]
      BY <3>1, <1>4
    <3> QED
      BY <3>2, <3>3, <3>4
  <2> QED
    BY <2>1, <2>2, <1>1, <1>5
<1>10. all = c
  BY <1>4, <1>7, <1>8, <1>9, SeqEqual
<1> QED
  BY <1>2, <1>3, <1>5, <1>6, <1>10 DEF s, u, c, d, all

(* The deltas of a batch are items. *)
LEMMA DeltasAreItems ==
  ASSUME NEW b \in Seq(Events)
  PROVE  b \in Seq(Items)
  BY SeqMonotonic, Zenon DEF Items

(* Deltas have moved from queue q to batch b, none is lost or doubled; if the
   loop has met Stop, it has emptied the queue. *)
Drained(r, b, q, nb, nq, then, stop, tenants) ==
  /\ batch' = [batch EXCEPT ![r] = nb]
  /\ queue' = [queue EXCEPT ![r] = nq]
  /\ final' = [final EXCEPT ![r] = stop]
  /\ loop' = [loop EXCEPT ![r] = then]
  /\ todo' = [todo EXCEPT ![r] = tenants]
  /\ Len(nb) <= MaxBatch /\ Len(nq) <= Len(q)
  /\ stop => nq = <<>> /\ \E i \in 1..Len(q) : q[i] = Stop
  /\ \A i \in 1..Len(nq) : nq[i] = Stop => i = Len(nq) /\ \E j \in 1..Len(q) : q[j] = Stop
  /\ Range(nb \o nq) \ {Stop} = Range(b \o q) \ {Stop}
  /\ IsInjective(b \o q) => IsInjective(nb \o nq)

(* This is what Drain does, wherever the CHOOSE of Taken ends. *)
LEMMA DrainFacts ==
  ASSUME TypeOK, NEW r \in Replicas, NEW b \in Seq(Events), NEW q \in Seq(Items),
         Len(b) <= MaxBatch, NEW next \in {"sleep", "flush"},
         \A i \in 1..Len(q) : q[i] = Stop => i = Len(q),
         Drain(r, b, q, next)
  PROVE  \E nb \in Seq(Events), nq \in Seq(Items), then \in {"sleep", "flush"},
            stop \in BOOLEAN, tenants \in SUBSET Tenants :
           Drained(r, b, q, nb, nq, then, stop, tenants)
<1> DEFINE room == MaxBatch - Len(b)
           n == Taken(q, room)
           stop == StopTaken(q, room)
           nb == b \o SubSeq(q, 1, n)
           nq == SubSeq(q, n + 1 + (IF stop THEN 1 ELSE 0), Len(q))
           rest == SubSeq(q, n + 1, Len(q))
           then == IF stop THEN "flush" ELSE next
           tenants == IF then = "flush" THEN TenantsOf(nb) ELSE {}
<1>1. Len(b) \in Nat /\ Len(q) \in Nat /\ room \in Nat
  BY LenProperties, MeteringAssumption
<1>2. /\ n \in 0..Len(q) /\ n <= room /\ \A i \in 1..n : q[i] # Stop
      /\ n = room \/ n = Len(q) \/ q[n + 1] = Stop
  BY <1>1, TakenFacts
<1>3. stop => n + 1 = Len(q) /\ q[Len(q)] = Stop
  <2> HIDE DEF room
  <2> QED
    BY <1>1, <1>2 DEF StopTaken
<1> HIDE DEF room, n, stop
<1>4. b \in Seq(Items)
  BY DeltasAreItems
<1>5. /\ nb \in Seq(Items) /\ Len(nb) = Len(b) + n
      /\ \A i \in 1..(Len(b) + n) : nb[i] = (b \o q)[i]
      /\ rest \in Seq(Items) /\ Len(rest) = Len(q) - n
      /\ \A i \in 1..(Len(q) - n) : rest[i] = q[n + i]
      /\ nb \o rest = b \o q
  <2>1. n \in 0..Len(q)
    BY <1>2
  <2>2. /\ nb \in Seq(Items) /\ Len(nb) = Len(b) + n
        /\ \A i \in 1..(Len(b) + n) : nb[i] = (b \o q)[i]
    BY <2>1, <1>4, MovingKeeps, Zenon
  <2>3. /\ rest \in Seq(Items) /\ Len(rest) = Len(q) - n
        /\ \A i \in 1..(Len(q) - n) : rest[i] = q[n + i]
    BY <2>1, <1>4, MovingKeeps, SMT
  <2>4. nb \o rest = b \o q
    BY <2>1, <1>4, MovingKeeps, Zenon
  <2> QED
    BY <2>2, <2>3, <2>4, Zenon
<1>6. nb \in Seq(Events)
  <2>1. \A i \in 1..n : q[i] \in Events
    BY <1>1, <1>2, ElementOfSeq DEF Items
  <2>2. SubSeq(q, 1, n) \in Seq(Events)
    BY <2>1, <1>2, SubSeqProperties
  <2> QED
    BY <2>2, ConcatProperties
<1>7. tenants \in SUBSET Tenants
  <2> HIDE DEF nb
  <2>1. Range(nb) \subseteq Events
    BY <1>6, LenProperties, ElementOfSeq DEF Range
  <2> QED
    BY <2>1, MeteringAssumption DEF TenantsOf
<1>8. Len(nb) <= MaxBatch
  BY <1>1, <1>2, <1>5, MeteringAssumption DEF room
<1>9. /\ batch' = [batch EXCEPT ![r] = nb]
      /\ queue' = [queue EXCEPT ![r] = nq]
      /\ final' = [final EXCEPT ![r] = stop]
      /\ loop' = [loop EXCEPT ![r] = then]
      /\ todo' = [todo EXCEPT ![r] = tenants]
  BY Zenon DEF Drain, room, n, stop
<1>10. stop \in BOOLEAN
  BY DEF stop, StopTaken
<1>11. then \in {"sleep", "flush"}
  OBVIOUS
<1>12. b \o q \in Seq(Items) /\ Len(b \o q) = Len(b) + Len(q)
  BY <1>4, ConcatProperties
<1>13. DOMAIN (b \o q) = 1..(Len(b) + Len(q))
  BY <1>12, LenProperties
<1> HIDE DEF nb, rest, then, tenants
<1> DEFINE Fits ==
      /\ nq \in Seq(Items) /\ Len(nq) <= Len(q)
      /\ stop => nq = <<>> /\ \E i \in 1..Len(q) : q[i] = Stop
      /\ \A i \in 1..Len(nq) : nq[i] = Stop => i = Len(nq) /\ \E j \in 1..Len(q) : q[j] = Stop
      /\ Range(nb \o nq) \ {Stop} = Range(b \o q) \ {Stop}
      /\ IsInjective(b \o q) => IsInjective(nb \o nq)
<1>14. ASSUME stop
       PROVE  Fits
  <2>1. nq = <<>>
    <3>1. nq = SubSeq(q, n + 2, Len(q))
      BY <1>14, <1>2
    <3> QED
      BY <3>1, <1>1, <1>2, <1>3, <1>14, SubSeqEmpty
  <2>2. nb \o nq = nb
    BY <2>1, <1>5, ConcatEmptySeq
  <2>3. (b \o q)[Len(b) + Len(q)] = Stop
    BY <1>1, <1>2, <1>3, <1>4, <1>14, ConcatProperties
  <2>4. DOMAIN nb = 1..(Len(b) + n)
    BY <1>5, LenProperties
  <2>5. /\ Range(nb) \ {Stop} = Range(b \o q) \ {Stop}
        /\ IsInjective(b \o q) => IsInjective(nb)
    <3> DEFINE k == Len(b) + Len(q)
               l == Len(b) + n
    <3>1. k \in Nat /\ l \in Nat /\ l = k - 1
      BY <1>1, <1>2, <1>3, <1>14
    <3>2. /\ DOMAIN (b \o q) = 1..k /\ DOMAIN nb = 1..l /\ (b \o q)[k] = Stop
          /\ \A i \in 1..l : nb[i] = (b \o q)[i]
      BY <1>5, <1>13, <2>3, <2>4
    <3> HIDE DEF k, l
    <3> QED
      BY <3>1, <3>2, SameDeltas, Zenon
  <2>6. nq \in Seq(Items) /\ Len(nq) = 0
    BY <2>1, EmptySeq
  <2>7. \E i \in 1..Len(q) : q[i] = Stop
    BY <1>1, <1>2, <1>3, <1>14
  <2> HIDE DEF nq
  <2> QED
    BY <1>1, <2>1, <2>2, <2>5, <2>6, <2>7
<1>15. ASSUME ~stop
       PROVE  Fits
  <2>1. nq = rest
    BY <1>15, <1>2 DEF rest
  <2>2. \A i \in 1..Len(rest) :
          rest[i] = Stop => i = Len(rest) /\ \E j \in 1..Len(q) : q[j] = Stop
    BY <1>1, <1>2, <1>5
  <2>3. nb \o nq = b \o q
    BY <1>5, <2>1, Zenon
  <2> DEFINE old == b \o q
             new == nb \o nq
  <2>4. new = old
    BY <2>3, Zenon
  <2> HIDE DEF nq, old, new
  <2>5. /\ nq \in Seq(Items) /\ Len(nq) <= Len(q)
        /\ \A i \in 1..Len(nq) :
             nq[i] = Stop => i = Len(nq) /\ \E j \in 1..Len(q) : q[j] = Stop
    BY <1>1, <1>2, <1>5, <2>1, <2>2
  <2>6. Range(new) = Range(old) /\ (IsInjective(old) => IsInjective(new))
    BY <2>4, Zenon
  <2> QED
    BY <1>15, <2>5, <2>6, Zenon DEF old, new
<1>16. Fits
  <2> HIDE DEF Fits
  <2> QED
    BY <1>10, <1>14, <1>15
<1> HIDE DEF nq
<1> QED
  <2> USE <1>6, <1>7, <1>10, <1>11, <1>16
  <2> WITNESS nb \in Seq(Events), nq \in Seq(Items), then \in {"sleep", "flush"},
              stop \in BOOLEAN, tenants \in SUBSET Tenants
  <2> QED
    BY <1>8, <1>9, <1>16 DEF Drained

(* An item that is new to a replica's memory goes to its end. *)
LEMMA AppendKeeps ==
  ASSUME NEW b \in Seq(Events), NEW q \in Seq(Items), NEW x \in Items
  PROVE  /\ Range(b \o Append(q, x)) = Range(b \o q) \cup {x}
         /\ IsInjective(b \o q) /\ x \notin Range(b \o q) => IsInjective(b \o Append(q, x))
<1> DEFINE c == b \o q
           k == Len(b) + Len(q)
           d == b \o Append(q, x)
<1>1. b \in Seq(Items) /\ Len(b) \in Nat /\ Len(q) \in Nat
  BY DeltasAreItems, LenProperties
<1>2. /\ Append(q, x) \in Seq(Items) /\ Len(Append(q, x)) = Len(q) + 1
      /\ \A i \in 1..Len(q) : Append(q, x)[i] = q[i]
      /\ Append(q, x)[Len(q) + 1] = x
  BY AppendProperties
<1>3. /\ c \in Seq(Items) /\ Len(c) = k
      /\ \A i \in 1..k : c[i] = IF i <= Len(b) THEN b[i] ELSE q[i - Len(b)]
  BY <1>1, ConcatProperties
<1>4. /\ d \in Seq(Items) /\ Len(d) = Len(b) + Len(Append(q, x))
      /\ \A i \in 1..(Len(b) + Len(Append(q, x))) :
           d[i] = IF i <= Len(b) THEN b[i] ELSE Append(q, x)[i - Len(b)]
  BY <1>1, <1>2, ConcatProperties
<1> HIDE DEF c, d
<1>5. /\ k \in Nat /\ DOMAIN c = 1..k /\ DOMAIN d = 1..(k + 1)
  BY <1>1, <1>2, <1>3, <1>4, LenProperties
<1>6. ASSUME NEW i \in 1..k
      PROVE  d[i] = c[i]
  <2>1. /\ i \in 1..(Len(b) + Len(Append(q, x)))
        /\ ~(i <= Len(b)) => i - Len(b) \in 1..Len(q)
    BY <1>1, <1>2
  <2> QED
    BY <2>1, <1>2, <1>3, <1>4
<1>7. d[k + 1] = x
  <2>1. /\ k + 1 \in 1..(Len(b) + Len(Append(q, x)))
        /\ ~(k + 1 <= Len(b)) /\ (k + 1) - Len(b) = Len(q) + 1
    BY <1>1, <1>2
  <2> QED
    BY <2>1, <1>2, <1>4
<1> HIDE DEF k
<1>8. Range(d) = Range(c) \cup {x}
  <2>1. Range(d) \subseteq Range(c) \cup {x}
    BY <1>5, <1>6, <1>7 DEF Range
  <2>2. Range(c) \subseteq Range(d)
    BY <1>5, <1>6 DEF Range
  <2>3. x \in Range(d)
    <3>1. k + 1 \in DOMAIN d
      BY <1>5
    <3> QED
      BY <3>1, <1>7 DEF Range
  <2> QED
    BY <2>1, <2>2, <2>3
<1>9. ASSUME IsInjective(c), x \notin Range(c)
      PROVE  IsInjective(d)
  <2>1. \A i \in 1..k : c[i] # x
    BY <1>5, <1>9 DEF Range
  <2> SUFFICES ASSUME NEW i \in 1..(k + 1), NEW j \in 1..(k + 1), d[i] = d[j]
               PROVE  i = j
    BY <1>5 DEF IsInjective
  <2>2. CASE i \in 1..k /\ j \in 1..k
    BY <2>2, <1>5, <1>6, <1>9 DEF IsInjective
  <2>3. CASE i = k + 1 /\ j \in 1..k
    BY <2>1, <2>3, <1>6, <1>7
  <2>4. CASE j = k + 1 /\ i \in 1..k
    BY <2>1, <2>4, <1>6, <1>7
  <2> QED
    BY <2>2, <2>3, <2>4, <1>5
<1> QED
  BY <1>8, <1>9, Zenon DEF c, d

(* The batch and the queue share nothing. *)
LEMMA MemorySplits ==
  ASSUME NEW b \in Seq(Events), NEW q \in Seq(Items), IsInjective(b \o q)
  PROVE  /\ Range(b \o q) = Range(b) \cup Range(q)
         /\ Range(b) \cap Range(q) = {}
         /\ IsInjective(b) /\ IsInjective(q)
         /\ Range(b) \subseteq Events
<1> DEFINE c == b \o q
<1>1. /\ b \in Seq(Items) /\ Len(b) \in Nat /\ Len(q) \in Nat
      /\ DOMAIN b = 1..Len(b) /\ DOMAIN q = 1..Len(q)
  BY DeltasAreItems, LenProperties
<1>2. /\ c \in Seq(Items) /\ Len(c) = Len(b) + Len(q)
      /\ \A i \in 1..(Len(b) + Len(q)) : c[i] = IF i <= Len(b) THEN b[i] ELSE q[i - Len(b)]
  BY <1>1, ConcatProperties
<1>3. IsInjective(c)
  BY Zenon
<1> HIDE DEF c
<1>4. DOMAIN c = 1..(Len(b) + Len(q))
  BY <1>2, LenProperties
<1>5. \A i \in 1..Len(b) : i \in DOMAIN c /\ c[i] = b[i]
  BY <1>1, <1>2, <1>4
<1>6. ASSUME NEW i \in 1..Len(q)
      PROVE  Len(b) + i \in DOMAIN c /\ c[Len(b) + i] = q[i]
  <2>1. /\ Len(b) + i \in 1..(Len(b) + Len(q)) /\ ~(Len(b) + i <= Len(b))
        /\ (Len(b) + i) - Len(b) = i
    BY <1>1
  <2> QED
    BY <2>1, <1>2, <1>4
<1>7. Range(b) \cap Range(q) = {}
  <2> SUFFICES ASSUME NEW i \in 1..Len(b), NEW j \in 1..Len(q), b[i] = q[j]
               PROVE  FALSE
    BY <1>1 DEF Range
  <2>1. i = Len(b) + j
    BY <1>3, <1>5, <1>6 DEF IsInjective
  <2> QED
    BY <2>1, <1>1
<1>8. IsInjective(b)
  BY <1>1, <1>3, <1>5 DEF IsInjective
<1>9. IsInjective(q)
  <2> SUFFICES ASSUME NEW i \in 1..Len(q), NEW j \in 1..Len(q), q[i] = q[j]
               PROVE  i = j
    BY <1>1 DEF IsInjective
  <2>1. Len(b) + i = Len(b) + j
    BY <1>3, <1>6 DEF IsInjective
  <2> QED
    BY <2>1, <1>1
<1>10. Range(c) = Range(b) \cup Range(q)
  BY <1>1, RangeConcatenation DEF c
<1>11. Range(b) \subseteq Events
  BY <1>1, ElementOfSeq DEF Range
<1> QED
  BY <1>7, <1>8, <1>9, <1>10, <1>11, Zenon DEF c

-----------------------------------------------------------------------------
(* What a step leaves alone. *)

(* A replica that keeps its queue, its batch and its queued deltas. *)
LEMMA HeldFrame ==
  ASSUME NEW s \in Replicas, HeldOnce(s), batch'[s] = batch[s], queue'[s] = queue[s],
         Of(s, {"queued"})' = Of(s, {"queued"})
  PROVE  HeldOnce(s)'
  BY Zenon DEF HeldOnce, Memory

(* A replica whose loop stays where it is. *)
LEMMA StopFrame ==
  ASSUME NEW s \in Replicas, StopIsLast(s), batch'[s] = batch[s], queue'[s] = queue[s],
         loop'[s] = loop[s], final'[s] = final[s], stopping'[s] = stopping[s]
  PROVE  StopIsLast(s)'
  BY Zenon DEF StopIsLast

(* A step that stores no delta, touches no row and reads none. *)
LEMMA AccountsFrame ==
  ASSUME CountsExact, ReadsAreOld, usage' = usage, fellBack' = fellBack,
         \A e \in Events : place'[e] = "stored" <=> place[e] = "stored",
         \A s \in Replicas, t \in Tenants : read'[s][t] # None => read'[s][t] = read[s][t]
  PROVE  CountsExact' /\ ReadsAreOld'
<1>1. \A t : Stored(t)' = Stored(t)
  BY DEF Stored
<1>2. CountsExact'
  BY <1>1, Zenon DEF CountsExact
<1>3. ReadsAreOld'
  <2> SUFFICES ASSUME NEW t \in Tenants
               PROVE  /\ IsFiniteSet(Stored(t))'
                      /\ \A s \in Replicas :
                           read'[s][t] # None =>
                             t \in fellBack' /\ read'[s][t] <= Cardinality(Stored(t)')
    BY Zenon DEF ReadsAreOld
  <2>1. IsFiniteSet(Stored(t))'
    BY <1>1, Zenon DEF ReadsAreOld
  <2>2. ASSUME NEW s \in Replicas, read'[s][t] # None
        PROVE  t \in fellBack' /\ read'[s][t] <= Cardinality(Stored(t)')
    <3>1. read'[s][t] = read[s][t]
      BY <2>2
    <3> QED
      BY <1>1, <2>2, <3>1, Zenon DEF ReadsAreOld
  <2> QED
    BY <2>1, <2>2
<1> QED
  BY <1>2, <1>3

-----------------------------------------------------------------------------
(* The steps. *)

(* The invariant holds when the replicas start. *)
LEMMA InitIInv == Init => IInv
<1> SUFFICES ASSUME Init PROVE IInv
  OBVIOUS
<1> USE DEF Init
<1>1. \A S : <<>> \in Seq(S) /\ Len(<<>>) = 0
  BY EmptySeq
<1>2. TypeOK
  BY <1>1, MeteringAssumption DEF TypeOK
<1>3. ASSUME NEW r \in Replicas
      PROVE  HeldOnce(r) /\ StopIsLast(r)
  <2>1. batch[r] = <<>> /\ queue[r] = <<>>
    OBVIOUS
  <2>2. Memory(r) = <<>>
    BY <2>1, <1>1, ConcatEmptySeq DEF Memory
  <2>3. HeldOnce(r)
    BY <2>2 DEF HeldOnce, Of, Range, IsInjective
  <2>4. StopIsLast(r)
    BY <2>1, <1>1 DEF StopIsLast
  <2> QED
    BY <2>3, <2>4
<1>4. \A t : Stored(t) = {}
  BY DEF Stored
<1>5. CountsExact
  <2>1. \A t : Cardinality(Stored(t)) = 0
    BY <1>4, FS_EmptySet
  <2> QED
    BY <2>1 DEF CountsExact
<1>6. ReadsAreOld
  BY <1>4, FS_EmptySet DEF ReadsAreOld
<1> QED
  BY <1>2, <1>3, <1>5, <1>6 DEF IInv

(* A step of the flush that changes neither the deltas nor the rows. *)
LEMMA QuietIInv ==
  ASSUME IInv, TypeOK', UNCHANGED <<place, home, queue, loop, batch, final, read, usage,
                                    fellBack, stopping>>
  PROVE  IInv'
<1>1. \A r \in Replicas : HeldOnce(r)' /\ StopIsLast(r)'
  BY DEF IInv, HeldOnce, Memory, Of, StopIsLast
<1>2. CountsExact' /\ ReadsAreOld'
  BY DEF IInv, CountsExact, ReadsAreOld, Stored
<1> QED
  BY <1>1, <1>2 DEF IInv

(* An upsert, or an increment that finds no connection. *)
LEMMA UpsertIInv ==
  ASSUME IInv, NEW r \in Replicas, Upsert(r) \/ ConnectFails(r)
  PROVE  IInv'
<1>1. TypeOK
  BY DEF IInv
<1>2. /\ todo' \in [Replicas -> SUBSET Tenants] /\ skipped' \in [Replicas -> SUBSET Tenants]
      /\ lock' \in [Tenants -> Replicas \cup {None}]
  <2>1. CASE Upsert(r)
    BY <2>1, <1>1 DEF TypeOK, Upsert
  <2>2. CASE ConnectFails(r)
    BY <2>2, <1>1 DEF TypeOK, ConnectFails
  <2> QED
    BY <2>1, <2>2
<1>3. UNCHANGED <<place, home, queue, loop, batch, final, read, usage, fellBack, stopping>>
  BY DEF Upsert, ConnectFails
<1>4. TypeOK'
  BY <1>1, <1>2, <1>3 DEF TypeOK
<1> QED
  BY <1>3, <1>4, QuietIInv

(* The fallback reads a count that is not too high. *)
LEMMA FallbackIInv ==
  ASSUME IInv, NEW r \in Replicas, FallbackReads(r)
  PROVE  IInv'
<1>1. PICK t \in Tenants :
        /\ read' = [read EXCEPT ![r][t] = usage[t]]
        /\ fellBack' = fellBack \cup {t}
        /\ todo' = [todo EXCEPT ![r] = @ \ {t}]
  BY DEF FallbackReads
<1>2. UNCHANGED <<place, home, queue, loop, batch, final, skipped, lock, usage, stopping>>
  BY DEF FallbackReads
<1>3. TypeOK'
  BY <1>1, <1>2 DEF IInv, TypeOK
<1>4. \A s \in Replicas : HeldOnce(s)' /\ StopIsLast(s)'
  BY <1>2 DEF IInv, HeldOnce, Memory, Of, StopIsLast
<1>5. \A u : Stored(u)' = Stored(u)
  BY <1>2 DEF Stored
<1>6. CountsExact'
  BY <1>1, <1>2, <1>5 DEF IInv, CountsExact
<1>7. ReadsAreOld'
  <2>1. \A u \in Tenants, s \in Replicas :
          read'[s][u] = IF s = r /\ u = t THEN usage[t] ELSE read[s][u]
    BY <1>1 DEF IInv, TypeOK
  <2>2. usage[t] <= Cardinality(Stored(t))
    BY DEF IInv, CountsExact
  <2> QED
    BY <1>1, <1>5, <2>1, <2>2 DEF IInv, ReadsAreOld
<1> QED
  BY <1>3, <1>4, <1>6, <1>7 DEF IInv

(* A delta enters the queue of its replica, or waits for a direct write. *)
LEMMA RecordIInv ==
  ASSUME IInv, NEW r \in Replicas, NEW e \in Events, RecordUsage(r, e)
  PROVE  IInv'
<1> USE MeteringAssumption
<1>1. TypeOK /\ CountsExact /\ ReadsAreOld /\ \A s \in Replicas : HeldOnce(s) /\ StopIsLast(s)
  BY DEF IInv
<1>2. /\ place[e] = "new" /\ stopping[r] = "no"
      /\ home' = [home EXCEPT ![e] = r]
      /\ UNCHANGED <<loop, batch, final, todo, skipped, read, lock, usage, fellBack, stopping>>
  BY DEF RecordUsage
<1>3. queue[r] \in Seq(Items) /\ batch[r] \in Seq(Events) /\ Len(queue[r]) \in Nat
  BY <1>1, LenProperties DEF TypeOK, Items
<1>4. \A s \in Replicas, d \in Events : d # e => (d \in Of(s, {"queued"})' <=> d \in Of(s, {"queued"}))
  BY <1>1, <1>2 DEF RecordUsage, Become, Of, TypeOK
<1>5. \A s \in Replicas : e \notin Of(s, {"queued"})
  BY <1>2 DEF Of
<1>6. CountsExact' /\ ReadsAreOld'
  <2>1. \A d \in Events : place'[d] = "stored" <=> place[d] = "stored"
    BY <1>2 DEF RecordUsage, Become
  <2> QED
    BY <2>1, <1>1, <1>2, AccountsFrame
<1>7. CASE Len(queue[r]) < QueueSize
  <2>1. queue' = [queue EXCEPT ![r] = Append(@, e)] /\ Become({e}, "queued")
    BY <1>7 DEF RecordUsage
  <2>2. queue'[r] = Append(queue[r], e) /\ \A s \in Replicas \ {r} : queue'[s] = queue[s]
    BY <2>1, <1>1 DEF TypeOK
  <2>3. /\ Append(queue[r], e) \in Seq(Items) /\ Len(Append(queue[r], e)) = Len(queue[r]) + 1
        /\ \A i \in 1..Len(queue[r]) : Append(queue[r], e)[i] = queue[r][i]
        /\ Append(queue[r], e)[Len(queue[r]) + 1] = e
    BY <1>3, AppendProperties DEF Items
  <2>4. TypeOK'
    <3>1. queue' \in [Replicas -> Seq(Items)]
      BY <2>1, <2>3, <1>1 DEF TypeOK, Items
    <3>2. \A s \in Replicas : Len(queue'[s]) <= QueueSize
      <4>1. Len(queue'[r]) <= QueueSize
        BY <2>2, <2>3, <1>3, <1>7
      <4>2. \A s \in Replicas \ {r} : Len(queue'[s]) <= QueueSize
        BY <2>2, <1>1 DEF TypeOK
      <4> QED
        BY <4>1, <4>2
    <3>3. place' \in [Events -> {"new"} \cup Held \cup Fates]
      BY <2>1, <1>1 DEF TypeOK, Become, Held
    <3>4. home' \in [Events -> Replicas \cup {None}]
      BY <1>1, <1>2 DEF TypeOK
    <3> QED
      BY <3>1, <3>2, <3>3, <3>4, <1>1, <1>2 DEF TypeOK, Items
  <2>5. ASSUME NEW s \in Replicas
        PROVE  HeldOnce(s)'
    <3>1. CASE s # r
      <4>1. e \notin Of(s, {"queued"})'
        BY <3>1, <1>1, <1>2 DEF Of, TypeOK
      <4>2. Of(s, {"queued"})' = Of(s, {"queued"})
        BY <4>1, <1>4, <1>5 DEF Of
      <4> QED
        BY <4>2, <3>1, <2>2, <1>1, <1>2, HeldFrame
    <3>2. CASE s = r
      <4>1. e \in Of(r, {"queued"})'
        BY <2>1, <1>1, <1>2 DEF Of, TypeOK, Become
      <4>2. Of(r, {"queued"})' = Of(r, {"queued"}) \cup {e}
        BY <4>1, <1>4 DEF Of
      <4>3. /\ Range(Memory(r)) \ {Stop} = Of(r, {"queued"}) /\ IsInjective(Memory(r))
        BY <1>1 DEF HeldOnce
      <4>4. e \notin Range(Memory(r)) /\ e # Stop
        BY <4>3, <1>5
      <4>5. Memory(r)' = batch[r] \o Append(queue[r], e)
        BY <2>2, <1>2, Zenon DEF Memory
      <4>6. Range(Memory(r)') = Range(Memory(r)) \cup {e} /\ IsInjective(Memory(r)')
        <5>1. e \in Items
          BY DEF Items
        <5>2. Memory(r) = batch[r] \o queue[r]
          BY DEF Memory
        <5>3. /\ Range(batch[r] \o Append(queue[r], e)) = Range(batch[r] \o queue[r]) \cup {e}
              /\ IsInjective(batch[r] \o queue[r]) /\ e \notin Range(batch[r] \o queue[r])
                   => IsInjective(batch[r] \o Append(queue[r], e))
          BY <5>1, <1>3, AppendKeeps, Zenon
        <5> QED
          BY <5>2, <5>3, <4>3, <4>4, <4>5, Zenon
      <4> QED
        BY <3>2, <4>2, <4>3, <4>4, <4>6 DEF HeldOnce
    <3> QED
      BY <3>1, <3>2
  <2>6. ASSUME NEW s \in Replicas
        PROVE  StopIsLast(s)'
    <3>1. CASE s # r
      BY <3>1, <2>2, <1>1, <1>2, StopFrame
    <3>2. CASE s = r
      <4>1. \A i \in 1..Len(queue[r]) : queue[r][i] # Stop
        BY <1>1, <1>2 DEF StopIsLast
      <4>2. \A i \in 1..(Len(queue[r]) + 1) : queue'[r][i] # Stop
        BY <4>1, <2>2, <2>3, <1>3
      <4>3. StopIsLast(r)
        BY <1>1
      <4> QED
        BY <3>2, <4>2, <4>3, <2>2, <2>3, <1>2 DEF StopIsLast
    <3> QED
      BY <3>1, <3>2
  <2> QED
    BY <2>4, <2>5, <2>6, <1>6 DEF IInv
<1>8. CASE ~(Len(queue[r]) < QueueSize)
  <2>1. queue' = queue /\ Become({e}, "direct")
    BY <1>8 DEF RecordUsage
  <2>2. TypeOK'
    <3>1. place' \in [Events -> {"new"} \cup Held \cup Fates]
      BY <2>1, <1>1 DEF TypeOK, Become, Held
    <3>2. home' \in [Events -> Replicas \cup {None}]
      BY <1>1, <1>2 DEF TypeOK
    <3> QED
      BY <3>1, <3>2, <2>1, <1>1, <1>2 DEF TypeOK
  <2>3. ASSUME NEW s \in Replicas
        PROVE  HeldOnce(s)' /\ StopIsLast(s)'
    <3>1. e \notin Of(s, {"queued"})'
      BY <2>1 DEF Of, Become
    <3>2. Of(s, {"queued"})' = Of(s, {"queued"})
      BY <3>1, <1>4, <1>5 DEF Of
    <3> QED
      BY <3>2, <2>1, <1>1, <1>2, HeldFrame, StopFrame
  <2> QED
    BY <2>2, <2>3, <1>6 DEF IInv
<1> QED
  BY <1>7, <1>8

(* A direct write counts its delta once, or not at all. *)
LEMMA DirectIInv ==
  ASSUME IInv, NEW r \in Replicas, NEW e \in Events, Direct(r, e)
  PROVE  IInv'
<1> USE MeteringAssumption
<1>1. TypeOK /\ CountsExact /\ ReadsAreOld /\ \A s \in Replicas : HeldOnce(s) /\ StopIsLast(s)
  BY DEF IInv
<1>2. PICK what \in Fates : Become({e}, what)
  BY DEF Direct, DirectWrite, DirectWriteFails, Fates
<1>3. /\ place[e] = "direct"
      /\ UNCHANGED <<home, queue, loop, batch, final, todo, skipped, read, lock, fellBack,
                     stopping>>
  BY DEF Direct, DirectWrite, DirectWriteFails, Of
<1>4. \A s \in Replicas : HeldOnce(s)' /\ StopIsLast(s)'
  <2> SUFFICES ASSUME NEW s \in Replicas
               PROVE  HeldOnce(s)' /\ StopIsLast(s)'
    OBVIOUS
  <2>1. Of(s, {"queued"})' = Of(s, {"queued"})
    BY <1>2, <1>3 DEF Of, Become, Fates
  <2> QED
    BY <2>1, <1>1, <1>3, HeldFrame, StopFrame
<1>5. place' \in [Events -> {"new"} \cup Held \cup Fates]
  BY <1>1, <1>2 DEF TypeOK, Become
<1>6. CASE DirectWrite(r, e)
  <2> DEFINE t == Tenant[e]
  <2>1. t \in Tenants /\ usage' = [usage EXCEPT ![t] = @ + 1] /\ Become({e}, "stored")
    BY <1>6 DEF DirectWrite
  <2>2. TypeOK'
    BY <2>1, <1>1, <1>3, <1>5 DEF TypeOK
  <2>3. Stored(t)' = Stored(t) \cup {e} /\ e \notin Stored(t)
    BY <2>1, <1>3 DEF Stored, Become
  <2>4. \A u \in Tenants \ {t} : Stored(u)' = Stored(u)
    BY <2>1 DEF Stored, Become
  <2> HIDE DEF t
  <2>5. \A u \in Tenants : IsFiniteSet(Stored(u)) /\ Cardinality(Stored(u)) \in Nat
    BY <1>1, FS_CardinalityType DEF ReadsAreOld
  <2>6. /\ IsFiniteSet(Stored(t)')
        /\ Cardinality(Stored(t)') = Cardinality(Stored(t)) + 1
    BY <2>1, <2>3, <2>5, FS_AddElement
  <2>7. \A u \in Tenants \ {t} : usage'[u] = usage[u]
    BY <2>1, <1>1 DEF TypeOK
  <2>8. usage'[t] = usage[t] + 1 /\ usage[t] \in Nat
    BY <2>1, <1>1 DEF TypeOK
  <2>9. CountsExact'
    <3> SUFFICES ASSUME NEW u \in Tenants
                 PROVE  /\ usage'[u] <= Cardinality(Stored(u)')
                        /\ u \notin fellBack' => usage'[u] = Cardinality(Stored(u)')
      BY DEF CountsExact
    <3>1. CASE u = t
      BY <3>1, <2>5, <2>6, <2>8, <1>1, <1>3 DEF CountsExact
    <3>2. CASE u # t
      BY <3>2, <2>4, <2>7, <1>1, <1>3 DEF CountsExact
    <3> QED
      BY <3>1, <3>2
  <2>10. ReadsAreOld'
    <3> SUFFICES ASSUME NEW u \in Tenants
                 PROVE  /\ IsFiniteSet(Stored(u)')
                        /\ \A s \in Replicas :
                             read[s][u] # None => u \in fellBack /\ read[s][u] <= Cardinality(Stored(u)')
      BY <1>3 DEF ReadsAreOld
    <3>1. CASE u = t
      <4>1. \A s \in Replicas : read[s][t] # None =>
              t \in fellBack /\ read[s][t] \in Nat /\ read[s][t] <= Cardinality(Stored(t))
        BY <2>1, <1>1 DEF ReadsAreOld, TypeOK
      <4> QED
        BY <4>1, <3>1, <2>1, <2>5, <2>6
    <3>2. CASE u # t
      BY <3>2, <2>4, <1>1 DEF ReadsAreOld
    <3> QED
      BY <3>1, <3>2
  <2> QED
    BY <2>2, <2>9, <2>10, <1>4 DEF IInv
<1>7. CASE DirectWriteFails(r, e)
  <2>1. usage' = usage /\ \A d \in Events : place'[d] = "stored" <=> place[d] = "stored"
    BY <1>3, <1>7 DEF DirectWriteFails, Become
  <2>2. CountsExact' /\ ReadsAreOld'
    BY <2>1, <1>1, <1>3, AccountsFrame
  <2>3. TypeOK'
    BY <2>1, <1>1, <1>3, <1>5 DEF TypeOK
  <2> QED
    BY <2>2, <2>3, <1>4 DEF IInv
<1> QED
  BY <1>6, <1>7 DEF Direct

(* The loop moves deltas from the queue to the batch. *)
LEMMA DrainIInv ==
  ASSUME IInv, NEW r \in Replicas, loop[r] \in {"get", "sleep"},
         NEW b \in Seq(Events), NEW q \in Seq(Items), NEW next \in {"sleep", "flush"},
         Len(b) <= MaxBatch, Len(q) <= Len(queue[r]), b \o q = Memory(r),
         \A i \in 1..Len(q) : q[i] = Stop => i = Len(q) /\ stopping[r] = "wait",
         Drain(r, b, q, next),
         UNCHANGED <<place, home, skipped, read, lock, usage, fellBack, stopping>>
  PROVE  IInv'
<1> USE MeteringAssumption
<1>1. TypeOK /\ CountsExact /\ ReadsAreOld /\ \A s \in Replicas : HeldOnce(s) /\ StopIsLast(s)
  BY DEF IInv
<1>2. PICK nb \in Seq(Events), nq \in Seq(Items), then \in {"sleep", "flush"},
           stop \in BOOLEAN, tenants \in SUBSET Tenants :
           Drained(r, b, q, nb, nq, then, stop, tenants)
  <2>1. \A i \in 1..Len(q) : q[i] = Stop => i = Len(q)
    OBVIOUS
  <2> QED
    BY <1>1, <2>1, DrainFacts
<1> USE DEF Drained
<1>3. /\ batch'[r] = nb /\ queue'[r] = nq /\ final'[r] = stop /\ loop'[r] = then
      /\ \A s \in Replicas \ {r} : /\ batch'[s] = batch[s] /\ queue'[s] = queue[s]
                                  /\ final'[s] = final[s] /\ loop'[s] = loop[s]
  BY <1>1, <1>2 DEF TypeOK
<1>4. TypeOK'
  <2>1. batch' \in [Replicas -> Seq(Events)] /\ queue' \in [Replicas -> Seq(Items)]
    BY <1>1, <1>2 DEF TypeOK, Items
  <2>2. \A s \in Replicas : Len(queue'[s]) <= QueueSize /\ Len(batch'[s]) <= MaxBatch
    <3>1. Len(nq) \in Nat /\ Len(q) \in Nat /\ Len(queue[r]) \in Nat /\ Len(queue[r]) <= QueueSize
      BY <1>1, LenProperties DEF TypeOK
    <3>2. Len(nq) <= QueueSize
      BY <3>1, <1>2
    <3> QED
      BY <3>2, <1>1, <1>2, <1>3 DEF TypeOK
  <2>3. /\ loop' \in [Replicas -> {"get", "sleep", "flush", "done"}]
        /\ final' \in [Replicas -> BOOLEAN]
        /\ todo' \in [Replicas -> SUBSET Tenants]
    BY <1>1, <1>2 DEF TypeOK
  <2> QED
    BY <2>1, <2>2, <2>3, <1>1 DEF TypeOK, Items
<1>5. ASSUME NEW s \in Replicas
      PROVE  HeldOnce(s)'
  <2>1. Of(s, {"queued"})' = Of(s, {"queued"})
    BY DEF Of
  <2>2. CASE s # r
    BY <2>1, <2>2, <1>1, <1>3, HeldFrame
  <2>3. CASE s = r
    <3>1. Memory(r)' = nb \o nq
      BY <1>3, Zenon DEF Memory
    <3>2. Range(b \o q) \ {Stop} = Of(r, {"queued"}) /\ IsInjective(b \o q)
      BY <1>1, Zenon DEF HeldOnce
    <3>3. Range(nb \o nq) \ {Stop} = Of(r, {"queued"})' /\ IsInjective(nb \o nq)
      BY <3>2, <2>1, <2>3, <1>2, Zenon
    <3> QED
      BY <3>1, <3>3, <2>3, Zenon DEF HeldOnce
  <2> QED
    BY <2>2, <2>3
<1>6. ASSUME NEW s \in Replicas
      PROVE  StopIsLast(s)'
  <2>1. CASE s # r
    BY <2>1, <1>1, <1>3, StopFrame
  <2>2. CASE s = r
    <3>1. stopping[r] # "done"
      BY <1>1 DEF StopIsLast
    <3>2. \A i \in 1..Len(nq) : nq[i] = Stop => i = Len(nq) /\ stopping[r] = "wait"
      BY <1>2
    <3>3. stop => nq = <<>> /\ stopping[r] = "wait"
      BY <1>2
    <3> QED
      BY <2>2, <3>1, <3>2, <3>3, <1>3 DEF StopIsLast
  <2> QED
    BY <2>1, <2>2
<1>7. CountsExact' /\ ReadsAreOld'
  BY <1>1, AccountsFrame
<1> QED
  BY <1>4, <1>5, <1>6, <1>7 DEF IInv

(* The second of the loops over the queue. *)
LEMMA WakeIInv ==
  ASSUME IInv, NEW r \in Replicas, Wake(r)
  PROVE  IInv'
<1>1. /\ batch[r] \in Seq(Events) /\ queue[r] \in Seq(Items) /\ Len(batch[r]) <= MaxBatch
      /\ Len(queue[r]) \in Nat
  BY LenProperties DEF IInv, TypeOK, Items
<1>2. \A i \in 1..Len(queue[r]) :
        queue[r][i] = Stop => i = Len(queue[r]) /\ stopping[r] = "wait"
  BY DEF IInv, StopIsLast
<1>3. /\ loop[r] \in {"get", "sleep"} /\ Drain(r, batch[r], queue[r], "flush")
      /\ UNCHANGED <<place, home, skipped, read, lock, usage, fellBack, stopping>>
  BY DEF Wake
<1>4. batch[r] \o queue[r] = Memory(r) /\ Len(queue[r]) <= Len(queue[r])
  BY <1>1 DEF Memory
<1>5. "flush" \in {"sleep", "flush"}
  OBVIOUS
<1> QED
  BY <1>1, <1>2, <1>3, <1>4, <1>5, DrainIInv, Zenon

(* The first: a Stop ahead of everything else is also the last item. *)
LEMMA GetIInv ==
  ASSUME IInv, NEW r \in Replicas, Get(r)
  PROVE  IInv'
<1> USE MeteringAssumption
<1>1. TypeOK /\ CountsExact /\ ReadsAreOld /\ \A s \in Replicas : HeldOnce(s) /\ StopIsLast(s)
  BY DEF IInv
<1>2. /\ loop[r] = "get" /\ queue[r] # <<>>
      /\ UNCHANGED <<place, home, skipped, read, lock, usage, fellBack, stopping>>
  BY DEF Get
<1>3. /\ queue[r] \in Seq(Items) /\ batch[r] = <<>>
      /\ \A i \in 1..Len(queue[r]) :
           queue[r][i] = Stop => i = Len(queue[r]) /\ stopping[r] = "wait"
  BY <1>1, <1>2 DEF TypeOK, Items, StopIsLast
<1> DEFINE h == Head(queue[r])
           q == Tail(queue[r])
<1>4. /\ h \in Items /\ q \in Seq(Items) /\ Len(q) = Len(queue[r]) - 1
      /\ \A i \in 1..Len(q) : q[i] = queue[r][i + 1]
  BY <1>2, <1>3, HeadTailProperties
<1>5. Len(queue[r]) \in Nat \ {0} /\ h = queue[r][1]
  BY <1>2, <1>3, EmptySeq
<1>6. Memory(r) = queue[r]
  BY <1>3, ConcatEmptySeq DEF Memory
<1>7. CASE h = Stop
  <2>1. /\ queue' = [queue EXCEPT ![r] = q]
        /\ loop' = [loop EXCEPT ![r] = "done"]
        /\ UNCHANGED <<batch, final, todo>>
    BY <1>7 DEF Get
  <2>2. Len(queue[r]) = 1 /\ stopping[r] = "wait"
    <3>1. queue[r][1] = Stop /\ 1 \in 1..Len(queue[r])
      <4> HIDE DEF h
      <4> QED
        BY <1>5, <1>7
    <3> QED
      BY <3>1, <1>3
  <2>3. q = <<>>
    <3> HIDE DEF q
    <3> QED
      BY <2>2, <1>4, EmptySeq
  <2>4. /\ queue'[r] = <<>> /\ loop'[r] = "done"
        /\ \A s \in Replicas \ {r} : queue'[s] = queue[s] /\ loop'[s] = loop[s]
    BY <2>1, <2>3, <1>1 DEF TypeOK
  <2>5. Len(<<>>) = 0 /\ <<>> \in Seq(Items)
    BY EmptySeq
  <2>6. TypeOK'
    <3>1. queue' \in [Replicas -> Seq(Items)]
      BY <2>1, <2>3, <2>5, <1>1 DEF TypeOK, Items
    <3>2. \A s \in Replicas : Len(queue'[s]) <= QueueSize
      <4>1. Len(queue'[r]) <= QueueSize
        BY <2>4, <2>5
      <4>2. \A s \in Replicas \ {r} : Len(queue'[s]) <= QueueSize
        BY <2>4, <1>1 DEF TypeOK
      <4> QED
        BY <4>1, <4>2
    <3> QED
      BY <2>1, <3>1, <3>2, <1>1, <1>2 DEF TypeOK, Items
  <2>7. ASSUME NEW s \in Replicas
        PROVE  HeldOnce(s)'
    <3>1. Of(s, {"queued"})' = Of(s, {"queued"})
      BY <1>2 DEF Of
    <3>2. CASE s # r
      BY <3>1, <3>2, <2>1, <2>4, <1>1, HeldFrame
    <3>3. CASE s = r
      <4>1. Memory(r)' = <<>>
        BY <2>1, <2>4, <2>5, <1>3, ConcatEmptySeq DEF Memory
      <4>2. Range(<<>>) = {} /\ IsInjective(<<>>)
        BY <2>5 DEF Range, IsInjective
      <4>3. Range(Memory(r)) = {Stop}
        <5>1. DOMAIN queue[r] = 1..1 /\ queue[r][1] = Stop
          BY <2>2, <1>3, <1>5, <1>7, LenProperties
        <5> QED
          BY <5>1, <1>6 DEF Range
      <4>4. Of(r, {"queued"}) = {}
        BY <4>3, <1>1 DEF HeldOnce
      <4> QED
        BY <3>1, <3>3, <4>1, <4>2, <4>4 DEF HeldOnce
    <3> QED
      BY <3>2, <3>3
  <2>8. ASSUME NEW s \in Replicas
        PROVE  StopIsLast(s)'
    <3>1. CASE s # r
      BY <3>1, <2>1, <2>4, <1>1, <1>2, StopFrame
    <3>2. CASE s = r
      BY <3>2, <2>1, <2>2, <2>4, <2>5, <1>2, <1>3 DEF StopIsLast
    <3> QED
      BY <3>1, <3>2
  <2>9. CountsExact' /\ ReadsAreOld'
    BY <1>1, <1>2, AccountsFrame
  <2> QED
    BY <2>6, <2>7, <2>8, <2>9 DEF IInv
<1>8. CASE h # Stop
  <2>1. Drain(r, <<h>>, q, "sleep")
    BY <1>8, Zenon DEF Get
  <2>2. <<h>> \in Seq(Events) /\ Len(<<h>>) = 1
    BY <1>4, <1>8 DEF Items
  <2>3. <<h>> \o q = queue[r]
    <3>1. <<h>> \in Seq(Items)
      BY <2>2, DeltasAreItems
    <3>2. /\ <<h>> \o q \in Seq(Items) /\ Len(<<h>> \o q) = 1 + Len(q)
          /\ \A i \in 1..(1 + Len(q)) :
               (<<h>> \o q)[i] = IF i <= 1 THEN <<h>>[i] ELSE q[i - 1]
      BY <3>1, <2>2, <1>4, ConcatProperties
    <3> DEFINE c == <<h>> \o q
    <3> HIDE DEF c
    <3>3. c \in Seq(Items) /\ Len(c) = Len(queue[r])
      BY <3>2, <1>4, <1>5 DEF c
    <3>4. \A i \in 1..Len(c) : c[i] = queue[r][i]
      BY <3>2, <1>4, <1>5 DEF c
    <3> QED
      BY <3>3, <3>4, <1>3, SeqEqual DEF c
  <2> HIDE DEF h, q
  <2>4. \A i \in 1..Len(q) : q[i] = Stop => i = Len(q) /\ stopping[r] = "wait"
    <3> SUFFICES ASSUME NEW i \in 1..Len(q), q[i] = Stop
                 PROVE  i = Len(q) /\ stopping[r] = "wait"
      OBVIOUS
    <3>1. i + 1 \in 1..Len(queue[r]) /\ queue[r][i + 1] = Stop
      BY <1>4, <1>5
    <3> QED
      BY <3>1, <1>3, <1>4, <1>5
  <2>5. Len(<<h>>) <= MaxBatch /\ Len(q) <= Len(queue[r])
    BY <2>2, <1>4, <1>5
  <2>6. loop[r] \in {"get", "sleep"} /\ "sleep" \in {"sleep", "flush"}
    BY <1>2
  <2>7. <<h>> \o q = Memory(r)
    BY <2>3, <1>6, Zenon
  <2> QED
    BY <2>1, <2>2, <2>4, <2>5, <2>6, <2>7, <1>2, <1>4, DrainIInv, Zenon
<1> QED
  BY <1>7, <1>8

(* The deltas of a batch that are counted for a tenant: one for each position. *)
LEMMA DeltasCounted ==
  ASSUME NEW b \in Seq(Events), IsInjective(b), NEW t
  PROVE  LET I == {i \in DOMAIN b : Tenant[b[i]] = t}
             B == {e \in Range(b) : Tenant[e] = t}
         IN  IsFiniteSet(I) /\ IsFiniteSet(B) /\ Cardinality(B) = Cardinality(I)
<1> DEFINE I == {i \in DOMAIN b : Tenant[b[i]] = t}
           B == {e \in Range(b) : Tenant[e] = t}
           f == [i \in I |-> b[i]]
<1>1. DOMAIN b = 1..Len(b) /\ Len(b) \in Nat
  BY LenProperties
<1>2. IsFiniteSet(I)
  <2>1. IsFiniteSet(1..Len(b)) /\ I \in SUBSET (1..Len(b))
    BY <1>1, FS_Interval
  <2> QED
    BY <2>1, FS_Subset, Zenon
<1>3. f \in Bijection(I, B)
  <2>1. f \in [I -> B]
    BY DEF Range
  <2>2. \A i, j \in I : f[i] = f[j] => i = j
    BY DEF IsInjective
  <2>3. \A e \in B : \E i \in I : f[i] = e
    BY DEF Range
  <2> HIDE DEF f, I, B
  <2> QED
    BY <2>1, <2>2, <2>3 DEF Bijection, Injection, Surjection, IsInjective
<1>4. ExistsBijection(I, B)
  BY <1>3 DEF ExistsBijection
<1> HIDE DEF I, B
<1>5. IsFiniteSet(B) /\ Cardinality(B) = Cardinality(I)
  BY <1>2, <1>4, FS_Bijection
<1> QED
  BY <1>2, <1>5 DEF I, B

(* What the batch holds is queued, and of this replica. *)
LEMMA BatchIsQueued ==
  ASSUME IInv, NEW r \in Replicas
  PROVE  /\ batch[r] \in Seq(Events) /\ queue[r] \in Seq(Items)
         /\ IsInjective(batch[r]) /\ IsInjective(queue[r])
         /\ Range(batch[r]) \subseteq Of(r, {"queued"})
         /\ Range(queue[r]) \ {Stop} = Of(r, {"queued"}) \ Range(batch[r])
<1>1. batch[r] \in Seq(Events) /\ queue[r] \in Seq(Items)
  BY DEF IInv, TypeOK, Items
<1>2. /\ Range(batch[r] \o queue[r]) \ {Stop} = Of(r, {"queued"})
      /\ IsInjective(batch[r] \o queue[r])
  BY Zenon DEF IInv, HeldOnce, Memory
<1>3. /\ Range(batch[r] \o queue[r]) = Range(batch[r]) \cup Range(queue[r])
      /\ Range(batch[r]) \cap Range(queue[r]) = {}
      /\ IsInjective(batch[r]) /\ IsInjective(queue[r])
      /\ Range(batch[r]) \subseteq Events
  BY <1>1, <1>2, MemorySplits, Zenon
<1>4. Stop \notin Range(batch[r])
  BY <1>3, MeteringAssumption
<1> DEFINE B == Range(batch[r])
           Q == Range(queue[r])
           O == Of(r, {"queued"})
<1>5. (B \cup Q) \ {Stop} = O /\ B \cap Q = {}
  BY <1>2, <1>3, Zenon
<1> HIDE DEF B, Q, O
<1>6. B \subseteq O /\ Q \ {Stop} = O \ B
  BY <1>4, <1>5 DEF B
<1> QED
  BY <1>1, <1>3, <1>6, Zenon DEF B, Q, O

(* The end of a transaction, committed or not: the batch is gone, and the deltas
   of the other replicas are where they were. *)
LEMMA EndFlushHeld ==
  ASSUME IInv, NEW r \in Replicas, loop[r] = "flush",
         NEW fate \in [Tenants -> Fates], EndFlush(r, fate)
  PROVE  /\ usage' \in [Tenants -> Nat] => TypeOK'
         /\ \A s \in Replicas : HeldOnce(s)' /\ StopIsLast(s)'
<1> USE MeteringAssumption
<1>1. TypeOK /\ \A s \in Replicas : HeldOnce(s) /\ StopIsLast(s)
  BY DEF IInv
<1>2. /\ place' = [e \in Events |-> IF e \in Range(batch[r]) THEN fate[Tenant[e]] ELSE place[e]]
      /\ batch' = [batch EXCEPT ![r] = <<>>]
      /\ todo' = [todo EXCEPT ![r] = {}]
      /\ skipped' = [skipped EXCEPT ![r] = {}]
      /\ read' = [read EXCEPT ![r] = [t \in Tenants |-> None]]
      /\ lock' = [t \in Tenants |-> IF lock[t] = r THEN None ELSE lock[t]]
      /\ loop' = [loop EXCEPT ![r] = IF final[r] THEN "done" ELSE "get"]
      /\ UNCHANGED <<home, queue, final, fellBack, stopping>>
  BY Zenon DEF EndFlush
<1>3. /\ batch'[r] = <<>> /\ loop'[r] = IF final[r] THEN "done" ELSE "get"
      /\ \A s \in Replicas \ {r} : batch'[s] = batch[s] /\ loop'[s] = loop[s]
  BY <1>1, <1>2 DEF TypeOK
<1>4. Len(<<>>) = 0 /\ <<>> \in Seq(Events)
  BY EmptySeq
<1>5. place' \in [Events -> {"new"} \cup Held \cup Fates]
  BY <1>1, <1>2 DEF TypeOK
<1>6. ASSUME usage' \in [Tenants -> Nat]
      PROVE  TypeOK'
  <2>1. /\ batch' \in [Replicas -> Seq(Events)]
        /\ \A s \in Replicas : Len(batch'[s]) <= MaxBatch
    <3>1. Len(batch'[r]) <= MaxBatch
      BY <1>3, <1>4
    <3>2. \A s \in Replicas \ {r} : Len(batch'[s]) <= MaxBatch
      BY <1>1, <1>3 DEF TypeOK
    <3>3. batch' \in [Replicas -> Seq(Events)]
      BY <1>1, <1>2, <1>4 DEF TypeOK
    <3> QED
      BY <3>1, <3>2, <3>3
  <2>2. /\ todo' \in [Replicas -> SUBSET Tenants] /\ skipped' \in [Replicas -> SUBSET Tenants]
        /\ loop' \in [Replicas -> {"get", "sleep", "flush", "done"}]
    BY <1>1, <1>2 DEF TypeOK
  <2>3. read' \in [Replicas -> [Tenants -> Nat \cup {None}]]
    BY <1>1, <1>2 DEF TypeOK
  <2>4. lock' \in [Tenants -> Replicas \cup {None}]
    BY <1>1, <1>2 DEF TypeOK
  <2> QED
    BY <1>1, <1>2, <1>5, <1>6, <2>1, <2>2, <2>3, <2>4 DEF TypeOK
<1>7. /\ Range(batch[r]) \subseteq Of(r, {"queued"})
      /\ Range(queue[r]) \ {Stop} = Of(r, {"queued"}) \ Range(batch[r])
      /\ IsInjective(queue[r]) /\ queue[r] \in Seq(Items)
  BY BatchIsQueued
<1>8. \A e \in Range(batch[r]) : e \in Events /\ place'[e] \in Fates
  BY <1>2, <1>7 DEF Of
<1>9. ASSUME NEW s \in Replicas
      PROVE  HeldOnce(s)'
  <2>1. CASE s # r
    <3>1. Of(s, {"queued"})' = Of(s, {"queued"})
      BY <2>1, <1>2, <1>7, <1>8 DEF Of, Fates
    <3> QED
      BY <2>1, <3>1, <1>1, <1>2, <1>3, HeldFrame
  <2>2. CASE s = r
    <3>1. Of(r, {"queued"})' = Of(r, {"queued"}) \ Range(batch[r])
      BY <1>2, <1>8 DEF Of, Fates
    <3>2. Memory(r)' = queue[r]
      BY <1>2, <1>3, <1>7, ConcatEmptySeq DEF Memory
    <3> QED
      BY <2>2, <3>1, <3>2, <1>7, Zenon DEF HeldOnce
  <2> QED
    BY <2>1, <2>2
<1>10. ASSUME NEW s \in Replicas
       PROVE  StopIsLast(s)'
  <2>1. CASE s # r
    BY <2>1, <1>1, <1>2, <1>3, StopFrame
  <2>2. CASE s = r
    <3>1. queue' = queue /\ stopping' = stopping /\ final' = final
      BY <1>2
    <3>2. batch'[r] = <<>> /\ loop'[r] = (IF final[r] THEN "done" ELSE "get")
      BY <1>3
    <3>3. StopIsLast(r) /\ loop[r] \in {"sleep", "flush"} => StopIsLast(r)'
      BY <3>1, <3>2 DEF StopIsLast
    <3> QED
      BY <2>2, <3>3, <1>1
  <2> QED
    BY <2>1, <2>2
<1> QED
  BY <1>6, <1>9, <1>10

(* A transaction that fails stores nothing and leaves the rows alone. *)
LEMMA FailedFlushIInv ==
  ASSUME IInv, NEW r \in Replicas, FlushFails(r) \/ DeadlockDetected(r)
  PROVE  IInv'
<1>1. PICK fate \in [Tenants -> {"dropped", "silent"}] : EndFlush(r, fate)
  BY DEF FlushFails, DeadlockDetected, AllOf
<1>2. loop[r] = "flush" /\ usage' = usage
  BY DEF FlushFails, DeadlockDetected, Waits
<1>3. fate \in [Tenants -> Fates]
  BY DEF Fates
<1>4. TypeOK' /\ \A s \in Replicas : HeldOnce(s)' /\ StopIsLast(s)'
  <2>1. usage' \in [Tenants -> Nat]
    BY <1>2 DEF IInv, TypeOK
  <2> QED
    BY <2>1, <1>1, <1>2, <1>3, EndFlushHeld
<1>5. \A e \in Events : place'[e] = "stored" <=> place[e] = "stored"
  <2>1. Range(batch[r]) \subseteq Of(r, {"queued"})
    BY BatchIsQueued
  <2> QED
    BY <2>1, <1>1, MeteringAssumption DEF EndFlush, Of
<1>6. \A s \in Replicas, t \in Tenants : read'[s][t] # None => read'[s][t] = read[s][t]
  BY <1>1 DEF EndFlush, IInv, TypeOK
<1>7. CountsExact' /\ ReadsAreOld'
  <2>1. fellBack' = fellBack
    BY <1>1 DEF EndFlush
  <2> QED
    BY <2>1, <1>2, <1>5, <1>6, AccountsFrame DEF IInv
<1> QED
  BY <1>4, <1>7 DEF IInv

(* COMMIT adds to each row what the batch adds to the stored deltas. *)
LEMMA CommitIInv ==
  ASSUME IInv, NEW r \in Replicas, CommitFlush(r)
  PROVE  IInv'
<1> USE MeteringAssumption
<1>1. TypeOK /\ CountsExact /\ ReadsAreOld
  BY DEF IInv
<1> DEFINE base(t) == IF read[r][t] = None THEN usage[t] ELSE read[r][t]
           card(t) == Cardinality(Stored(t))
<1>2. /\ loop[r] = "flush" /\ EndFlush(r, Counted(r))
      /\ usage' = [t \in Tenants |-> base(t) + Deltas(r, t)]
  BY DEF CommitFlush
<1>3. /\ Counted(r) \in [Tenants -> Fates]
      /\ \A t \in Tenants : Counted(r)[t] = IF t \in skipped[r] THEN "silent" ELSE "stored"
  BY DEF Counted, Fates
<1>4. /\ Range(batch[r]) \subseteq Of(r, {"queued"})
      /\ batch[r] \in Seq(Events) /\ IsInjective(batch[r])
  BY BatchIsQueued
<1>5. /\ \A e \in Events :
           place'[e] = IF e \in Range(batch[r]) THEN Counted(r)[Tenant[e]] ELSE place[e]
      /\ fellBack' = fellBack
      /\ read' = [read EXCEPT ![r] = [t \in Tenants |-> None]]
  BY <1>2 DEF EndFlush
<1>6. ASSUME NEW t \in Tenants
      PROVE  /\ IsFiniteSet(Stored(t)) /\ card(t) \in Nat
             /\ base(t) \in Nat /\ base(t) <= card(t)
             /\ t \notin fellBack => base(t) = card(t)
  <2>1. IsFiniteSet(Stored(t)) /\ card(t) \in Nat
    BY <1>1, FS_CardinalityType DEF ReadsAreOld
  <2>2. usage[t] \in Nat /\ (read[r][t] # None => read[r][t] \in Nat)
    BY <1>1 DEF TypeOK
  <2>3. usage[t] <= card(t) /\ (t \notin fellBack => usage[t] = card(t))
    BY <1>1 DEF CountsExact
  <2>4. read[r][t] # None => t \in fellBack /\ read[r][t] <= card(t)
    BY <1>1 DEF ReadsAreOld
  <2> QED
    BY <2>1, <2>2, <2>3, <2>4
<1>7. ASSUME NEW t \in Tenants
      PROVE  /\ Deltas(r, t) \in Nat /\ IsFiniteSet(Stored(t)')
             /\ Cardinality(Stored(t)') = card(t) + Deltas(r, t)
  <2>1. CASE t \in skipped[r]
    <3>1. Stored(t)' = Stored(t)
      BY <2>1, <1>3, <1>4, <1>5 DEF Stored, Of
    <3> QED
      BY <2>1, <3>1, <1>6 DEF Deltas
  <2>2. CASE t \notin skipped[r]
    <3> DEFINE I == {i \in DOMAIN batch[r] : Tenant[batch[r][i]] = t}
               B == {e \in Range(batch[r]) : Tenant[e] = t}
    <3>1. Stored(t)' = Stored(t) \cup B
      BY <2>2, <1>3, <1>4, <1>5 DEF Stored, Of
    <3>2. Stored(t) \cap B = {}
      BY <1>4 DEF Stored, Of
    <3>3. IsFiniteSet(I) /\ IsFiniteSet(B) /\ Cardinality(B) = Cardinality(I)
      BY <1>4, DeltasCounted
    <3>4. Deltas(r, t) = Cardinality(I)
      BY <2>2 DEF Deltas
    <3> HIDE DEF I, B
    <3>5. /\ IsFiniteSet(Stored(t) \cup B)
          /\ Cardinality(Stored(t) \cup B) =
               Cardinality(Stored(t)) + Cardinality(B) - Cardinality(Stored(t) \cap B)
      BY <3>3, <1>6, FS_Union
    <3>6. Cardinality(B) \in Nat /\ Cardinality(Stored(t) \cap B) = 0
      BY <3>2, <3>3, FS_CardinalityType, FS_EmptySet
    <3> QED
      BY <3>1, <3>3, <3>4, <3>5, <3>6, <1>6
  <2> QED
    BY <2>1, <2>2
<1> HIDE DEF base, card
<1>8. \A t \in Tenants : usage'[t] = base(t) + Deltas(r, t)
  BY <1>2
<1>9. usage' \in [Tenants -> Nat]
  BY <1>2, <1>6, <1>7
<1>10. TypeOK' /\ \A s \in Replicas : HeldOnce(s)' /\ StopIsLast(s)'
  BY <1>2, <1>3, <1>9, EndFlushHeld
<1>11. CountsExact'
  BY <1>5, <1>6, <1>7, <1>8 DEF CountsExact
<1>12. ReadsAreOld'
  <2> SUFFICES ASSUME NEW t \in Tenants, NEW s \in Replicas, read'[s][t] # None
               PROVE  t \in fellBack' /\ read'[s][t] <= Cardinality(Stored(t)')
    BY <1>7 DEF ReadsAreOld
  <2>1. s # r /\ read'[s][t] = read[s][t]
    BY <1>1, <1>5 DEF TypeOK
  <2>2. read[s][t] \in Nat /\ t \in fellBack /\ read[s][t] <= card(t)
    BY <2>1, <1>1 DEF TypeOK, ReadsAreOld, card
  <2> QED
    BY <2>1, <2>2, <1>5, <1>6, <1>7
<1> QED
  BY <1>10, <1>11, <1>12 DEF IInv

(* Stop is put behind everything that was queued. *)
LEMMA StopQueueIInv ==
  ASSUME IInv, NEW r \in Replicas, StopQueue(r)
  PROVE  IInv'
<1> USE MeteringAssumption
<1>1. TypeOK /\ CountsExact /\ ReadsAreOld /\ \A s \in Replicas : HeldOnce(s) /\ StopIsLast(s)
  BY DEF IInv
<1>2. /\ stopping[r] = "no" /\ Len(queue[r]) < QueueSize
      /\ queue' = [queue EXCEPT ![r] = Append(@, Stop)]
      /\ stopping' = [stopping EXCEPT ![r] = "wait"]
      /\ UNCHANGED <<place, home, loop, batch, final, todo, skipped, read, lock, usage, fellBack>>
  BY DEF StopQueue
<1>3. queue[r] \in Seq(Items) /\ batch[r] \in Seq(Events) /\ Len(queue[r]) \in Nat
  BY <1>1, LenProperties DEF TypeOK, Items
<1>4. /\ queue'[r] = Append(queue[r], Stop) /\ stopping'[r] = "wait"
      /\ \A s \in Replicas \ {r} : queue'[s] = queue[s] /\ stopping'[s] = stopping[s]
  BY <1>1, <1>2 DEF TypeOK
<1>5. /\ Append(queue[r], Stop) \in Seq(Items)
      /\ Len(Append(queue[r], Stop)) = Len(queue[r]) + 1
      /\ \A i \in 1..Len(queue[r]) : Append(queue[r], Stop)[i] = queue[r][i]
  BY <1>3, AppendProperties DEF Items
<1>6. \A i \in 1..Len(queue[r]) : queue[r][i] # Stop
  BY <1>1, <1>2 DEF StopIsLast
<1>7. TypeOK'
  <2>1. queue' \in [Replicas -> Seq(Items)]
    BY <1>1, <1>2, <1>5 DEF TypeOK, Items
  <2>2. \A s \in Replicas : Len(queue'[s]) <= QueueSize
    <3>1. Len(queue'[r]) <= QueueSize
      BY <1>2, <1>3, <1>4, <1>5
    <3>2. \A s \in Replicas \ {r} : Len(queue'[s]) <= QueueSize
      BY <1>1, <1>4 DEF TypeOK
    <3> QED
      BY <3>1, <3>2
  <2>3. stopping' \in [Replicas -> {"no", "wait", "done"}]
    BY <1>1, <1>2 DEF TypeOK
  <2> QED
    BY <2>1, <2>2, <2>3, <1>1, <1>2 DEF TypeOK, Items
<1>8. ASSUME NEW s \in Replicas
      PROVE  HeldOnce(s)'
  <2>1. Of(s, {"queued"})' = Of(s, {"queued"})
    BY <1>2 DEF Of
  <2>2. CASE s # r
    BY <2>1, <2>2, <1>1, <1>2, <1>4, HeldFrame
  <2>3. CASE s = r
    <3>1. Memory(r) = batch[r] \o queue[r]
      BY DEF Memory
    <3>2. Memory(r)' = batch[r] \o Append(queue[r], Stop)
      BY <1>2, <1>4, Zenon DEF Memory
    <3>3. Range(Memory(r)) \ {Stop} = Of(r, {"queued"}) /\ IsInjective(Memory(r))
      BY <1>1 DEF HeldOnce
    <3>4. Stop \notin Range(Memory(r))
      <4>1. Range(Memory(r)) = Range(batch[r]) \cup Range(queue[r]) /\ Range(batch[r]) \subseteq Events
        <5>1. IsInjective(batch[r] \o queue[r])
          BY <3>1, <3>3, Zenon
        <5>2. /\ Range(batch[r] \o queue[r]) = Range(batch[r]) \cup Range(queue[r])
              /\ Range(batch[r]) \subseteq Events
          BY <5>1, <1>3, MemorySplits, Zenon
        <5> QED
          BY <3>1, <5>2, Zenon
      <4>2. Stop \notin Range(queue[r])
        <5>1. DOMAIN queue[r] = 1..Len(queue[r])
          BY <1>3, LenProperties
        <5> QED
          BY <5>1, <1>6 DEF Range
      <4> QED
        BY <4>1, <4>2
    <3>5. /\ Range(batch[r] \o Append(queue[r], Stop)) = Range(batch[r] \o queue[r]) \cup {Stop}
          /\ IsInjective(batch[r] \o queue[r]) /\ Stop \notin Range(batch[r] \o queue[r])
               => IsInjective(batch[r] \o Append(queue[r], Stop))
      <4>1. Stop \in Items
        BY DEF Items
      <4> QED
        BY <4>1, <1>3, AppendKeeps, Zenon
    <3>6. Range(Memory(r)') = Range(Memory(r)) \cup {Stop} /\ IsInjective(Memory(r)')
      BY <3>1, <3>2, <3>3, <3>4, <3>5, Zenon
    <3> QED
      BY <2>1, <2>3, <3>3, <3>6 DEF HeldOnce
  <2> QED
    BY <2>2, <2>3
<1>9. ASSUME NEW s \in Replicas
      PROVE  StopIsLast(s)'
  <2>1. CASE s # r
    BY <2>1, <1>1, <1>2, <1>4, StopFrame
  <2>2. CASE s = r
    <3>1. \A i \in 1..Len(queue'[r]) : queue'[r][i] = Stop => i = Len(queue'[r])
      BY <1>3, <1>4, <1>5, <1>6
    <3>2. ~(loop[r] = "done" \/ final[r]) /\ (loop[r] \in {"get", "done"} => batch[r] = <<>>)
      BY <1>1, <1>2 DEF StopIsLast
    <3> QED
      BY <2>2, <3>1, <3>2, <1>2, <1>4 DEF StopIsLast
  <2> QED
    BY <2>1, <2>2
<1>10. CountsExact' /\ ReadsAreOld'
  BY <1>1, <1>2, AccountsFrame
<1> QED
  BY <1>7, <1>8, <1>9, <1>10 DEF IInv

(* stop() returns when the loop has ended. *)
LEMMA StoppedIInv ==
  ASSUME IInv, NEW r \in Replicas, Stopped(r)
  PROVE  IInv'
<1>1. TypeOK /\ CountsExact /\ ReadsAreOld /\ \A s \in Replicas : HeldOnce(s) /\ StopIsLast(s)
  BY DEF IInv
<1>2. /\ stopping[r] = "wait" /\ loop[r] = "done"
      /\ stopping' = [stopping EXCEPT ![r] = "done"]
      /\ UNCHANGED <<place, home, queue, loop, batch, final, todo, skipped, read, lock, usage,
                     fellBack>>
  BY DEF Stopped
<1>3. TypeOK'
  BY <1>1, <1>2 DEF TypeOK
<1>4. ASSUME NEW s \in Replicas
      PROVE  HeldOnce(s)'
  <2>1. Of(s, {"queued"})' = Of(s, {"queued"})
    BY <1>2 DEF Of
  <2> QED
    BY <2>1, <1>1, <1>2, HeldFrame
<1>5. ASSUME NEW s \in Replicas
      PROVE  StopIsLast(s)'
  <2>1. CASE s # r
    <3>1. stopping'[s] = stopping[s]
      BY <2>1, <1>1, <1>2 DEF TypeOK
    <3> QED
      BY <3>1, <1>1, <1>2, StopFrame
  <2>2. CASE s = r
    <3>1. stopping'[r] = "done"
      BY <1>1, <1>2 DEF TypeOK
    <3>2. queue[r] = <<>> /\ Len(<<>>) = 0
      BY <1>1, <1>2, EmptySeq DEF StopIsLast
    <3> QED
      BY <2>2, <3>1, <3>2, <1>1, <1>2 DEF StopIsLast
  <2> QED
    BY <2>1, <2>2
<1>6. CountsExact' /\ ReadsAreOld'
  BY <1>1, <1>2, AccountsFrame
<1> QED
  BY <1>3, <1>4, <1>5, <1>6 DEF IInv

(* A crash forgets what the replica held and nothing else. *)
LEMMA CrashIInv ==
  ASSUME IInv, NEW r \in Replicas, Crash(r)
  PROVE  IInv'
<1> USE MeteringAssumption
<1>1. TypeOK /\ CountsExact /\ ReadsAreOld /\ \A s \in Replicas : HeldOnce(s) /\ StopIsLast(s)
  BY DEF IInv
<1>2. /\ place' = [e \in Events |-> IF e \in Of(r, Held) THEN "dropped" ELSE place[e]]
      /\ queue' = [queue EXCEPT ![r] = <<>>]
      /\ loop' = [loop EXCEPT ![r] = "get"]
      /\ batch' = [batch EXCEPT ![r] = <<>>]
      /\ final' = [final EXCEPT ![r] = FALSE]
      /\ todo' = [todo EXCEPT ![r] = {}]
      /\ skipped' = [skipped EXCEPT ![r] = {}]
      /\ lock' = [t \in Tenants |-> IF lock[t] = r THEN None ELSE lock[t]]
      /\ read' = [read EXCEPT ![r] = [t \in Tenants |-> None]]
      /\ stopping' = [stopping EXCEPT ![r] = "no"]
      /\ UNCHANGED <<home, usage, fellBack>>
  BY DEF Crash, Become
<1>3. /\ queue'[r] = <<>> /\ batch'[r] = <<>> /\ loop'[r] = "get" /\ final'[r] = FALSE
      /\ stopping'[r] = "no"
      /\ \A s \in Replicas \ {r} :
           /\ queue'[s] = queue[s] /\ batch'[s] = batch[s] /\ loop'[s] = loop[s]
           /\ final'[s] = final[s] /\ stopping'[s] = stopping[s]
  BY <1>1, <1>2 DEF TypeOK
<1>4. \A S : Len(<<>>) = 0 /\ <<>> \in Seq(S)
  BY EmptySeq
<1>5. TypeOK'
  <2>1. /\ queue' \in [Replicas -> Seq(Items)] /\ batch' \in [Replicas -> Seq(Events)]
    BY <1>1, <1>2, <1>4 DEF TypeOK, Items
  <2>2. Len(queue'[r]) <= QueueSize /\ Len(batch'[r]) <= MaxBatch
    BY <1>3, <1>4
  <2>3. \A s \in Replicas \ {r} : Len(queue'[s]) <= QueueSize /\ Len(batch'[s]) <= MaxBatch
    BY <1>1, <1>3 DEF TypeOK
  <2>4. place' \in [Events -> {"new"} \cup Held \cup Fates]
    BY <1>1, <1>2 DEF TypeOK, Fates
  <2>5. read' \in [Replicas -> [Tenants -> Nat \cup {None}]]
    BY <1>1, <1>2 DEF TypeOK
  <2>6. /\ lock' \in [Tenants -> Replicas \cup {None}]
        /\ todo' \in [Replicas -> SUBSET Tenants] /\ skipped' \in [Replicas -> SUBSET Tenants]
        /\ loop' \in [Replicas -> {"get", "sleep", "flush", "done"}]
        /\ final' \in [Replicas -> BOOLEAN]
        /\ stopping' \in [Replicas -> {"no", "wait", "done"}]
    BY <1>1, <1>2 DEF TypeOK
  <2>7. \A s \in Replicas : Len(queue'[s]) <= QueueSize /\ Len(batch'[s]) <= MaxBatch
    BY <2>2, <2>3
  <2> QED
    BY <2>1, <2>4, <2>5, <2>6, <2>7, <1>1, <1>2 DEF TypeOK, Items
<1>6. ASSUME NEW s \in Replicas
      PROVE  HeldOnce(s)'
  <2>1. CASE s # r
    <3>1. Of(s, {"queued"})' = Of(s, {"queued"})
      BY <2>1, <1>2 DEF Of
    <3> QED
      BY <2>1, <3>1, <1>1, <1>3, HeldFrame
  <2>2. CASE s = r
    <3>1. Of(r, {"queued"})' = {}
      BY <1>2 DEF Of, Held
    <3>2. Memory(r)' = <<>>
      BY <1>3, <1>4, ConcatEmptySeq DEF Memory
    <3>3. Range(<<>>) = {} /\ IsInjective(<<>>)
      BY <1>4 DEF Range, IsInjective
    <3> QED
      BY <2>2, <3>1, <3>2, <3>3 DEF HeldOnce
  <2> QED
    BY <2>1, <2>2
<1>7. ASSUME NEW s \in Replicas
      PROVE  StopIsLast(s)'
  <2>1. CASE s # r
    BY <2>1, <1>1, <1>3, StopFrame
  <2>2. CASE s = r
    BY <2>2, <1>3, <1>4 DEF StopIsLast
  <2> QED
    BY <2>1, <2>2
<1>8. \A e \in Events : place'[e] = "stored" <=> place[e] = "stored"
  BY <1>2 DEF Of, Held
<1>9. \A s \in Replicas, t \in Tenants : read'[s][t] # None => read'[s][t] = read[s][t]
  BY <1>1, <1>2 DEF TypeOK
<1>10. CountsExact' /\ ReadsAreOld'
  BY <1>1, <1>2, <1>8, <1>9, AccountsFrame
<1> QED
  BY <1>5, <1>6, <1>7, <1>10 DEF IInv

-----------------------------------------------------------------------------
(* IInv is an invariant of the metering. *)
THEOREM InductiveInvariant == Spec => []IInv
<1>1. Init => IInv
  BY InitIInv
<1>2. IInv /\ [Next]_vars => IInv'
  <2> SUFFICES ASSUME IInv, [Next]_vars
               PROVE  IInv'
    OBVIOUS
  <2>1. CASE UNCHANGED vars
    <3>1. TypeOK'
      BY <2>1 DEF vars, IInv, TypeOK
    <3> QED
      BY <2>1, <3>1, QuietIInv DEF vars
  <2>2. ASSUME NEW r \in Replicas, NEW e \in Events, RecordUsage(r, e) \/ Direct(r, e)
        PROVE  IInv'
    BY <2>2, RecordIInv, DirectIInv
  <2>3. ASSUME NEW r \in Replicas, Get(r) \/ Wake(r)
        PROVE  IInv'
    BY <2>3, GetIInv, WakeIInv
  <2>4. ASSUME NEW r \in Replicas, Flush(r) \/ Outage(r)
        PROVE  IInv'
    BY <2>4, UpsertIInv, FallbackIInv, CommitIInv, FailedFlushIInv DEF Flush, Outage
  <2>5. ASSUME NEW r \in Replicas, StopQueue(r) \/ Stopped(r) \/ Crash(r)
        PROVE  IInv'
    BY <2>5, StopQueueIInv, StoppedIInv, CrashIInv
  <2> QED
    BY <2>1, <2>2, <2>3, <2>4, <2>5 DEF Next
<1> QED
  BY <1>1, <1>2, PTL DEF Spec

(* usage_daily holds the number of the stored deltas of each tenant, and never
   more than that where a flush wrote a row back (record_usage, _flush_loop,
   UsageRepository.increment). *)
THEOREM CountsAreExact == Spec => []CountsExact
<1>1. IInv => CountsExact
  BY DEF IInv
<1> QED
  BY <1>1, InductiveInvariant, PTL

(* Every queued delta is in its replica's memory, once, until its fate is known,
   and a stop() that has returned leaves none behind. *)
THEOREM NoDeltaMislaid == Spec => []NothingMislaid
<1>1. IInv => NothingMislaid
  <2> SUFFICES ASSUME IInv, NEW r \in Replicas, stopping[r] = "done"
               PROVE  Memory(r) = <<>>
    BY DEF IInv, NothingMislaid
  <2>1. batch[r] = <<>> /\ queue[r] = <<>>
    BY DEF IInv, StopIsLast
  <2>2. <<>> \in Seq(Items)
    BY EmptySeq
  <2> QED
    BY <2>1, <2>2, ConcatEmptySeq DEF Memory
<1> QED
  BY <1>1, InductiveInvariant, PTL
=============================================================================
