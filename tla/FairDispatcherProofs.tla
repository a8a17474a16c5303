-------------------------- MODULE FairDispatcherProofs --------------------------
(***************************************************************************)
(* FairDispatcher's safety for any households, any calls and any limits.   *)
(***************************************************************************)
EXTENDS FairDispatcher, FiniteSetTheorems, TLAPS

-----------------------------------------------------------------------------
(* The inductive invariant *)

Waits(c) == call[c].state = "waiting"

Waiting == {c \in Call : Waits(c)}

\* The types of what is neither in the lanes nor in the turn order.
ScalarInv ==
  /\ queued \in Nat /\ inFlight \in Nat
  /\ tokens \in 0..Burst /\ paused \in 0..MaxRetryAfter
  /\ asleep \in BOOLEAN /\ wakeIn \in Nat /\ pumping \in BOOLEAN
  /\ call \in [Call -> Job]
  /\ hung \subseteq Call

\* Each lane holds the calls of its household that wait, once each.
LaneInv ==
  /\ waiting \in [Household -> Seq(Call)]
  /\ \A h \in Household : \A k \in 1 .. Len(waiting[h]) : Lane(waiting[h][k]) = h /\ Waits(waiting[h][k])
  /\ \A h \in Household : \A j, k \in 1 .. Len(waiting[h]) : waiting[h][j] = waiting[h][k] => j = k
  /\ \A c \in Call : Waits(c) => \E k \in 1 .. Len(waiting[Lane(c)]) : waiting[Lane(c)][k] = c

\* The turn order holds the lanes that are not empty, once each.
TurnInv ==
  /\ lanes \in Seq(Household)
  /\ \A h \in Household : (\E k \in 1 .. Len(lanes) : lanes[k] = h) <=> waiting[h] # <<>>
  /\ \A j, k \in 1 .. Len(lanes) : lanes[j] = lanes[k] => j = k

\* Those before a lane in the turn order are those that may still start a call before its next.
AheadInv ==
  /\ ahead \in [Household -> SUBSET Household]
  /\ \A j, k \in 1 .. Len(lanes) : j < k => lanes[j] \in ahead[lanes[k]]

\* The counters count the jobs.
CountInv ==
  /\ IsFiniteSet(Flying) /\ inFlight = Cardinality(Flying) /\ inFlight <= MaxInFlight
  /\ IsFiniteSet(Waiting) /\ queued = Cardinality(Waiting)
  /\ QueueBounds

IInv == ScalarInv /\ LaneInv /\ TurnInv /\ AheadInv /\ CountInv /\ NoLostWakeup

-----------------------------------------------------------------------------
(* Sequences *)

\* What is left of a sequence without one of its elements.
LEMMA Removed ==
  ASSUME NEW S, NEW s \in Seq(S), NEW i \in 1 .. Len(s)
  PROVE  /\ RemoveAt(s, i) \in Seq(S) /\ Len(RemoveAt(s, i)) = Len(s) - 1
         /\ \A j \in 1 .. Len(s) - 1 : RemoveAt(s, i)[j] = IF j < i THEN s[j] ELSE s[j + 1]
<1> DEFINE front == SubSeq(s, 1, i - 1)
           back == SubSeq(s, i + 1, Len(s))
<1>1. /\ front \in Seq(S) /\ Len(front) = i - 1
      /\ \A j \in 1 .. i - 1 : front[j] = s[j]
  OBVIOUS
<1>2. /\ back \in Seq(S) /\ Len(back) = Len(s) - i
      /\ \A j \in 1 .. Len(s) - i : back[j] = s[i + j]
  OBVIOUS
<1>3. RemoveAt(s, i) = front \o back
  BY DEF RemoveAt
<1>. HIDE DEF front, back
<1>4. front \o back \in Seq(S) /\ Len(front \o back) = Len(s) - 1
  BY <1>1, <1>2
<1>5. ASSUME NEW j \in 1 .. Len(s) - 1
      PROVE  (front \o back)[j] = IF j < i THEN s[j] ELSE s[j + 1]
  <2>1. CASE j < i
    BY <1>1, <1>2, <2>1
  <2>2. CASE ~(j < i)
    <3>1. (front \o back)[j] = back[j - (i - 1)]
      BY <1>1, <1>2, <2>2
    <3>2. j - (i - 1) \in 1 .. Len(s) - i
      BY <2>2
    <3>3. back[j - (i - 1)] = s[i + (j - (i - 1))]
      BY <1>2, <3>2
    <3>4. i + (j - (i - 1)) = j + 1
      OBVIOUS
    <3>. QED
      BY <2>2, <3>1, <3>3, <3>4
  <2>. QED
    BY <2>1, <2>2
<1>. QED
  BY <1>3, <1>4, <1>5

\* t is s without its element at i.
Without(s, i, t) ==
  /\ Len(t) = Len(s) - 1
  /\ \A j \in 1 .. Len(s) - 1 : t[j] = IF j < i THEN s[j] ELSE s[j + 1]

Distinct(s) == \A j, k \in 1 .. Len(s) : s[j] = s[k] => j = k

\* The others are still there, once each if they were, in their order.
Keeps(s, i, t) ==
  /\ \A k \in 1 .. Len(t) : \E j \in 1 .. Len(s) : j # i /\ t[k] = s[j]
  /\ \A j \in 1 .. Len(s) : j # i => \E k \in 1 .. Len(t) : t[k] = s[j]
  /\ \A k, l \in 1 .. Len(t) : k < l =>
       \E m, n \in 1 .. Len(s) : m < n /\ t[k] = s[m] /\ t[l] = s[n] /\ n # i /\ m # i
  /\ Distinct(s) => Distinct(t)

\* What is left when one place of a sequence is taken out keeps its order.
LEMMA WithoutKeeps ==
  ASSUME NEW S, NEW s \in Seq(S), NEW i \in 1 .. Len(s), NEW t \in Seq(S), Without(s, i, t)
  PROVE  Keeps(s, i, t)
<1> DEFINE at(k) == IF k < i THEN k ELSE k + 1
<1>1. /\ Len(s) \in Nat /\ i \in Nat /\ i >= 1 /\ i <= Len(s) /\ Len(t) = Len(s) - 1
      /\ \A k \in 1 .. Len(t) : at(k) \in 1 .. Len(s) /\ at(k) # i /\ t[k] = s[at(k)]
      /\ \A k, l \in 1 .. Len(t) : (k < l <=> at(k) < at(l)) /\ (at(k) = at(l) => k = l)
  BY DEF Without
<1>2. ASSUME NEW j \in 1 .. Len(s), j # i PROVE \E k \in 1 .. Len(t) : at(k) = j
  <2>1. CASE j < i
    BY <1>1, <2>1
  <2>2. CASE j > i
    <3>1. j - 1 \in 1 .. Len(t) /\ at(j - 1) = j
      BY <1>1, <2>2
    <3>. QED
      BY <3>1
  <2>. QED
    BY <1>1, <1>2, <2>1, <2>2
<1>. HIDE DEF at
<1>. QED
  BY <1>1, <1>2 DEF Keeps, Distinct

\* The head of a sequence is the element Tail takes away.
LEMMA TailWithout ==
  ASSUME NEW S, NEW s \in Seq(S), s # <<>>
  PROVE  Tail(s) \in Seq(S) /\ Without(s, 1, Tail(s)) /\ Head(s) = s[1] /\ Head(s) \in S /\ 1 \in 1 .. Len(s)
<1>. QED
  BY DEF Without

\* RemoveAt takes out one place.
LEMMA RemovedWithout ==
  ASSUME NEW S, NEW s \in Seq(S), NEW i \in 1 .. Len(s)
  PROVE  RemoveAt(s, i) \in Seq(S) /\ Without(s, i, RemoveAt(s, i))
<1>. QED
  BY Removed DEF Without

\* t is s and c.
With(s, c, t) ==
  /\ Len(t) = Len(s) + 1
  /\ \A k \in 1 .. Len(t) : t[k] = c \/ \E j \in 1 .. Len(s) : t[k] = s[j]
  /\ \E k \in 1 .. Len(t) : t[k] = c
  /\ \A j \in 1 .. Len(s) : \E k \in 1 .. Len(t) : t[k] = s[j]
  /\ Distinct(s) /\ (\A m \in 1 .. Len(s) : s[m] # c) => Distinct(t)

\* One call more at the front or the end keeps the others in order.
LEMMA Added ==
  ASSUME NEW S, NEW s \in Seq(S), NEW c \in S, NEW t, t = <<c>> \o s \/ t = Append(s, c)
  PROVE  t \in Seq(S) /\ With(s, c, t)
<1>0. Len(s) \in Nat
  OBVIOUS
<1>1. CASE t = <<c>> \o s
  <2>1. /\ t \in Seq(S) /\ Len(t) = Len(s) + 1 /\ t[1] = c
        /\ \A j \in 1 .. Len(s) : j + 1 \in 1 .. Len(t) /\ t[j + 1] = s[j]
    BY <1>1
  <2>2. 1 \in 1 .. Len(t) /\ \A k \in 1 .. Len(t) : k = 1 \/ (k - 1 \in 1 .. Len(s) /\ t[k] = s[k - 1])
    BY <1>0, <2>1
  <2>3. ASSUME Distinct(s), \A m \in 1 .. Len(s) : s[m] # c,
               NEW k \in 1 .. Len(t), NEW l \in 1 .. Len(t), t[k] = t[l]
        PROVE  k = l
    <3>1. k = 1 \/ (k - 1 \in 1 .. Len(s) /\ t[k] = s[k - 1])
      BY <2>2
    <3>2. l = 1 \/ (l - 1 \in 1 .. Len(s) /\ t[l] = s[l - 1])
      BY <2>2
    <3>3. CASE k # 1 /\ l # 1
      <4>1. k - 1 = l - 1
        BY <2>3, <3>1, <3>2, <3>3 DEF Distinct
      <4>. QED
        BY <4>1
    <3>4. CASE k = 1 \/ l = 1
      <4>1. t[1] = c
        BY <2>1
      <4>2. k = 1 <=> l = 1
        BY <2>3, <3>1, <3>2, <3>4, <4>1
      <4>. QED
        BY <3>4, <4>2
    <3>. QED
      BY <3>3, <3>4
  <2>4. \A k \in 1 .. Len(t) : t[k] = c \/ \E j \in 1 .. Len(s) : t[k] = s[j]
    BY <2>1, <2>2
  <2>5. \A j \in 1 .. Len(s) : \E k \in 1 .. Len(t) : t[k] = s[j]
    BY <2>1
  <2>. QED
    BY <2>1, <2>2, <2>3, <2>4, <2>5 DEF With, Distinct
<1>2. CASE t = Append(s, c)
  <2>1. /\ t \in Seq(S) /\ Len(t) = Len(s) + 1 /\ t[Len(s) + 1] = c
        /\ \A j \in 1 .. Len(s) : j \in 1 .. Len(t) /\ t[j] = s[j]
    BY <1>2
  <2>2. \A k \in 1 .. Len(t) : k = Len(s) + 1 \/ k \in 1 .. Len(s)
    BY <1>0, <2>1
  <2>. QED
    BY <1>0, <2>1, <2>2 DEF With, Distinct
<1>. QED
  BY <1>1, <1>2

-----------------------------------------------------------------------------
(* The lanes and their turns *)

\* A call joins its lane, first or last, and the lane joins the turn order if nothing waited in it.
LEMMA EnqueueKeeps ==
  ASSUME LaneAssumption, LaneInv, TurnInv, AheadInv, NEW c \in Call, NEW first \in BOOLEAN, ~Waits(c), Enqueue(c, first),
         Waits(c)', \A d \in Call \ {c} : Waits(d)' = Waits(d)
  PROVE  /\ LaneInv' /\ TurnInv' /\ AheadInv'
         /\ Len(waiting'[Lane(c)]) = Len(waiting[Lane(c)]) + 1
         /\ \A h \in Household \ {Lane(c)} : waiting'[h] = waiting[h]
<1> DEFINE h == Lane(c)
           s == waiting[h]
           t == waiting'[h]
<1>1. h \in Household /\ s \in Seq(Call)
  BY DEF LaneInv, LaneAssumption, Lane
<1>2. (t = <<c>> \o s \/ t = Append(s, c)) /\ \A g \in Household \ {h} : waiting'[g] = waiting[g]
  BY <1>1 DEF LaneInv, Enqueue
<1>. HIDE DEF s, t
<1>3. t \in Seq(Call) /\ With(s, c, t)
  BY <1>1, <1>2, Added
<1>4. Distinct(s) /\ \A m \in 1 .. Len(s) : s[m] # c /\ s[m] \in Call /\ Lane(s[m]) = h /\ Waits(s[m])
  BY <1>1 DEF LaneInv, Distinct, s
<1>5. waiting' \in [Household -> Seq(Call)]
  <2>1. waiting' = [waiting EXCEPT ![h] = t]
    BY <1>1 DEF LaneInv, Enqueue, t
  <2>. QED
    BY <1>3, <2>1 DEF LaneInv
<1>6. ASSUME NEW g \in Household
      PROVE  /\ \A k \in 1 .. Len(waiting'[g]) : Lane(waiting'[g][k]) = g /\ Waits(waiting[g][k])'
             /\ \A j, k \in 1 .. Len(waiting'[g]) : waiting'[g][j] = waiting'[g][k] => j = k
  <2>1. CASE g = h
    <3>1. Distinct(t)
      BY <1>3, <1>4 DEF With
    <3>2. \A m \in 1 .. Len(s) : call'[s[m]].state = "waiting"
      BY <1>4 DEF Waits
    <3>3. \A k \in 1 .. Len(t) : Lane(t[k]) = h /\ call'[t[k]].state = "waiting"
      BY <1>3, <1>4, <3>2 DEF Waits, With
    <3>. QED
      BY <2>1, <3>1, <3>3 DEF t, Waits, Distinct
  <2>2. CASE g # h
    <3>1. waiting'[g] = waiting[g]
      BY <1>2, <2>2
    <3>2. \A k \in 1 .. Len(waiting[g]) : waiting[g][k] \in Call \ {c} /\ Lane(waiting[g][k]) = g /\ Waits(waiting[g][k])
      BY <2>2 DEF LaneInv
    <3>3. \A k \in 1 .. Len(waiting[g]) : call'[waiting[g][k]].state = "waiting"
      BY <3>2 DEF Waits
    <3>. QED
      BY <3>1, <3>2, <3>3 DEF LaneInv, Waits
  <2>. QED
    BY <2>1, <2>2
<1>7. ASSUME NEW d \in Call, Waits(d)' PROVE \E k \in 1 .. Len(waiting'[Lane(d)]) : waiting'[Lane(d)][k] = d
  <2>1. CASE d = c
    BY <1>3, <2>1 DEF With, t
  <2>2. CASE d # c
    <3>1. Waits(d) /\ Lane(d) \in Household
      BY <1>7, <2>2 DEF LaneAssumption, Lane
    <3>2. PICK k \in 1 .. Len(waiting[Lane(d)]) : waiting[Lane(d)][k] = d
      BY <3>1 DEF LaneInv
    <3>3. CASE Lane(d) = h
      BY <1>3, <3>2, <3>3 DEF With, s, t
    <3>4. CASE Lane(d) # h
      BY <1>2, <3>1, <3>2, <3>4
    <3>. QED
      BY <3>3, <3>4
  <2>. QED
    BY <2>1, <2>2
<1>8. LaneInv'
  BY <1>5, <1>6, <1>7 DEF LaneInv
<1>9. t # <<>>
  BY <1>1, <1>3 DEF With
<1>10. TurnInv' /\ AheadInv'
  <2>1. CASE s # <<>>
    <3>1. UNCHANGED <<lanes, ahead>>
      BY <2>1 DEF Enqueue, s
    <3>2. \A g \in Household : waiting'[g] # <<>> <=> waiting[g] # <<>>
      BY <1>2, <1>9, <2>1 DEF s, t
    <3>. QED
      BY <3>1, <3>2 DEF TurnInv, AheadInv
  <2>2. CASE s = <<>>
    <3>1. lanes' = Append(lanes, h) /\ ahead' = [ahead EXCEPT ![h] = LaneSet]
      BY <2>2 DEF Enqueue, JoinLast, s
    <3>2. \A k \in 1 .. Len(lanes) : lanes[k] # h /\ lanes[k] \in Household
      BY <1>1, <2>2 DEF TurnInv, s
    <3>3. /\ lanes' \in Seq(Household) /\ Len(lanes') = Len(lanes) + 1 /\ lanes'[Len(lanes) + 1] = h
          /\ \A k \in 1 .. Len(lanes) : lanes'[k] = lanes[k]
          /\ Len(lanes) \in Nat
      BY <1>1, <3>1 DEF TurnInv
    <3>4. \A k \in 1 .. Len(lanes') : k = Len(lanes) + 1 \/ k \in 1 .. Len(lanes)
      BY <3>3
    <3>5. \A j, k \in 1 .. Len(lanes') : lanes'[j] = lanes'[k] => j = k
      BY <3>2, <3>3, <3>4 DEF TurnInv
    <3>6. ASSUME NEW g \in Household PROVE (\E k \in 1 .. Len(lanes') : lanes'[k] = g) <=> waiting'[g] # <<>>
      <4>1. CASE g = h
        BY <1>9, <3>3, <4>1 DEF t
      <4>2. CASE g # h
        <5>1. (\E k \in 1 .. Len(lanes') : lanes'[k] = g) <=> \E k \in 1 .. Len(lanes) : lanes[k] = g
          BY <3>3, <3>4, <4>2
        <5>. QED
          BY <1>2, <4>2, <5>1 DEF TurnInv
      <4>. QED
        BY <4>1, <4>2
    <3>7. TurnInv'
      BY <3>3, <3>5, <3>6 DEF TurnInv
    <3>8. LaneSet \subseteq Household /\ \A k \in 1 .. Len(lanes) : lanes[k] \in LaneSet
      BY <3>2, <3>3 DEF LaneSet, TurnInv
    <3>9. /\ ahead' \in [Household -> SUBSET Household] /\ ahead'[h] = LaneSet
          /\ \A g \in Household \ {h} : ahead'[g] = ahead[g]
      BY <1>1, <3>1, <3>8 DEF AheadInv
    <3>10. ASSUME NEW j \in 1 .. Len(lanes'), NEW k \in 1 .. Len(lanes'), j < k PROVE lanes'[j] \in ahead'[lanes'[k]]
      <4>1. j \in 1 .. Len(lanes)
        BY <3>3, <3>10
      <4>2. CASE k = Len(lanes) + 1
        BY <3>3, <3>8, <3>9, <4>1, <4>2
      <4>3. CASE k \in 1 .. Len(lanes)
        BY <3>2, <3>3, <3>9, <3>10, <4>1, <4>3 DEF AheadInv
      <4>. QED
        BY <3>4, <4>2, <4>3
    <3>. QED
      BY <3>7, <3>9, <3>10 DEF AheadInv
  <2>. QED
    BY <2>1, <2>2
<1>. QED
  BY <1>2, <1>3, <1>8, <1>10 DEF With, s, t

\* A call leaves its lane.
LEMMA LaneWithout ==
  ASSUME LaneAssumption, LaneInv, NEW h \in Household, NEW i \in 1 .. Len(waiting[h]), NEW t \in Seq(Call),
         Without(waiting[h], i, t), waiting' = [waiting EXCEPT ![h] = t],
         NEW c \in Call, c = waiting[h][i], ~Waits(c)', \A d \in Call \ {c} : Waits(d)' = Waits(d)
  PROVE  LaneInv' /\ waiting'[h] = t /\ \A g \in Household \ {h} : waiting'[g] = waiting[g]
<1> DEFINE s == waiting[h]
<1>1. s \in Seq(Call) /\ c = s[i] /\ Lane(c) = h /\ Waits(c)
  BY DEF LaneInv
<1>2. waiting' \in [Household -> Seq(Call)] /\ waiting'[h] = t /\ \A g \in Household \ {h} : waiting'[g] = waiting[g]
  BY DEF LaneInv
<1>3. Distinct(s) /\ \A m \in 1 .. Len(s) : s[m] \in Call /\ Lane(s[m]) = h /\ Waits(s[m])
  BY <1>1 DEF LaneInv, Distinct
<1>. HIDE DEF s
<1>4. Keeps(s, i, t)
  BY <1>1, WithoutKeeps DEF s
<1>5. \A k \in 1 .. Len(t) : t[k] \in Call \ {c} /\ Lane(t[k]) = h /\ Waits(t[k])
  BY <1>1, <1>3, <1>4 DEF Keeps, Distinct, s
<1>6. ASSUME NEW g \in Household
      PROVE  /\ \A k \in 1 .. Len(waiting'[g]) : Lane(waiting'[g][k]) = g /\ Waits(waiting[g][k])'
             /\ \A j, k \in 1 .. Len(waiting'[g]) : waiting'[g][j] = waiting'[g][k] => j = k
  <2>1. CASE g = h
    <3>1. \A k \in 1 .. Len(t) : call'[t[k]].state = "waiting"
      BY <1>5 DEF Waits, s
    <3>2. Distinct(t)
      BY <1>3, <1>4 DEF Keeps
    <3>. QED
      BY <1>2, <1>5, <2>1, <3>1, <3>2 DEF Waits, Distinct
  <2>2. CASE g # h
    <3>1. waiting'[g] = waiting[g]
      BY <1>2, <2>2
    <3>2. \A k \in 1 .. Len(waiting[g]) : waiting[g][k] \in Call \ {c} /\ Lane(waiting[g][k]) = g /\ Waits(waiting[g][k])
      BY <1>1, <2>2 DEF LaneInv, s
    <3>3. \A k \in 1 .. Len(waiting[g]) : call'[waiting[g][k]].state = "waiting"
      BY <3>2 DEF Waits, s
    <3>4. \A j, k \in 1 .. Len(waiting[g]) : waiting[g][j] = waiting[g][k] => j = k
      BY DEF LaneInv
    <3>. QED
      BY <3>1, <3>2, <3>3, <3>4 DEF Waits
  <2>. QED
    BY <2>1, <2>2
<1>7. ASSUME NEW d \in Call, Waits(d)' PROVE \E k \in 1 .. Len(waiting'[Lane(d)]) : waiting'[Lane(d)][k] = d
  <2>1. Waits(d) /\ d # c
    BY <1>7
  <2>5. Lane(d) \in Household
    BY DEF LaneAssumption, Lane
  <2>2. PICK k \in 1 .. Len(waiting[Lane(d)]) : waiting[Lane(d)][k] = d
    BY <2>1 DEF LaneInv
  <2>3. CASE Lane(d) = h
    <3>1. k \in 1 .. Len(s) /\ s[k] = d /\ k # i
      BY <1>1, <2>1, <2>2, <2>3 DEF s
    <3>2. \E l \in 1 .. Len(t) : t[l] = d
      BY <1>4, <3>1 DEF Keeps
    <3>. QED
      BY <1>2, <2>3, <3>2
  <2>4. CASE Lane(d) # h
    BY <1>2, <2>2, <2>4, <2>5
  <2>. QED
    BY <2>3, <2>4
<1>8. LaneInv'
  BY <1>2, <1>6, <1>7 DEF LaneInv
<1>. QED
  BY <1>2, <1>8

\* A lane leaves the turn order.
LEMMA TurnWithout ==
  ASSUME TurnInv, AheadInv, NEW i \in 1 .. Len(lanes), NEW t \in Seq(Household), Without(lanes, i, t),
         NEW more \in [Household -> SUBSET Household],
         \A g \in Household \ {lanes[i]} : ahead[g] \ {lanes[i]} \subseteq more[g]
  PROVE  /\ \A k \in 1 .. Len(t) : t[k] # lanes[i]
         /\ \A g \in Household \ {lanes[i]} : (\E k \in 1 .. Len(t) : t[k] = g) <=> waiting[g] # <<>>
         /\ Distinct(t)
         /\ \A j, k \in 1 .. Len(t) : j < k => t[j] \in more[t[k]]
<1>1. Keeps(lanes, i, t) /\ lanes \in Seq(Household)
  BY WithoutKeeps DEF TurnInv
<1>2. \A j \in 1 .. Len(lanes) : j # i => lanes[j] # lanes[i] /\ lanes[j] \in Household
  BY DEF TurnInv
<1>3. ASSUME NEW j \in 1 .. Len(t), NEW k \in 1 .. Len(t), j < k PROVE t[j] \in more[t[k]]
  <2>1. PICK m \in 1 .. Len(lanes), n \in 1 .. Len(lanes) :
          m < n /\ t[j] = lanes[m] /\ t[k] = lanes[n] /\ n # i /\ m # i
    BY <1>1, <1>3 DEF Keeps
  <2>. QED
    BY <1>2, <2>1 DEF AheadInv
<1>4. Distinct(t)
  BY <1>1 DEF Keeps, TurnInv, Distinct
<1>5. ASSUME NEW g \in Household \ {lanes[i]} PROVE (\E k \in 1 .. Len(t) : t[k] = g) <=> waiting[g] # <<>>
  <2>1. (\E k \in 1 .. Len(t) : t[k] = g) <=> \E j \in 1 .. Len(lanes) : lanes[j] = g
    <3>1. ASSUME NEW k \in 1 .. Len(t), t[k] = g PROVE \E j \in 1 .. Len(lanes) : lanes[j] = g
      BY <1>1, <3>1 DEF Keeps
    <3>2. ASSUME NEW j \in 1 .. Len(lanes), lanes[j] = g PROVE \E k \in 1 .. Len(t) : t[k] = g
      <4>1. j # i
        BY <1>5, <3>2
      <4>. QED
        BY <1>1, <3>2, <4>1 DEF Keeps
    <3>. QED
      BY <3>1, <3>2
  <2>. QED
    BY <2>1 DEF TurnInv
<1>6. \A k \in 1 .. Len(t) : t[k] # lanes[i]
  BY <1>1, <1>2 DEF Keeps
<1>. QED
  BY <1>3, <1>4, <1>5, <1>6

\* What a lane's call leaves behind when the lane is emptied or goes last in turn.
LEMMA LeavesTurn ==
  ASSUME TurnInv, AheadInv, NEW i \in 1 .. Len(lanes), NEW t \in Seq(Household), Without(lanes, i, t),
         ahead' \in [Household -> SUBSET Household],
         \A g \in Household \ {lanes[i]} : ahead[g] \ {lanes[i]} \subseteq ahead'[g] /\ waiting'[g] = waiting[g],
         \/ lanes' = t /\ waiting'[lanes[i]] = <<>>
         \/ /\ lanes' = Append(t, lanes[i]) /\ waiting'[lanes[i]] # <<>>
            /\ \A k \in 1 .. Len(lanes) : k # i => lanes[k] \in ahead'[lanes[i]]
  PROVE  TurnInv' /\ AheadInv'
<1> DEFINE h == lanes[i]
<1>1. /\ \A k \in 1 .. Len(t) : t[k] # h
      /\ \A g \in Household \ {h} : (\E k \in 1 .. Len(t) : t[k] = g) <=> waiting[g] # <<>>
      /\ Distinct(t)
      /\ \A j, k \in 1 .. Len(t) : j < k => t[j] \in ahead'[t[k]]
  BY TurnWithout
<1>2. h \in Household /\ Len(t) \in Nat
  BY DEF TurnInv
<1>3. CASE lanes' = t /\ waiting'[h] = <<>>
  <2>1. ASSUME NEW g \in Household PROVE (\E k \in 1 .. Len(t) : t[k] = g) <=> waiting'[g] # <<>>
    <3>1. CASE g = h
      BY <1>1, <1>3, <3>1
    <3>2. CASE g # h
      BY <1>1, <3>2
    <3>. QED
      BY <3>1, <3>2
  <2>. QED
    BY <1>1, <1>3, <2>1 DEF TurnInv, AheadInv, Distinct
<1>4. CASE /\ lanes' = Append(t, h) /\ waiting'[h] # <<>>
           /\ \A k \in 1 .. Len(lanes) : k # i => lanes[k] \in ahead'[h]
  <2>1. /\ lanes' \in Seq(Household) /\ Len(lanes') = Len(t) + 1 /\ lanes'[Len(t) + 1] = h
        /\ \A k \in 1 .. Len(t) : lanes'[k] = t[k]
    BY <1>2, <1>4
  <2>2. \A k \in 1 .. Len(lanes') : k = Len(t) + 1 \/ k \in 1 .. Len(t)
    BY <1>2, <2>1
  <2>3. ASSUME NEW g \in Household PROVE (\E k \in 1 .. Len(lanes') : lanes'[k] = g) <=> waiting'[g] # <<>>
    <3>1. CASE g = h
      <4>1. Len(t) + 1 \in 1 .. Len(lanes')
        BY <1>2, <2>1
      <4>. QED
        BY <1>4, <2>1, <3>1, <4>1
    <3>2. CASE g # h
      <4>1. (\E k \in 1 .. Len(lanes') : lanes'[k] = g) => \E k \in 1 .. Len(t) : t[k] = g
        BY <2>1, <2>2, <3>2
      <4>2. \A k \in 1 .. Len(t) : k \in 1 .. Len(lanes')
        BY <1>2, <2>1
      <4>3. (\E k \in 1 .. Len(t) : t[k] = g) => \E k \in 1 .. Len(lanes') : lanes'[k] = g
        BY <2>1, <4>2
      <4>. QED
        BY <1>1, <3>2, <4>1, <4>3
    <3>. QED
      BY <3>1, <3>2
  <2>4. \A j, k \in 1 .. Len(lanes') : lanes'[j] = lanes'[k] => j = k
    BY <1>1, <2>1, <2>2 DEF Distinct
  <2>5. ASSUME NEW j \in 1 .. Len(lanes'), NEW k \in 1 .. Len(lanes'), j < k PROVE lanes'[j] \in ahead'[lanes'[k]]
    <3>1. j \in 1 .. Len(t)
      BY <1>2, <2>1, <2>5
    <3>2. CASE k \in 1 .. Len(t)
      BY <1>1, <2>1, <2>5, <3>1, <3>2
    <3>3. CASE k = Len(t) + 1
      <4>1. Keeps(lanes, i, t)
        BY WithoutKeeps DEF TurnInv
      <4>2. \E m \in 1 .. Len(lanes) : m # i /\ t[j] = lanes[m]
        BY <3>1, <4>1 DEF Keeps
      <4>. QED
        BY <1>4, <2>1, <3>1, <3>3, <4>2
    <3>. QED
      BY <2>2, <3>2, <3>3
  <2>. QED
    BY <2>1, <2>3, <2>4, <2>5 DEF TurnInv, AheadInv
<1>. QED
  BY <1>3, <1>4

\* A call leaving its lane keeps lanes, turns and who goes first in step, and lengthens no lane.
LEMMA DequeueKeeps ==
  ASSUME LaneAssumption, LaneInv, TurnInv, AheadInv, call \in [Call -> Job], NEW c \in Call, Dequeue(c)
  PROVE  /\ LaneInv' /\ TurnInv' /\ AheadInv'
         /\ \A g \in Household : Len(waiting'[g]) <= Len(waiting[g])
         /\ lanes' # <<>> => UNCHANGED timer /\ lanes # <<>>
<1> DEFINE h == Lane(c)
<1>1. h \in Household /\ waiting[h] \in Seq(Call)
  BY DEF LaneInv, LaneAssumption, Lane
<1>2. /\ call' = [call EXCEPT ![c] = NoJob] /\ Waits(c)
      /\ IF Len(waiting[h]) = 1 THEN LeaveTurn(h) ELSE UNCHANGED <<lanes, ahead>>
      /\ ClearTimer(h)
  BY DEF Dequeue, Waits
<1>3. ~Waits(c)' /\ \A d \in Call \ {c} : Waits(d)' = Waits(d)
  BY <1>2 DEF Waits, NoJob
<1>4. PICK k \in 1 .. Len(waiting[h]) : waiting[h][k] = c /\ waiting' = [waiting EXCEPT ![h] = RemoveAt(@, k)]
  <2>1. \E k \in DOMAIN waiting[h] : waiting[h][k] = c /\ waiting' = [waiting EXCEPT ![h] = RemoveAt(@, k)]
    BY DEF Dequeue
  <2>2. DOMAIN waiting[h] = 1 .. Len(waiting[h])
    BY <1>1
  <2>. QED
    BY <2>1, <2>2
<1> DEFINE t == RemoveAt(waiting[h], k)
<1>5. t \in Seq(Call) /\ Without(waiting[h], k, t)
  BY <1>1, RemovedWithout
<1>6. waiting' = [waiting EXCEPT ![h] = t]
  BY <1>4
<1>. HIDE DEF t, h
<1>7. LaneInv' /\ waiting'[h] = t /\ \A g \in Household \ {h} : waiting'[g] = waiting[g]
  BY <1>1, <1>3, <1>4, <1>5, <1>6, LaneWithout
<1>8. Len(waiting'[h]) = Len(waiting[h]) - 1 /\ Len(waiting[h]) \in Nat \ {0}
  BY <1>1, <1>5, <1>7 DEF Without
<1>9. \A g \in Household : waiting'[g] \in Seq(Call) /\ waiting[g] \in Seq(Call)
  BY <1>7 DEF LaneInv
<1>10. CASE Len(waiting[h]) = 1
  <2>1. PICK j \in 1 .. Len(lanes) : lanes[j] = h /\ lanes' = RemoveAt(lanes, j)
    BY <1>2, <1>10 DEF LeaveTurn, TurnInv
  <2>2. lanes' \in Seq(Household) /\ Without(lanes, j, lanes')
    BY <2>1, RemovedWithout DEF TurnInv
  <2>3. ahead' = [ahead EXCEPT ![h] = {}]
    BY <1>2, <1>10 DEF LeaveTurn
  <2>4. ahead' \in [Household -> SUBSET Household] /\ \A g \in Household \ {h} : ahead'[g] = ahead[g]
    BY <1>1, <2>3 DEF AheadInv
  <2>5. waiting'[h] = <<>>
    BY <1>1, <1>8, <1>9, <1>10
  <2>6. TurnInv' /\ AheadInv'
    BY <1>7, <2>1, <2>2, <2>4, <2>5, LeavesTurn
  <2>7. ASSUME lanes' # <<>> PROVE UNCHANGED timer /\ lanes # <<>>
    <3>1. Len(lanes') # 0 /\ Len(lanes') = Len(lanes) - 1
      BY <2>1, <2>2, <2>7 DEF Without, TurnInv
    <3>. QED
      BY <1>2, <3>1 DEF ClearTimer, TurnInv
  <2>. QED
    BY <1>7, <1>8, <1>9, <2>6, <2>7
<1>11. CASE Len(waiting[h]) # 1
  <2>1. UNCHANGED <<lanes, ahead>> /\ waiting[h] # <<>> /\ waiting'[h] # <<>>
    <3>1. UNCHANGED <<lanes, ahead>>
      BY <1>2, <1>11
    <3>2. Len(waiting[h]) # 0 /\ Len(waiting'[h]) # 0
      BY <1>8, <1>11
    <3>. QED
      BY <1>1, <1>9, <3>1, <3>2
  <2>2. TurnInv' /\ AheadInv'
    BY <1>7, <2>1 DEF TurnInv, AheadInv
  <2>3. UNCHANGED timer
    BY <1>2, <2>1 DEF ClearTimer
  <2>. QED
    BY <1>7, <1>8, <1>9, <2>1, <2>2, <2>3
<1>. QED
  BY <1>10, <1>11

\* Starting the call whose turn it is keeps lanes, turns and who goes first in step.
LEMMA StartKeeps ==
  ASSUME LaneAssumption, LaneInv, TurnInv, AheadInv, call \in [Call -> Job], Start
  PROVE  /\ LaneInv' /\ TurnInv' /\ AheadInv'
         /\ \A g \in Household : Len(waiting'[g]) <= Len(waiting[g])
         /\ \E c \in Call : /\ Waits(c) /\ Lane(c) = Head(lanes)
                            /\ call' = [call EXCEPT ![c].state = "flying"]
<1>1. lanes # <<>>
  BY DEF Start, MayStart
<1>2. PICK h \in Household :
        /\ h = Head(lanes) /\ h = lanes[1] /\ 1 \in 1 .. Len(lanes)
        /\ Tail(lanes) \in Seq(Household) /\ Without(lanes, 1, Tail(lanes))
  BY <1>1, TailWithout DEF TurnInv
<1>3. waiting[h] # <<>> /\ waiting[h] \in Seq(Call)
  BY <1>2 DEF TurnInv, LaneInv
<1>4. PICK c \in Call :
        /\ c = Head(waiting[h]) /\ c = waiting[h][1] /\ 1 \in 1 .. Len(waiting[h])
        /\ Tail(waiting[h]) \in Seq(Call) /\ Without(waiting[h], 1, Tail(waiting[h]))
  BY <1>3, TailWithout
<1>5. Waits(c) /\ Lane(c) = h
  BY <1>2, <1>4 DEF LaneInv
<1>6. /\ call' = [call EXCEPT ![c].state = "flying"]
      /\ waiting' = [waiting EXCEPT ![h] = Tail(@)]
      /\ lanes' = IF Len(waiting[h]) > 1 THEN Append(Tail(lanes), h) ELSE Tail(lanes)
      /\ ahead' = [g \in Household |-> IF g # h THEN ahead[g] \ {h} ELSE IF Len(waiting[h]) > 1 THEN LaneSet \ {h} ELSE {}]
  BY <1>2, <1>4 DEF Start, TurnTaken
<1>7. ~Waits(c)' /\ \A d \in Call \ {c} : Waits(d)' = Waits(d)
  <2>1. call[c] \in Job /\ call'[c] = [call[c] EXCEPT !.state = "flying"] /\ \A d \in Call \ {c} : call'[d] = call[d]
    BY <1>4, <1>6
  <2>2. call'[c].state = "flying"
    BY <2>1 DEF Job
  <2>. QED
    BY <2>1, <2>2 DEF Waits
<1>8. waiting' = [waiting EXCEPT ![h] = Tail(waiting[h])]
  BY <1>6
<1>9. LaneInv' /\ waiting'[h] = Tail(waiting[h]) /\ \A g \in Household \ {h} : waiting'[g] = waiting[g]
  <2> DEFINE t == Tail(waiting[h])
  <2>1. t \in Seq(Call) /\ Without(waiting[h], 1, t) /\ waiting' = [waiting EXCEPT ![h] = t]
    BY <1>4, <1>8
  <2>. HIDE DEF t
  <2>2. LaneInv' /\ waiting'[h] = t /\ \A g \in Household \ {h} : waiting'[g] = waiting[g]
    BY <1>2, <1>4, <1>7, <2>1, LaneWithout
  <2>. QED
    BY <2>2 DEF t
<1>10. Len(waiting'[h]) = Len(waiting[h]) - 1
  BY <1>3, <1>9
<1>11. \A g \in Household : waiting'[g] \in Seq(Call) /\ waiting[g] \in Seq(Call)
  BY <1>9 DEF LaneInv
<1>12. LaneSet \subseteq Household /\ \A k \in 1 .. Len(lanes) : lanes[k] \in LaneSet /\ (k # 1 => lanes[k] # h)
  BY <1>2 DEF LaneSet, TurnInv
<1>13. ahead' \in [Household -> SUBSET Household] /\ \A g \in Household \ {h} : ahead'[g] = ahead[g] \ {h}
  BY <1>2, <1>6, <1>12 DEF AheadInv
<1>14. TurnInv' /\ AheadInv'
  <2>1. CASE Len(waiting[h]) > 1
    <3>1. waiting'[h] # <<>> /\ lanes' = Append(Tail(lanes), h) /\ ahead'[h] = LaneSet \ {h}
      <4>1. Len(waiting'[h]) # 0
        <5> DEFINE n == Len(waiting[h])
        <5>1. n \in Nat /\ n > 1 /\ Len(waiting'[h]) = n - 1
          BY <1>3, <1>10, <2>1
        <5>. HIDE DEF n
        <5>. QED
          BY <5>1
      <4>2. lanes' = Append(Tail(lanes), h)
        BY <1>6, <2>1
      <4>3. ahead'[h] = LaneSet \ {h}
        BY <1>6, <2>1
      <4>. QED
        BY <1>11, <4>1, <4>2, <4>3
    <3>2. \A k \in 1 .. Len(lanes) : k # 1 => lanes[k] \in ahead'[h]
      BY <1>12, <3>1
    <3>3. lanes' = Append(Tail(lanes), lanes[1]) /\ waiting'[lanes[1]] # <<>>
      BY <1>2, <3>1
    <3>. QED
      BY <1>2, <1>9, <1>13, <3>2, <3>3, LeavesTurn
  <2>2. CASE ~(Len(waiting[h]) > 1)
    <3>1. Len(waiting[h]) # 0 /\ Len(waiting[h]) \in Nat
      BY <1>3
    <3>3. Len(waiting'[h]) = 0
      <4>1. Len(waiting[h]) = 1
        <5> DEFINE n == Len(waiting[h])
        <5>1. n \in Nat /\ ~(n > 1) /\ n # 0
          BY <2>2, <3>1
        <5>. HIDE DEF n
        <5>2. n = 1
          BY <5>1
        <5>. QED
          BY <5>2 DEF n
      <4>. QED
        BY <1>10, <4>1
    <3>2. waiting'[h] = <<>> /\ lanes' = Tail(lanes)
      BY <1>2, <1>6, <1>11, <2>2, <3>3
    <3>. QED
      BY <1>2, <1>9, <1>13, <3>2, LeavesTurn
  <2>. QED
    BY <2>1, <2>2
<1>15. \A g \in Household : Len(waiting'[g]) <= Len(waiting[g])
  <2>1. ASSUME NEW g \in Household PROVE Len(waiting'[g]) <= Len(waiting[g])
    <3>1. Len(waiting[g]) \in Nat
      BY <1>11
    <3>2. CASE g = h
      BY <1>10, <3>1, <3>2
    <3>3. CASE g # h
      BY <1>9, <3>1, <3>3
    <3>. QED
      BY <3>2, <3>3
  <2>. QED
    BY <2>1
<1>. QED
  BY <1>2, <1>4, <1>5, <1>6, <1>9, <1>14, <1>15

-----------------------------------------------------------------------------
(* Jobs and their counts *)

\* The states a call's job goes through are jobs.
LEMMA JobTypes ==
  /\ NoJob \in Job /\ NoJob.state = "none"
  /\ \A j \in Job : /\ j.state \in {"none", "waiting", "flying"} /\ j.deadline \in 0..QueueTimeout
                    /\ \A s \in {"none", "waiting", "flying"} :
                         [j EXCEPT !.state = s] \in Job /\ [j EXCEPT !.state = s].state = s
                    /\ [j EXCEPT !.state = "waiting", !.retried = TRUE] \in Job
                    /\ [j EXCEPT !.state = "waiting", !.retried = TRUE].state = "waiting"
                    /\ \A n \in 0..QueueTimeout :
                         [j EXCEPT !.deadline = n] \in Job /\ [j EXCEPT !.deadline = n].state = j.state
<1>. 0 \in 0..QueueTimeout
  BY LimitsAssumption DEF LimitsAssumption
<1>. QED
  BY DEF Job, NoJob

\* One call's job changes.
LEMMA Moved ==
  ASSUME NEW c \in Call, \A d \in Call \ {c} : call'[d].state = call[d].state
  PROVE  /\ Flying' = IF call'[c].state = "flying" THEN Flying \cup {c} ELSE Flying \ {c}
         /\ Waiting' = IF call'[c].state = "waiting" THEN Waiting \cup {c} ELSE Waiting \ {c}
         /\ \A d \in Call \ {c} : Waits(d)' = Waits(d)
<1>. QED
  BY DEF Flying, Waiting, Waits

\* None does.
LEMMA NoneMoved ==
  ASSUME \A d \in Call : call'[d].state = call[d].state
  PROVE  /\ Flying' = Flying /\ Waiting' = Waiting
         /\ LaneInv /\ UNCHANGED waiting => LaneInv'
<1>1. \A d \in Call : Waits(d)' = Waits(d)
  BY DEF Waits
<1>2. Flying' = Flying /\ Waiting' = Waiting
  BY <1>1 DEF Flying, Waiting
<1>3. ASSUME LaneInv, UNCHANGED waiting PROVE LaneInv'
  BY <1>3 DEF LaneInv, Waits
<1>. QED
  BY <1>2, <1>3

\* Turns do not change while lanes do not.
LEMMA SameTurns == TurnInv /\ AheadInv /\ UNCHANGED <<lanes, waiting, ahead>> => TurnInv' /\ AheadInv'
<1>. QED
  BY DEF TurnInv, AheadInv

\* Adding and taking out one element changes a finite set's size by one.
LEMMA Counted ==
  ASSUME NEW S, IsFiniteSet(S), NEW c
  PROVE  /\ Cardinality(S) \in Nat
         /\ c \notin S => IsFiniteSet(S \cup {c}) /\ Cardinality(S \cup {c}) = Cardinality(S) + 1 /\ S \ {c} = S
         /\ c \in S => /\ IsFiniteSet(S \ {c}) /\ Cardinality(S \ {c}) = Cardinality(S) - 1
                       /\ S \cup {c} = S /\ Cardinality(S) > 0
<1>1. Cardinality(S) \in Nat /\ Cardinality(S \ {c}) \in Nat /\ IsFiniteSet(S \ {c})
  BY FS_CardinalityType, FS_RemoveElement
<1>2. ASSUME c \notin S
      PROVE  IsFiniteSet(S \cup {c}) /\ Cardinality(S \cup {c}) = Cardinality(S) + 1 /\ S \ {c} = S
  BY <1>2, FS_AddElement
<1>3. ASSUME c \in S
      PROVE  Cardinality(S \ {c}) = Cardinality(S) - 1 /\ S \cup {c} = S
  BY <1>3, FS_RemoveElement
<1>4. c \in S => Cardinality(S) > 0
  BY <1>1, <1>3
<1>. QED
  BY <1>1, <1>2, <1>3, <1>4

\* There is room for a call that joins its lane, in its lane and in all of them.
LEMMA RoomHolds ==
  ASSUME LaneAssumption, LaneInv, CountInv, NEW c \in Call, HasRoom(Lane(c)), queued' = queued + 1, queued \in Nat,
         Len(waiting'[Lane(c)]) = Len(waiting[Lane(c)]) + 1,
         \A h \in Household \ {Lane(c)} : waiting'[h] = waiting[h]
  PROVE  QueueBounds'
<1>1. Lane(c) \in Household /\ Len(waiting[Lane(c)]) \in Nat
  BY DEF LaneAssumption, Lane, LaneInv
<1>2. queued' <= MaxQueued
  BY LimitsAssumption DEF LimitsAssumption, HasRoom
<1>3. Len(waiting'[Lane(c)]) <= MaxQueuedPerLane
  BY <1>1, LimitsAssumption DEF LimitsAssumption, HasRoom
<1>. QED
  BY <1>2, <1>3 DEF QueueBounds, CountInv

\* The bounds of the queues hold when one call fewer waits.
LEMMA FewerHolds ==
  ASSUME LaneInv, LaneInv', CountInv, queued' = queued - 1, queued \in Nat,
         \A h \in Household : Len(waiting'[h]) <= Len(waiting[h])
  PROVE  QueueBounds'
<1>1. \A h \in Household : Len(waiting[h]) \in Nat /\ Len(waiting'[h]) \in Nat
  BY DEF LaneInv
<1>. QED
  BY <1>1, LimitsAssumption DEF LimitsAssumption, QueueBounds, CountInv

-----------------------------------------------------------------------------
(* The steps *)

\* Accepting a call keeps the invariant.
LEMMA RunStep ==
  ASSUME LaneAssumption, IInv, NEW c \in Call, Run(c)
  PROVE  IInv'
<1> DEFINE j == [state |-> "waiting", deadline |-> QueueTimeout, retried |-> FALSE]
<1>1. /\ call[c].state = "none" /\ HasRoom(Lane(c)) /\ Enqueue(c, FALSE) /\ queued' = queued + 1
      /\ call' = [call EXCEPT ![c] = j]
      /\ pumping' = TRUE /\ asleep' = FALSE /\ wakeIn' = 0
      /\ UNCHANGED <<inFlight, tokens, paused, hung>>
  BY DEF Run, Pump, limits, Enqueue
<1>2. j \in Job /\ j.state = "waiting"
  BY LimitsAssumption DEF LimitsAssumption, Job
<1>. HIDE DEF j
<1>3. call' \in [Call -> Job] /\ call'[c].state = "waiting" /\ \A d \in Call \ {c} : call'[d] = call[d]
  BY <1>1, <1>2 DEF IInv, ScalarInv
<1>4. ~Waits(c) /\ Waits(c)' /\ \A d \in Call \ {c} : Waits(d)' = Waits(d)
  BY <1>1, <1>3 DEF Waits
<1>5. /\ LaneInv' /\ TurnInv' /\ AheadInv'
      /\ Len(waiting'[Lane(c)]) = Len(waiting[Lane(c)]) + 1
      /\ \A h \in Household \ {Lane(c)} : waiting'[h] = waiting[h]
  BY <1>1, <1>4, EnqueueKeeps DEF IInv
<1>6. Flying' = Flying \ {c} /\ Waiting' = Waiting \cup {c} /\ c \notin Flying /\ c \notin Waiting
  BY <1>1, <1>3, <1>4, Moved DEF Flying, Waiting
<1>7. CountInv'
  <2>1. QueueBounds'
    BY <1>1, <1>5, RoomHolds DEF IInv, ScalarInv
  <2>2. IsFiniteSet(Flying') /\ Cardinality(Flying') = Cardinality(Flying)
    BY <1>6, Counted DEF IInv, CountInv
  <2>3. IsFiniteSet(Waiting') /\ Cardinality(Waiting') = Cardinality(Waiting) + 1
    BY <1>6, Counted DEF IInv, CountInv
  <2>. QED
    BY <1>1, <2>1, <2>2, <2>3 DEF IInv, CountInv
<1>8. ScalarInv'
  <2>1. asleep' \in BOOLEAN /\ pumping' \in BOOLEAN
    BY <1>1
  <2>2. queued' \in Nat /\ inFlight' \in Nat /\ wakeIn' \in Nat
    BY <1>1 DEF IInv, ScalarInv
  <2>3. tokens' \in 0..Burst /\ paused' \in 0..MaxRetryAfter /\ hung' \subseteq Call
    BY <1>1 DEF IInv, ScalarInv
  <2>. QED
    BY <1>3, <2>1, <2>2, <2>3 DEF ScalarInv
<1>9. NoLostWakeup'
  BY <1>1 DEF NoLostWakeup
<1>. QED
  BY <1>5, <1>7, <1>8, <1>9 DEF IInv

\* An abort or a timeout in the queue keeps the invariant.
LEMMA DequeueStep ==
  ASSUME LaneAssumption, IInv, NEW c \in Call, ~pumping, Dequeue(c)
  PROVE  IInv'
<1>1. /\ call[c].state = "waiting" /\ queued' = queued - 1 /\ call' = [call EXCEPT ![c] = NoJob]
      /\ UNCHANGED <<inFlight, tokens, paused, pumping, hung>>
  BY DEF Dequeue, limits
<1>2. /\ LaneInv' /\ TurnInv' /\ AheadInv'
      /\ \A g \in Household : Len(waiting'[g]) <= Len(waiting[g])
      /\ lanes' # <<>> => UNCHANGED timer /\ lanes # <<>>
  BY DequeueKeeps DEF IInv, ScalarInv
<1>3. call' \in [Call -> Job] /\ call'[c].state = "none" /\ \A d \in Call \ {c} : call'[d] = call[d]
  <2>1. call \in [Call -> Job] /\ NoJob \in Job /\ NoJob.state = "none"
    BY JobTypes DEF IInv, ScalarInv
  <2>. QED
    BY <1>1, <2>1
<1>4. Flying' = Flying \ {c} /\ Waiting' = Waiting \ {c} /\ c \notin Flying /\ c \in Waiting
  BY <1>1, <1>3, Moved DEF Flying, Waiting, Waits
<1>5. queued > 0 /\ CountInv'
  <2>1. IsFiniteSet(Flying') /\ Cardinality(Flying') = Cardinality(Flying)
    BY <1>4, Counted DEF IInv, CountInv
  <2>2. IsFiniteSet(Waiting') /\ Cardinality(Waiting') = Cardinality(Waiting) - 1 /\ Cardinality(Waiting) > 0
    BY <1>4, Counted DEF IInv, CountInv
  <2>3. QueueBounds'
    BY <1>1, <1>2, FewerHolds DEF IInv, ScalarInv
  <2>. QED
    BY <1>1, <2>1, <2>2, <2>3 DEF IInv, CountInv
<1>6. asleep' \in BOOLEAN /\ wakeIn' \in Nat
  <2>1. (asleep' = FALSE /\ wakeIn' = 0) \/ (asleep' = asleep /\ wakeIn' = wakeIn)
    BY DEF Dequeue, ClearTimer, timer
  <2>2. asleep \in BOOLEAN /\ wakeIn \in Nat
    BY DEF IInv, ScalarInv
  <2>3. CASE asleep' = FALSE /\ wakeIn' = 0
    BY <2>3
  <2>4. CASE asleep' = asleep /\ wakeIn' = wakeIn
    BY <2>2, <2>4, Zenon
  <2>. QED
    BY <2>1, <2>3, <2>4
<1>7. ScalarInv'
  BY <1>1, <1>3, <1>5, <1>6 DEF IInv, ScalarInv
<1>8. NoLostWakeup'
  BY <1>1, <1>2 DEF IInv, NoLostWakeup, timer
<1>. QED
  BY <1>2, <1>5, <1>7, <1>8 DEF IInv

\* A call in flight settles and is forgotten, or waits again.
LEMMA SettleStep ==
  ASSUME LaneAssumption, IInv, NEW c \in Call, Settle(c),
         call' \in [Call -> Job], \A d \in Call \ {c} : call'[d] = call[d],
         tokens' \in 0..Burst, paused' \in 0..MaxRetryAfter, hung' \subseteq Call,
         \/ call'[c].state = "none" /\ UNCHANGED <<lanes, waiting, queued, ahead>>
         \/ call'[c].state = "waiting" /\ HasRoom(Lane(c)) /\ Enqueue(c, TRUE)
  PROVE  IInv'
<1>1. /\ call[c].state = "flying" /\ inFlight' = inFlight - 1
      /\ pumping' = TRUE /\ asleep' = FALSE /\ wakeIn' = 0
  BY DEF Settle, Pump
<1>2. /\ c \in Flying /\ c \notin Waiting /\ ~Waits(c)
      /\ Flying' = Flying \ {c}
      /\ Waiting' = IF call'[c].state = "waiting" THEN Waiting \cup {c} ELSE Waiting \ {c}
      /\ \A d \in Call \ {c} : Waits(d)' = Waits(d)
  BY <1>1, Moved DEF Flying, Waiting, Waits
<1>3. IsFiniteSet(Flying') /\ Cardinality(Flying') = Cardinality(Flying) - 1 /\ Cardinality(Flying) > 0
  BY <1>2, Counted DEF IInv, CountInv
<1>4. inFlight' \in Nat /\ inFlight' = Cardinality(Flying') /\ inFlight' <= MaxInFlight
  BY <1>1, <1>3, LimitsAssumption DEF LimitsAssumption, IInv, CountInv, ScalarInv
<1>5. NoLostWakeup' /\ asleep' \in BOOLEAN /\ pumping' \in BOOLEAN /\ wakeIn' \in Nat
  BY <1>1 DEF NoLostWakeup
<1>6. CASE call'[c].state = "none" /\ UNCHANGED <<lanes, waiting, queued, ahead>>
  <2>1. \A d \in Call : call'[d].state = "waiting" <=> call[d].state = "waiting"
    BY <1>2, <1>6 DEF Waits
  <2>2. LaneInv'
    <3>1. ASSUME NEW h \in Household, NEW k \in 1 .. Len(waiting[h])
          PROVE  waiting[h][k] \in Call /\ call'[waiting[h][k]].state = "waiting"
      <4>1. waiting[h] \in Seq(Call) /\ call[waiting[h][k]].state = "waiting"
        BY DEF IInv, LaneInv, Waits
      <4>2. waiting[h][k] \in Call
        BY <4>1
      <4>. QED
        BY <2>1, <4>1, <4>2
    <3>2. \A d \in Call : call'[d].state = "waiting" => \E k \in 1 .. Len(waiting[Lane(d)]) : waiting[Lane(d)][k] = d
      BY <2>1 DEF IInv, LaneInv, Waits
    <3>3. UNCHANGED waiting /\ LaneInv
      BY <1>6 DEF IInv
    <3>4. \A h \in Household : \A k \in 1 .. Len(waiting[h]) : Lane(waiting[h][k]) = h
      BY <3>3 DEF LaneInv
    <3>5. /\ \A h \in Household : \A k \in 1 .. Len(waiting'[h]) : Lane(waiting'[h][k]) = h /\ Waits(waiting[h][k])'
          /\ \A d \in Call : Waits(d)' => \E k \in 1 .. Len(waiting'[Lane(d)]) : waiting'[Lane(d)][k] = d
      BY <3>1, <3>2, <3>3, <3>4 DEF Waits
    <3>. QED
      BY <3>3, <3>5 DEF LaneInv
  <2>3. TurnInv' /\ AheadInv'
    BY <1>6, SameTurns DEF IInv
  <2>4. Waiting' = Waiting
    BY <1>2, <1>6
  <2>5. QueueBounds'
    BY <1>6 DEF IInv, CountInv, QueueBounds
  <2>6. CountInv'
    BY <1>3, <1>4, <1>6, <2>4, <2>5 DEF IInv, CountInv
  <2>7. ScalarInv'
    BY <1>4, <1>5, <1>6 DEF IInv, ScalarInv
  <2>. QED
    BY <1>5, <2>2, <2>3, <2>6, <2>7 DEF IInv
<1>7. CASE call'[c].state = "waiting" /\ HasRoom(Lane(c)) /\ Enqueue(c, TRUE)
  <2>1. Waits(c)'
    BY <1>7 DEF Waits
  <2>2. /\ LaneInv' /\ TurnInv' /\ AheadInv'
        /\ Len(waiting'[Lane(c)]) = Len(waiting[Lane(c)]) + 1
        /\ \A h \in Household \ {Lane(c)} : waiting'[h] = waiting[h]
    BY <1>2, <1>7, <2>1, EnqueueKeeps DEF IInv
  <2>3. queued' = queued + 1 /\ queued \in Nat
    BY <1>7 DEF Enqueue, IInv, ScalarInv
  <2>4. QueueBounds'
    BY <1>7, <2>2, <2>3, RoomHolds DEF IInv
  <2>5. IsFiniteSet(Waiting') /\ Cardinality(Waiting') = Cardinality(Waiting) + 1
    BY <1>2, <1>7, Counted DEF IInv, CountInv
  <2>6. CountInv'
    BY <1>3, <1>4, <2>3, <2>4, <2>5 DEF IInv, CountInv
  <2>7. ScalarInv'
    BY <1>4, <1>5, <2>3 DEF IInv, ScalarInv
  <2>. QED
    BY <1>5, <2>2, <2>6, <2>7 DEF IInv
<1>. QED
  BY <1>6, <1>7

\* Starting a call keeps the invariant.
LEMMA StartStep ==
  ASSUME LaneAssumption, IInv, Start
  PROVE  IInv'
<1>1. /\ tokens > 0 /\ inFlight < MaxInFlight /\ pumping
      /\ queued' = queued - 1 /\ tokens' = tokens - 1 /\ inFlight' = inFlight + 1
      /\ UNCHANGED <<paused, asleep, wakeIn, pumping, hung>>
  BY DEF Start, MayStart, timer
<1>2. /\ LaneInv' /\ TurnInv' /\ AheadInv'
      /\ \A g \in Household : Len(waiting'[g]) <= Len(waiting[g])
  BY StartKeeps DEF IInv, ScalarInv
<1>3. PICK c \in Call : Waits(c) /\ call' = [call EXCEPT ![c].state = "flying"]
  BY StartKeeps DEF IInv, ScalarInv
<1>4. call' \in [Call -> Job] /\ call'[c].state = "flying" /\ \A d \in Call \ {c} : call'[d] = call[d]
  <2>1. call \in [Call -> Job] /\ call[c] \in Job
    BY DEF IInv, ScalarInv
  <2>2. [call[c] EXCEPT !.state = "flying"] \in Job /\ [call[c] EXCEPT !.state = "flying"].state = "flying"
    BY <2>1, JobTypes
  <2>. QED
    BY <1>3, <2>1, <2>2
<1>5. /\ c \notin Flying /\ c \in Waiting /\ Flying' = Flying \cup {c} /\ Waiting' = Waiting \ {c}
  BY <1>3, <1>4, Moved DEF Flying, Waiting, Waits
<1>6. IsFiniteSet(Flying') /\ Cardinality(Flying') = Cardinality(Flying) + 1
  BY <1>5, Counted DEF IInv, CountInv
<1>7. IsFiniteSet(Waiting') /\ Cardinality(Waiting') = Cardinality(Waiting) - 1 /\ Cardinality(Waiting) > 0
  BY <1>5, Counted DEF IInv, CountInv
<1>8. QueueBounds'
  BY <1>1, <1>2, FewerHolds DEF IInv, ScalarInv
<1>9. queued' \in Nat /\ inFlight' \in Nat /\ tokens' \in 0..Burst /\ inFlight' <= MaxInFlight
  BY <1>1, <1>7, LimitsAssumption DEF LimitsAssumption, IInv, CountInv, ScalarInv
<1>10. CountInv'
  BY <1>1, <1>6, <1>7, <1>8, <1>9 DEF IInv, CountInv
<1>11. ScalarInv'
  BY <1>1, <1>4, <1>9 DEF IInv, ScalarInv
<1>12. NoLostWakeup'
  BY <1>1 DEF NoLostWakeup
<1>. QED
  BY <1>2, <1>10, <1>11, <1>12 DEF IInv

\* The passing of time keeps the invariant.
LEMMA TickStep ==
  ASSUME IInv, Tick
  PROVE  IInv'
<1>1. /\ ~pumping /\ tokens' = Refill /\ paused' = Less1(paused) /\ wakeIn' = Less1(wakeIn)
      /\ call' = [c \in Call |-> [call[c] EXCEPT !.deadline = Less1(@)]]
      /\ UNCHANGED <<lanes, waiting, queued, inFlight, asleep, pumping, hung, ahead>>
  BY DEF Tick
<1>2. call' \in [Call -> Job] /\ \A c \in Call : call'[c].state = call[c].state
  <2>1. ASSUME NEW c \in Call PROVE call'[c] \in Job /\ call'[c].state = call[c].state
    <3>1. call[c] \in Job
      BY DEF IInv, ScalarInv
    <3>2. Less1(call[c].deadline) \in 0..QueueTimeout
      <4> DEFINE n == call[c].deadline
      <4>1. n \in 0..QueueTimeout /\ QueueTimeout \in Nat
        BY <3>1, JobTypes, LimitsAssumption DEF LimitsAssumption
      <4>. HIDE DEF n
      <4>2. Less1(n) \in 0..QueueTimeout
        BY <4>1 DEF Less1
      <4>. QED
        BY <4>2 DEF n
    <3>3. call'[c] = [call[c] EXCEPT !.deadline = Less1(call[c].deadline)]
      BY <1>1
    <3> DEFINE m == Less1(call[c].deadline)
    <3>4. m \in 0..QueueTimeout /\ call'[c] = [call[c] EXCEPT !.deadline = m]
      BY <3>2, <3>3
    <3>. HIDE DEF m
    <3>5. [call[c] EXCEPT !.deadline = m] \in Job /\ [call[c] EXCEPT !.deadline = m].state = call[c].state
      BY <3>1, <3>4, JobTypes, Zenon
    <3>. QED
      BY <3>4, <3>5
  <2>. QED
    BY <1>1, <2>1
<1>3. tokens' \in 0..Burst /\ paused' \in 0..MaxRetryAfter /\ wakeIn' \in Nat
  BY <1>1, LimitsAssumption, MaxRetryAfterAssumption
    DEF LimitsAssumption, MaxRetryAfterAssumption, Refill, Lesser, Less1, IInv, ScalarInv
<1>4. Flying' = Flying /\ Waiting' = Waiting /\ LaneInv'
  BY <1>1, <1>2, NoneMoved DEF IInv
<1>5. TurnInv' /\ AheadInv'
  BY <1>1, SameTurns DEF IInv
<1>6. CountInv'
  BY <1>1, <1>4 DEF IInv, CountInv, QueueBounds
<1>7. ScalarInv'
  BY <1>1, <1>2, <1>3 DEF IInv, ScalarInv
<1>8. NoLostWakeup'
  <2>1. paused \in Nat /\ wakeIn \in Nat
    BY MaxRetryAfterAssumption DEF MaxRetryAfterAssumption, IInv, ScalarInv
  <2>. QED
    BY <1>1, <2>1 DEF IInv, NoLostWakeup, Less1
<1>. QED
  BY <1>4, <1>5, <1>6, <1>7, <1>8 DEF IInv

\* Nothing but the timers changes.
LEMMA TimerStep ==
  ASSUME IInv, UNCHANGED <<lanes, waiting, queued, inFlight, limits, call, ahead>>, hung' \subseteq Call,
         asleep' \in BOOLEAN, wakeIn' \in Nat, pumping' \in BOOLEAN, NoLostWakeup'
  PROVE  IInv'
<1>1. LaneInv' /\ TurnInv' /\ AheadInv' /\ Flying' = Flying /\ Waiting' = Waiting
  BY NoneMoved, SameTurns DEF IInv
<1>2. CountInv'
  BY <1>1 DEF IInv, CountInv, QueueBounds
<1>3. ScalarInv'
  BY DEF IInv, ScalarInv, limits
<1>. QED
  BY <1>1, <1>2, <1>3 DEF IInv

\* Every step keeps the invariant.
LEMMA Inductive == IInv /\ [Next]_vars => IInv'
<1>. SUFFICES ASSUME IInv, [Next]_vars PROVE IInv'
  OBVIOUS
<1>. USE LaneAssumption
<1>1. ASSUME NEW c \in Call, Run(c) PROVE IInv'
  BY <1>1, RunStep
<1>2. ASSUME NEW c \in Call, AbortWaiting(c) \/ QueueTimesOut(c) PROVE IInv'
  BY <1>2, DequeueStep DEF AbortWaiting, QueueTimesOut
<1>3. ASSUME NEW c \in Call, Answer(c) \/ GiveUp(c) PROVE IInv'
  <2>1. Settle(c) /\ Forget(c) /\ UNCHANGED limits /\ (hung' = hung \/ hung' = hung \cup {c})
    BY <1>3 DEF Answer, GiveUp
  <2>2. call' \in [Call -> Job] /\ call'[c].state = "none" /\ \A d \in Call \ {c} : call'[d] = call[d]
    <3>1. call \in [Call -> Job] /\ NoJob \in Job /\ NoJob.state = "none" /\ call' = [call EXCEPT ![c] = NoJob]
      BY <2>1, JobTypes DEF IInv, ScalarInv, Forget
    <3>. QED
      BY <3>1
  <2>3. hung' \subseteq Call /\ tokens' \in 0..Burst /\ paused' \in 0..MaxRetryAfter
    BY <2>1 DEF IInv, ScalarInv, limits
  <2>. QED
    BY <2>1, <2>2, <2>3, SettleStep DEF Forget
<1>4. ASSUME NEW c \in Call, NEW wait \in 0..MaxRetryAfter, RateLimited(c, wait) PROVE IInv'
  <2>1. Settle(c) /\ paused' = (IF wait > paused THEN wait ELSE paused) /\ tokens' = 0 /\ UNCHANGED hung
    BY <1>4 DEF RateLimited
  <2>2. hung' \subseteq Call /\ tokens' \in 0..Burst /\ paused' \in 0..MaxRetryAfter
    BY <2>1, LimitsAssumption DEF LimitsAssumption, IInv, ScalarInv
  <2>3. call \in [Call -> Job] /\ call[c] \in Job
    BY DEF IInv, ScalarInv
  <2>4. CASE MayRetry(c)
    <3>1. /\ HasRoom(Lane(c)) /\ Enqueue(c, TRUE)
          /\ call' = [call EXCEPT ![c] = [call[c] EXCEPT !.state = "waiting", !.retried = TRUE]]
      BY <1>4, <2>4 DEF RateLimited, MayRetry
    <3>2. call' \in [Call -> Job] /\ call'[c].state = "waiting" /\ \A d \in Call \ {c} : call'[d] = call[d]
      <4> DEFINE j == [call[c] EXCEPT !.state = "waiting", !.retried = TRUE]
      <4>1. j \in Job /\ j.state = "waiting" /\ call' = [call EXCEPT ![c] = j]
        BY <2>3, <3>1, JobTypes
      <4>. HIDE DEF j
      <4>. QED
        BY <2>3, <4>1
    <3>. QED
      BY <2>1, <2>2, <3>1, <3>2, SettleStep
  <2>5. CASE ~MayRetry(c)
    <3>1. Forget(c)
      BY <1>4, <2>5 DEF RateLimited
    <3>2. call' \in [Call -> Job] /\ call'[c].state = "none" /\ \A d \in Call \ {c} : call'[d] = call[d]
      <4>1. NoJob \in Job /\ NoJob.state = "none" /\ call' = [call EXCEPT ![c] = NoJob]
        BY <3>1, JobTypes DEF Forget
      <4>. QED
        BY <2>3, <4>1
    <3>. QED
      BY <2>1, <2>2, <3>1, <3>2, SettleStep DEF Forget
  <2>. QED
    BY <2>4, <2>5
<1>5. ASSUME NEW c \in Call, LateAnswer(c) PROVE IInv'
  <2>1. /\ hung' \subseteq Call /\ UNCHANGED <<lanes, waiting, queued, inFlight, limits, asleep, wakeIn, pumping, call, ahead>>
    BY <1>5 DEF LateAnswer, timer, IInv, ScalarInv
  <2>2. NoLostWakeup'
    BY <2>1 DEF IInv, NoLostWakeup, limits
  <2>3. asleep' \in BOOLEAN /\ wakeIn' \in Nat /\ pumping' \in BOOLEAN
    BY <2>1 DEF IInv, ScalarInv
  <2>. QED
    BY <2>1, <2>2, <2>3, TimerStep
<1>6. CASE Wake
  <2>1. /\ UNCHANGED <<lanes, waiting, queued, inFlight, limits, call, hung, ahead>>
        /\ pumping' = TRUE /\ asleep' = FALSE /\ wakeIn' = 0
    BY <1>6 DEF Wake, Pump
  <2>2. NoLostWakeup' /\ hung' \subseteq Call
    BY <2>1 DEF NoLostWakeup, IInv, ScalarInv
  <2>. QED
    BY <2>1, <2>2, TimerStep
<1>7. CASE Tick
  BY <1>7, TickStep
<1>8. CASE Start
  BY <1>8, StartStep
<1>9. CASE Sleep
  <2>1. /\ UNCHANGED <<lanes, waiting, queued, inFlight, limits, call, hung, ahead>>
        /\ pumping' = FALSE /\ asleep' = (lanes # <<>> /\ inFlight < MaxInFlight)
        /\ wakeIn' = IF ~asleep' THEN 0 ELSE IF paused > 0 THEN paused ELSE 1
    BY <1>9 DEF Sleep
  <2>2. wakeIn' \in Nat /\ hung' \subseteq Call
    BY <2>1, MaxRetryAfterAssumption DEF MaxRetryAfterAssumption, IInv, ScalarInv
  <2>3. paused \in Nat
    BY MaxRetryAfterAssumption DEF MaxRetryAfterAssumption, IInv, ScalarInv
  <2>4. NoLostWakeup'
    <3>1. CASE lanes # <<>> /\ inFlight < MaxInFlight
      <4>1. asleep' = TRUE
        BY <2>1, <3>1
      <4>2. wakeIn' <= (IF paused > 0 THEN paused ELSE 1) /\ UNCHANGED paused
        BY <2>1, <2>3, <4>1 DEF limits
      <4>. QED
        BY <4>1, <4>2 DEF NoLostWakeup
    <3>2. CASE ~(lanes # <<>> /\ inFlight < MaxInFlight)
      BY <2>1, <3>2 DEF NoLostWakeup
    <3>. QED
      BY <3>1, <3>2
  <2>. QED
    BY <2>1, <2>2, <2>4, TimerStep
<1>10. CASE UNCHANGED vars
  <2>1. UNCHANGED <<lanes, waiting, queued, inFlight, tokens, paused, asleep, wakeIn, pumping, call, hung, ahead>>
    BY <1>10 DEF vars
  <2>2. NoLostWakeup'
    BY <2>1 DEF IInv, NoLostWakeup
  <2>3. asleep' \in BOOLEAN /\ wakeIn' \in Nat /\ pumping' \in BOOLEAN /\ hung' \subseteq Call
    BY <2>1 DEF IInv, ScalarInv
  <2>. QED
    BY <2>1, <2>2, <2>3, TimerStep DEF limits
<1>. QED
  BY <1>1, <1>2, <1>3, <1>4, <1>5, <1>6, <1>7, <1>8, <1>9, <1>10 DEF Next, Calls, Timers

\* The invariant holds at the start.
LEMMA Initially == Init => IInv
<1>. SUFFICES ASSUME Init PROVE IInv
  OBVIOUS
<1>1. \A c \in Call : call[c].state = "none"
  BY JobTypes DEF Init
<1>2. Flying = {} /\ Waiting = {}
  BY <1>1 DEF Flying, Waiting, Waits
<1>3. CountInv
  <2>1. \A h \in Household : waiting[h] = <<>>
    BY DEF Init
  <2>2. QueueBounds
    BY <2>1, LimitsAssumption DEF Init, QueueBounds, LimitsAssumption
  <2>. QED
    BY <1>2, <2>2, FS_EmptySet, LimitsAssumption DEF Init, CountInv, LimitsAssumption
<1>4. LaneInv
  BY <1>1 DEF Init, LaneInv, Waits
<1>5. TurnInv /\ AheadInv
  BY DEF Init, TurnInv, AheadInv
<1>6. ScalarInv
  <2>1. call \in [Call -> Job]
    BY JobTypes DEF Init
  <2>2. tokens \in 0..Burst /\ paused \in 0..MaxRetryAfter
    BY LimitsAssumption, MaxRetryAfterAssumption DEF Init, LimitsAssumption, MaxRetryAfterAssumption
  <2>. QED
    BY <2>1, <2>2 DEF Init, ScalarInv
<1>7. NoLostWakeup
  BY DEF Init, NoLostWakeup
<1>. QED
  BY <1>3, <1>4, <1>5, <1>6, <1>7 DEF IInv

-----------------------------------------------------------------------------
(* Theorems *)

\* The inductive invariant: of the lanes, their turn order, who may start before whom, and the counts.
THEOREM Invariant == Spec => []IInv
<1>. QED
  BY Initially, Inductive, PTL DEF Spec

\* Two calls that wait have two places, each in a lane's first MaxQueuedPerLane, and the lane of h has one left.
LEMMA RoomForItself ==
  ASSUME HouseholdAssumption, LaneAssumption, IInv, NEW h \in Household, Len(waiting[h]) < MaxQueuedPerLane,
         MaxQueued >= MaxQueuedPerLane * Cardinality(Household)
  PROVE  queued < MaxQueued
<1> DEFINE M == MaxQueuedPerLane
           place(c) == CHOOSE k \in 1 .. Len(waiting[Lane(c)]) : waiting[Lane(c)][k] = c
           places == Household \X (1 .. M)
           free == places \ {<<h, M>>}
           f == [c \in Waiting |-> <<Lane(c), place(c)>>]
<1>1. M \in Nat \ {0} /\ MaxQueued \in Nat
  BY LimitsAssumption DEF LimitsAssumption
<1>2. ASSUME NEW c \in Waiting
      PROVE  Lane(c) \in Household /\ place(c) \in 1 .. Len(waiting[Lane(c)]) /\ waiting[Lane(c)][place(c)] = c
  <2>1. c \in Call /\ Waits(c)
    BY <1>2 DEF Waiting
  <2>2. \E k \in 1 .. Len(waiting[Lane(c)]) : waiting[Lane(c)][k] = c
    BY <2>1 DEF IInv, LaneInv
  <2>. QED
    BY <2>1, <2>2 DEF Lane, LaneAssumption
<1>. HIDE DEF place
<1>3. ASSUME NEW c \in Waiting PROVE f[c] \in free
  <2>1. Len(waiting[Lane(c)]) \in Nat /\ Len(waiting[Lane(c)]) <= M
    BY <1>2 DEF IInv, LaneInv, CountInv, QueueBounds
  <2>2. place(c) \in 1 .. M
    BY <1>1, <1>2, <2>1
  <2>3. ASSUME Lane(c) = h PROVE place(c) # M
    <3>1. place(c) \in 1 .. Len(waiting[h]) /\ Len(waiting[h]) \in Nat
      BY <1>2, <2>1, <2>3
    <3>. QED
      BY <1>1, <3>1
  <2>. QED
    BY <1>2, <2>2, <2>3
<1>4. ASSUME NEW c \in Waiting, NEW d \in Waiting, f[c] = f[d] PROVE c = d
  BY <1>2, <1>4
<1>5. f \in Injection(Waiting, free)
  BY <1>3, <1>4 DEF Injection, IsInjective
<1>6. IsFiniteSet(places) /\ Cardinality(places) = Cardinality(Household) * M
  <2>1. IsFiniteSet(1 .. M) /\ Cardinality(1 .. M) = M
    BY <1>1, FS_Interval
  <2>. QED
    BY <2>1, HouseholdAssumption, FS_Product DEF HouseholdAssumption
<1>7. <<h, M>> \in places
  BY <1>1
<1>. HIDE DEF places
<1>8. IsFiniteSet(free) /\ Cardinality(free) = Cardinality(places) - 1
  BY <1>6, <1>7, FS_RemoveElement
<1>. HIDE DEF free, f
<1>9. Cardinality(Waiting) <= Cardinality(free)
  BY <1>5, <1>8, FS_Injection
<1>10. Cardinality(Household) \in Nat /\ Cardinality(Waiting) \in Nat /\ queued = Cardinality(Waiting)
  BY HouseholdAssumption, FS_CardinalityType DEF HouseholdAssumption, IInv, CountInv
<1>11. Cardinality(Household) * M = M * Cardinality(Household) /\ Cardinality(Household) * M \in Nat
  BY <1>1, <1>10
<1>. QED
  BY <1>1, <1>6, <1>8, <1>9, <1>10, <1>11

\* The places in flight, the bounds of the queues, the lanes and their turn order agree, however calls end,
\* and a household is refused for its own calls only.
THEOREM AccountedAlways == Spec => []Accounted
<1>1. IInv => Accounted
  <2>. SUFFICES ASSUME IInv PROVE Accounted
    OBVIOUS
  <2>1. TypeOK
    BY DEF TypeOK, IInv, ScalarInv, LaneInv, TurnInv, AheadInv
  <2>2. PlacesCounted /\ QueueBounds
    BY DEF IInv, CountInv, PlacesCounted
  <2>3. LanesConsistent
    <3>1. /\ DOMAIN lanes = 1 .. Len(lanes)
          /\ \A h \in Household : DOMAIN waiting[h] = 1 .. Len(waiting[h])
      BY DEF IInv, TurnInv, LaneInv
    <3>2. \A h \in Household : h \in LaneSet <=> waiting[h] # <<>>
      BY <3>1 DEF LaneSet, IInv, TurnInv
    <3>3. \A j, k \in DOMAIN lanes : lanes[j] = lanes[k] => j = k
      BY <3>1 DEF IInv, TurnInv
    <3>4. \A h \in Household : \A j, k \in DOMAIN waiting[h] :
            /\ Lane(waiting[h][k]) = h /\ call[waiting[h][k]].state = "waiting"
            /\ waiting[h][j] = waiting[h][k] => j = k
      BY <3>1 DEF IInv, LaneInv, Waits
    <3>5. \A c \in Call : call[c].state = "waiting" => \E k \in DOMAIN waiting[Lane(c)] : waiting[Lane(c)][k] = c
      BY <3>1, LaneAssumption DEF LaneAssumption, Lane, IInv, LaneInv, Waits
    <3>. QED
      BY <3>2, <3>3, <3>4, <3>5 DEF LanesConsistent
  <2>4. RefusedForItself
    BY RoomForItself, HouseholdAssumption, LaneAssumption DEF RefusedForItself, HasRoom
  <2>. QED
    BY <2>1, <2>2, <2>3, <2>4 DEF Accounted
<1>. QED
  BY <1>1, Invariant, PTL

\* Calls that wait are never slept on while a place is free.
THEOREM NoLostWakeupAlways == Spec => []NoLostWakeup
<1>1. IInv => NoLostWakeup
  BY DEF IInv
<1>. QED
  BY <1>1, Invariant, PTL

\* A household waits for at most one turn of each other household with calls waiting.
THEOREM OneTurnEachAlways == Spec => OneTurnEach
<1>1. IInv /\ [Next]_vars =>
        [\A c \in Call : Starts(c) => \A h \in LaneSet \ {Lane(c)} : Lane(c) \in ahead[h]]_vars
  <2>. SUFFICES ASSUME IInv, Next, NEW c \in Call, Starts(c), NEW h \in LaneSet \ {Lane(c)}
                PROVE  Lane(c) \in ahead[h]
    OBVIOUS
  <2>1. call \in [Call -> Job] /\ call[c].state = "waiting" /\ call'[c].state = "flying"
    BY DEF Starts, IInv, ScalarInv
  <2>2. Start
    <3>1. ASSUME NEW d \in Call, Run(d) PROVE FALSE
      <4>1. call' = [call EXCEPT ![d] = [state |-> "waiting", deadline |-> QueueTimeout, retried |-> FALSE]]
        BY <3>1 DEF Run
      <4>. QED
        BY <2>1, <4>1
    <3>2. ASSUME NEW d \in Call, call' = [call EXCEPT ![d] = NoJob] PROVE FALSE
      <4>1. NoJob.state = "none"
        BY JobTypes
      <4>. QED
        BY <2>1, <3>2, <4>1
    <3>3. ASSUME NEW d \in Call, NEW wait \in 0..MaxRetryAfter, RateLimited(d, wait) PROVE FALSE
      <4>1. CASE MayRetry(d)
        <5>1. call' = [call EXCEPT ![d] = [call[d] EXCEPT !.state = "waiting", !.retried = TRUE]]
          BY <3>3, <4>1 DEF RateLimited
        <5>2. [call[d] EXCEPT !.state = "waiting", !.retried = TRUE].state = "waiting"
          <6>1. call[d] \in Job
            BY <2>1
          <6>. QED
            BY <6>1, JobTypes
        <5>. QED
          BY <2>1, <5>1, <5>2
      <4>2. CASE ~MayRetry(d)
        BY <3>2, <3>3, <4>2 DEF RateLimited, Forget
      <4>. QED
        BY <4>1, <4>2
    <3>4. ~Tick
      <4>1. ASSUME Tick PROVE call'[c].state = call[c].state
        <5>1. call'[c] = [call[c] EXCEPT !.deadline = Less1(call[c].deadline)] /\ call[c] \in Job
          BY <2>1, <4>1 DEF Tick
        <5>. QED
          BY <5>1 DEF Job
      <4>. QED
        BY <2>1, <4>1
    <3>5. call' # call
      BY <2>1
    <3>6. /\ ~Sleep /\ ~Wake /\ \A d \in Call : ~LateAnswer(d)
      BY <3>5 DEF Sleep, Wake, LateAnswer
    <3>7. \A d \in Call : ~AbortWaiting(d) /\ ~QueueTimesOut(d) /\ ~Answer(d) /\ ~GiveUp(d)
      BY <3>2 DEF AbortWaiting, QueueTimesOut, Dequeue, Answer, GiveUp, Forget
    <3>. QED
      BY <3>1, <3>3, <3>4, <3>6, <3>7 DEF Next, Calls, Timers
  <2>3. PICK d \in Call : Lane(d) = Head(lanes) /\ call' = [call EXCEPT ![d].state = "flying"]
    BY <2>2, StartKeeps, LaneAssumption DEF IInv, ScalarInv
  <2>4. c = d
    BY <2>1, <2>3
  <2>5. lanes \in Seq(Household) /\ lanes # <<>>
    BY <2>2 DEF Start, MayStart, IInv, TurnInv
  <2>6. PICK k \in 1 .. Len(lanes) : h = lanes[k]
    BY <2>5 DEF LaneSet
  <2>7. Lane(c) = lanes[1] /\ 1 \in 1 .. Len(lanes) /\ k # 1
    BY <2>3, <2>4, <2>5, <2>6, TailWithout
  <2>8. 1 < k
    BY <2>5, <2>7
  <2>. QED
    BY <2>6, <2>7, <2>8 DEF IInv, AheadInv
<1>. QED
  BY <1>1, Invariant, PTL DEF Spec, OneTurnEach
=============================================================================
