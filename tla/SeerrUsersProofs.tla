---------------------------- MODULE SeerrUsersProofs ----------------------------
(***************************************************************************)
(* SeerrUsers' safety for any members, Seerr users and calls, any number   *)
(* of relinks and invalidations and any bound on the stamps remembered.    *)
(***************************************************************************)
EXTENDS SeerrUsers, WellFoundedInduction, TLAPS

-----------------------------------------------------------------------------
(* The inductive invariant *)

Trusting(c) == calls[c].at \in {"waiting", "confirming", "heard", "ready"}

\* A lookup asks for the member of the call that began it, and one that is still registered is not stale.
LookupsInv ==
  /\ counter \in Nat
  /\ \A c \in Call : lookups[c].member = MemberOf[c]
  /\ \A c \in Call : calls[c].at = "waiting" => calls[c].on \in Call
  /\ \A m \in Member : pending[m] # NoLookup => ~lookups[pending[m]].stale

\* A call that is under way read a version its member has had; while it is still theirs, nothing was invalidated.
VersionsInv ==
  \A c \in Call : Trusting(c) =>
    /\ calls[c].version <= Version(MemberOf[c])
    /\ SameVersion(c) => calls[c].fresh
    /\ calls[c].untold => SameVersion(c)

IInv == TypeOK /\ WaitsForAnAnswer /\ LookupsInv /\ VersionsInv

\* What Seerr says today.
Right(m, s) == s \in {Unknown, Missing} \/ linked[s] = m
RightLookup(c) == lookups[c].at = "read" => Right(MemberOf[c], lookups[c].user)

\* What a member's next attempt will find.
RightNext(m) ==
  /\ Right(m, cache[m])
  /\ pending[m] # NoLookup => RightLookup(pending[m])

\* Nobody looks up a member who is remembered.
OneAnswer == \A m \in Member : cache[m] # Unknown => pending[m] = NoLookup

\* An answer that was read names a Seerr user or none, and what is confirmed is one.
CandidatesInv ==
  \A c \in Call :
    /\ lookups[c].at = "read" => lookups[c].user \in Candidate
    /\ calls[c].at \in {"confirming", "heard"} => calls[c].user \in SeerrUser

\* A call of a member who stayed linked and was not invalidated waits for the registered lookup; what it tries is
\* remembered nowhere else once found wrong, and its second attempt finds only what is right.
AttemptsInv ==
  \A c \in Call : calls[c].steady /\ calls[c].untold =>
    LET m == MemberOf[c] IN
    /\ calls[c].at = "waiting" => pending[m] = calls[c].on
    /\ calls[c].at \in {"confirming", "heard"} =>
         /\ cache[m] = calls[c].user \/ Right(m, cache[m])
         /\ pending[m] # NoLookup => RightLookup(pending[m])
    /\ calls[c].attempt = 2 =>
         /\ calls[c].at = "trying" => RightNext(m)
         /\ calls[c].at = "waiting" => RightLookup(calls[c].on)
         /\ calls[c].at = "confirming" => linked[calls[c].user] = m
         /\ calls[c].at = "heard" => calls[c].says

CInv == IInv /\ OneAnswer /\ CandidatesInv /\ AttemptsInv

-----------------------------------------------------------------------------
(* Versions *)

\* Among numbers there is a least one.
LEMMA LeastNumber ==
  ASSUME NEW T, T \subseteq Nat, T # {}
  PROVE  \E n \in T : \A k \in T : n <= k
<1>1. \E n \in T : \A k \in T : <<k, n>> \notin OpToRel(<, Nat)
  BY NatLessThanWellFounded, WFMin
<1>2. PICK n \in T : \A k \in T : <<k, n>> \notin OpToRel(<, Nat)
  BY <1>1
<1>3. ASSUME NEW k \in T, k < n  PROVE FALSE
  <2>1. <<k, n>> \in Nat \X Nat /\ <<k, n>>[1] < <<k, n>>[2]
    BY <1>3
  <2>2. <<k, n>> \in OpToRel(<, Nat)
    BY <2>1, Zenon DEF OpToRel
  <2>. QED
    BY <1>2, <2>2
<1>4. \A k \in T : n <= k
  BY <1>3
<1>. QED
  BY <1>4

\* An invalidation stamps the member and evicts at most one stamp, which the floor then covers: no version goes
\* down, and the member's is new.
LEMMA InvalidateFacts ==
  ASSUME IInv, NEW m \in Member, Invalidate(m)
  PROVE  /\ counter' = counter + 1
         /\ stamps' \in [Member -> 0..counter'] /\ floor' \in 0..counter'
         /\ \A k \in Member : Version(k) <= Version(k)'
         /\ Version(m)' = counter'
         /\ Told({m}, [k \in Member |-> Version(k)'])
<1> DEFINE stamped == [stamps EXCEPT ![m] = counter + 1]
           kept    == {k \in Member : stamped[k] # 0}
           oldest  == CHOOSE k \in kept : \A j \in kept : stamped[k] <= stamped[j]
           out     == IF Cardinality(kept) > MaxEntries THEN {oldest} ELSE {}
<1>1. /\ counter \in Nat /\ counter' = counter + 1
      /\ stamps \in [Member -> 0..counter] /\ floor \in 0..counter
      /\ stamped \in [Member -> 0..counter + 1]
      /\ \A k \in Member : stamps[k] <= stamped[k]
      /\ stamped[m] = counter + 1
      /\ m \in kept
  BY DEF IInv, TypeOK, LookupsInv, Invalidate
<1>2. /\ stamps' = [k \in Member |-> IF k \in out THEN 0 ELSE stamped[k]]
      /\ floor' = FloorOver({stamped[k] : k \in out})
      /\ Told({m}, [k \in Member |-> Max2(stamps'[k], floor')])
  BY DEF Invalidate
<1>3. oldest \in kept
  <2>1. {stamped[k] : k \in kept} \subseteq Nat /\ {stamped[k] : k \in kept} # {}
    BY <1>1
  <2>2. PICK n \in {stamped[k] : k \in kept} : \A j \in {stamped[k] : k \in kept} : n <= j
    BY <2>1, LeastNumber
  <2>3. PICK k \in kept : n = stamped[k]
    BY <2>2
  <2>4. \E i \in kept : \A j \in kept : stamped[i] <= stamped[j]
    BY <2>2, <2>3
  <2>. QED
    BY <2>4
<1>4. \/ out = {} /\ floor' = floor
      \/ out = {oldest} /\ floor' = Max2(floor, stamped[oldest])
  <2>. HIDE DEF oldest, stamped, kept
  <2>1. CASE out = {}
    BY <1>2, <2>1 DEF FloorOver
  <2>2. CASE out = {oldest}
    <3>1. {stamped[k] : k \in out} = {stamped[oldest]}
      BY <2>2
    <3>2. stamped[oldest] <= stamped[oldest]
      BY <1>1, <1>3 DEF kept
    <3>3. (CHOOSE n \in {stamped[oldest]} : \A k \in {stamped[oldest]} : k <= n) = stamped[oldest]
      BY <3>2
    <3>. QED
      BY <1>2, <2>2, <3>1, <3>3 DEF FloorOver
  <2>. QED
    BY <2>1, <2>2
<1>. HIDE DEF oldest, stamped, kept, out
<1>5. oldest \in Member
  BY <1>3 DEF kept
<1>6. stamps' \in [Member -> 0..counter'] /\ floor' \in 0..counter'
  BY <1>1, <1>2, <1>4, <1>5 DEF Max2
<1>7. \A k \in Member : Version(k) <= Version(k)'
  BY <1>1, <1>2, <1>4, <1>5, <1>6 DEF Version, Max2
<1>8. Version(m)' = counter'
  BY <1>1, <1>2, <1>4, <1>5, <1>6 DEF Version, Max2
<1>9. \A k \in Member : Version(k)' = Max2(stamps'[k], floor')
  BY DEF Version
<1>10. [k \in Member |-> Max2(stamps'[k], floor')] = [k \in Member |-> Version(k)']
  BY <1>9
<1>. QED
  BY <1>1, <1>2, <1>6, <1>7, <1>8, <1>10

\* So does clearing, for every member.
LEMMA ClearFacts ==
  ASSUME IInv, Clear
  PROVE  /\ counter' = counter + 1
         /\ stamps' \in [Member -> 0..counter'] /\ floor' \in 0..counter'
         /\ \A k \in Member : Version(k) <= Version(k)' /\ Version(k)' = counter'
         /\ Told(Member, [k \in Member |-> Version(k)'])
<1>1. /\ counter \in Nat /\ counter' = counter + 1 /\ floor' = counter + 1
      /\ stamps \in [Member -> 0..counter] /\ floor \in 0..counter
      /\ stamps' = [k \in Member |-> 0]
      /\ Told(Member, [k \in Member |-> floor'])
  BY DEF IInv, TypeOK, LookupsInv, Clear
<1>2. stamps' \in [Member -> 0..counter'] /\ floor' \in 0..counter'
  BY <1>1
<1>3. \A k \in Member : Version(k) <= Version(k)' /\ Version(k)' = counter' /\ Version(k)' = floor'
  BY <1>1 DEF Version, Max2
<1>4. [k \in Member |-> floor'] = [k \in Member |-> Version(k)']
  BY <1>3
<1>. QED
  BY <1>1, <1>2, <1>3, <1>4

-----------------------------------------------------------------------------
(* The invariant *)

\* The invariant holds at the start.
LEMMA Initially == Init => IInv
<1>. SUFFICES ASSUME Init PROVE IInv
  OBVIOUS
<1>. USE CallAssumption, LinkAssumption, NamesAssumption
<1>1. TypeOK
  BY DEF Init, TypeOK, Ended, Idle, Lookup, CallType, Candidate
<1>2. \A c \in Call : calls[c].at = "idle" /\ lookups[c].member = MemberOf[c]
  BY DEF Init, Ended, Idle
<1>3. \A m \in Member : pending[m] = NoLookup
  BY DEF Init
<1>4. WaitsForAnAnswer /\ LookupsInv /\ VersionsInv
  BY <1>2, <1>3 DEF WaitsForAnAnswer, LookupsInv, VersionsInv, Trusting, Init
<1>. QED
  BY <1>1, <1>4 DEF IInv

\* What an invalidation does to the lookups and the calls under way keeps the invariant.
LEMMA ToldStep ==
  ASSUME IInv, NEW ms \in SUBSET Member,
         counter' = counter + 1, linked' = linked,
         stamps' \in [Member -> 0..counter'], floor' \in 0..counter',
         \A k \in Member : Version(k) <= Version(k)',
         \A k \in ms : Version(k)' = counter',
         cache' = [k \in Member |-> IF k \in ms THEN Unknown ELSE cache[k]],
         pending' = [k \in Member |-> IF k \in ms THEN NoLookup ELSE pending[k]],
         Told(ms, [k \in Member |-> Version(k)'])
  PROVE  IInv'
<1>. USE CallAssumption, NamesAssumption
<1>1. /\ counter \in Nat /\ counter' \in Nat
      /\ \A k \in Member : Version(k) \in Nat /\ Version(k)' \in Nat /\ Version(k) <= counter
  BY DEF IInv, LookupsInv, TypeOK, Version, Max2
<1>2. \A c \in Call :
        /\ lookups'[c] \in Lookup
        /\ lookups'[c].at = lookups[c].at /\ lookups'[c].member = lookups[c].member
        /\ lookups'[c].member \notin ms => lookups'[c].stale = lookups[c].stale
  <2>. TAKE c \in Call
  <2>1. lookups[c] \in Lookup
    BY DEF IInv, TypeOK
  <2>2. CASE UnderWay(c) /\ lookups[c].member \in ms
    <3>1. lookups'[c] = [lookups[c] EXCEPT !.stale = TRUE]
      BY <2>2, Zenon DEF Told
    <3>2. /\ lookups'[c] \in Lookup
          /\ lookups'[c].at = lookups[c].at /\ lookups'[c].member = lookups[c].member
      BY <2>1, <3>1 DEF Lookup
    <3>. QED
      BY <2>2, <3>2
  <2>3. CASE ~(UnderWay(c) /\ lookups[c].member \in ms)
    <3>1. lookups'[c] = lookups[c]
      BY <2>3, Zenon DEF Told
    <3>. QED
      BY <2>1, <3>1
  <2>. QED
    BY <2>2, <2>3
<1>3. \A c \in Call :
        /\ calls'[c] \in CallType
        /\ calls'[c].at = calls[c].at /\ calls'[c].on = calls[c].on
        /\ calls'[c].version = calls[c].version
        /\ Trusting(c) =>
             /\ calls'[c].fresh = (calls[c].fresh /\ MemberOf[c] \notin ms)
             /\ calls'[c].untold = (calls[c].untold /\ Version(MemberOf[c])' = Version(MemberOf[c]))
  <2>. TAKE c \in Call
  <2>1. calls[c] \in CallType /\ MemberOf[c] \in Member
    BY DEF IInv, TypeOK
  <2>2. CASE calls[c].at \in {"idle", "refused", "sent"}
    <3>1. calls'[c] = calls[c] /\ ~Trusting(c)
      BY <2>2 DEF Told, Trusting
    <3>. QED
      BY <2>1, <3>1
  <2>3. CASE calls[c].at \notin {"idle", "refused", "sent"}
    <3>1. calls'[c] = [calls[c] EXCEPT !.fresh = calls[c].fresh /\ MemberOf[c] \notin ms,
                                       !.untold = calls[c].untold /\ Version(MemberOf[c])' = Version(MemberOf[c])]
      BY <2>1, <2>3, Zenon DEF Told
    <3>. QED
      BY <2>1, <3>1 DEF CallType
  <2>. QED
    BY <2>2, <2>3
<1>4. TypeOK'
  <2>1. lookups' \in [Call -> Lookup] /\ calls' \in [Call -> CallType]
    BY <1>2, <1>3 DEF Told
  <2>2. cache' \in [Member -> Candidate \cup {Unknown}] /\ pending' \in [Member -> Call \cup {NoLookup}]
    BY DEF IInv, TypeOK
  <2>. QED
    BY <2>1, <2>2 DEF IInv, TypeOK
<1>5. WaitsForAnAnswer'
  <2>1. \A m \in Member : pending'[m] # NoLookup => pending'[m] \in Call /\ pending'[m] = pending[m]
    BY DEF IInv, TypeOK
  <2>2. \A m \in Member : pending'[m] # NoLookup => UnderWay(pending[m])' /\ lookups'[pending'[m]].member = m
    BY <1>2, <2>1 DEF IInv, WaitsForAnAnswer, UnderWay
  <2>3. \A c \in Call : calls'[c].at = "waiting" =>
          calls[c].on \in Call /\ UnderWay(calls[c].on) /\ lookups[calls[c].on].member = MemberOf[c]
    BY <1>3 DEF IInv, WaitsForAnAnswer, LookupsInv
  <2>4. \A c \in Call : calls'[c].at = "waiting" =>
          UnderWay(calls[c].on)' /\ lookups'[calls'[c].on].member = MemberOf[c]
    BY <1>2, <1>3, <2>3 DEF UnderWay
  <2>. QED
    BY <1>3, <2>1, <2>2, <2>4 DEF WaitsForAnAnswer, UnderWay
<1>6. LookupsInv'
  <2>1. \A c \in Call : lookups'[c].member = MemberOf[c] /\ (calls'[c].at = "waiting" => calls'[c].on \in Call)
    BY <1>2, <1>3 DEF IInv, LookupsInv
  <2>2. ASSUME NEW m \in Member, pending'[m] # NoLookup  PROVE ~lookups'[pending'[m]].stale
    <3>1. m \notin ms /\ pending'[m] = pending[m] /\ pending[m] \in Call
      BY <2>2 DEF IInv, TypeOK
    <3>2. lookups[pending[m]].member = m /\ ~lookups[pending[m]].stale
      BY <2>2, <3>1 DEF IInv, WaitsForAnAnswer, LookupsInv
    <3>. QED
      BY <1>2, <3>1, <3>2
  <2>. QED
    BY <1>1, <2>1, <2>2 DEF LookupsInv
<1>7. VersionsInv'
  <2>. SUFFICES ASSUME NEW c \in Call, Trusting(c)'
                PROVE  /\ (calls[c].version <= Version(MemberOf[c]))'
                       /\ SameVersion(c)' => calls'[c].fresh
                       /\ calls'[c].untold => SameVersion(c)'
    BY DEF VersionsInv
  <2>1. Trusting(c) /\ MemberOf[c] \in Member /\ calls[c].version \in Nat
    BY <1>3 DEF Trusting, IInv, TypeOK, CallType
  <2>2. /\ calls[c].version <= Version(MemberOf[c])
        /\ SameVersion(c) => calls[c].fresh
        /\ calls[c].untold => SameVersion(c)
    BY <2>1 DEF IInv, VersionsInv
  <2>3. SameVersion(c)' <=> calls[c].version = Version(MemberOf[c])'
    BY <1>3 DEF SameVersion
  <2>4. SameVersion(c)' => SameVersion(c) /\ MemberOf[c] \notin ms
    BY <1>1, <2>1, <2>2, <2>3 DEF SameVersion
  <2>5. calls'[c].version <= Version(MemberOf[c])'
    BY <1>1, <1>3, <2>1, <2>2
  <2>6. SameVersion(c)' => calls'[c].fresh
    BY <1>3, <2>1, <2>2, <2>4
  <2>7. calls'[c].untold => SameVersion(c)'
    BY <1>3, <2>1, <2>2, <2>3 DEF SameVersion
  <2>. QED
    BY <2>5, <2>6, <2>7
<1>. QED
  BY <1>4, <1>5, <1>6, <1>7 DEF IInv

\* Invalidating a member keeps the invariant.
LEMMA InvalidateStep ==
  ASSUME IInv, NEW m \in Member, Invalidate(m)
  PROVE  IInv'
<1>1. /\ counter' = counter + 1
      /\ stamps' \in [Member -> 0..counter'] /\ floor' \in 0..counter'
      /\ \A k \in Member : Version(k) <= Version(k)'
      /\ Version(m)' = counter'
      /\ Told({m}, [k \in Member |-> Version(k)'])
  BY InvalidateFacts
<1>2. /\ linked' = linked
      /\ cache' = [k \in Member |-> IF k \in {m} THEN Unknown ELSE cache[k]]
      /\ pending' = [k \in Member |-> IF k \in {m} THEN NoLookup ELSE pending[k]]
  BY DEF Invalidate, seerr, IInv, TypeOK
<1>. QED
  BY <1>1, <1>2, ToldStep

\* Clearing all mappings keeps the invariant.
LEMMA ClearStep ==
  ASSUME IInv, Clear
  PROVE  IInv'
<1>1. /\ counter' = counter + 1
      /\ stamps' \in [Member -> 0..counter'] /\ floor' \in 0..counter'
      /\ \A k \in Member : Version(k) <= Version(k)' /\ Version(k)' = counter'
      /\ Told(Member, [k \in Member |-> Version(k)'])
  BY ClearFacts
<1>2. /\ linked' = linked
      /\ cache' = [k \in Member |-> IF k \in Member THEN Unknown ELSE cache[k]]
      /\ pending' = [k \in Member |-> IF k \in Member THEN NoLookup ELSE pending[k]]
  BY DEF Clear, seerr
<1>. QED
  BY <1>1, <1>2, ToldStep

\* A step of one call keeps the invariant if what it becomes agrees with the lookups and the versions.
LEMMA CallStep ==
  ASSUME IInv, NEW c \in Call, NEW r \in CallType,
         calls' = [calls EXCEPT ![c] = r],
         UNCHANGED <<linked, pending, lookups, versions>>,
         cache' \in [Member -> Candidate \cup {Unknown}],
         r.at = "waiting" => r.on \in Call /\ UnderWay(r.on) /\ lookups[r.on].member = MemberOf[c],
         r.at \in {"waiting", "confirming", "heard", "ready"} =>
           /\ r.version <= Version(MemberOf[c])
           /\ r.version = Version(MemberOf[c]) => r.fresh
           /\ r.untold => r.version = Version(MemberOf[c])
  PROVE  IInv'
<1>1. calls'[c] = r /\ \A d \in Call \ {c} : calls'[d] = calls[d]
  BY DEF IInv, TypeOK
<1>2. /\ linked' = linked /\ pending' = pending /\ lookups' = lookups
      /\ stamps' = stamps /\ floor' = floor /\ counter' = counter
      /\ \A m \in Member : Version(m)' = Version(m)
  BY DEF versions, Version
<1>3. TypeOK'
  BY <1>2 DEF IInv, TypeOK
<1>4. WaitsForAnAnswer'
  <2>1. \A d \in Call : calls'[d].at = "waiting" => UnderWay(calls'[d].on) /\ lookups[calls'[d].on].member = MemberOf[d]
    BY <1>1 DEF IInv, WaitsForAnAnswer
  <2>. QED
    BY <1>2, <2>1 DEF IInv, WaitsForAnAnswer, UnderWay
<1>5. LookupsInv'
  BY <1>1, <1>2 DEF IInv, LookupsInv
<1>6. VersionsInv'
  <2>. SUFFICES ASSUME NEW d \in Call, Trusting(d)'
                PROVE  /\ calls'[d].version <= Version(MemberOf[d])'
                       /\ calls'[d].version = Version(MemberOf[d])' => calls'[d].fresh
                       /\ calls'[d].untold => calls'[d].version = Version(MemberOf[d])'
    BY DEF VersionsInv, SameVersion
  <2>0. Version(MemberOf[d])' = Version(MemberOf[d])
    BY <1>2, CallAssumption
  <2>1. CASE d = c
    BY <1>1, <2>0, <2>1 DEF Trusting
  <2>2. CASE d # c
    <3>1. calls'[d] = calls[d] /\ Trusting(d)
      BY <1>1, <2>2 DEF Trusting
    <3>. QED
      BY <2>0, <3>1 DEF IInv, VersionsInv, SameVersion
  <2>. QED
    BY <2>1, <2>2
<1>. QED
  BY <1>3, <1>4, <1>5, <1>6 DEF IInv

\* What a call may become.
LEMMA CallTypes ==
  ASSUME IInv, NEW c \in Call
  PROVE  /\ MemberOf[c] \in Member /\ calls[c] \in CallType /\ Version(MemberOf[c]) \in Nat
         /\ Idle \in CallType /\ Idle.at = "idle"
         /\ Refused \in CallType /\ Refused.at = "refused"
         /\ Trying(c) \in CallType
         /\ Trying(c).version = Version(MemberOf[c]) /\ Trying(c).fresh
         /\ Again(c) \in CallType /\ Again(c).at \in {"refused", "trying"}
<1>. USE CallAssumption, NamesAssumption
<1>1. MemberOf[c] \in Member /\ calls[c] \in CallType /\ Version(MemberOf[c]) \in Nat
  BY DEF IInv, TypeOK, Version, Max2, LookupsInv
<1>2. Idle \in CallType /\ Idle.at = "idle" /\ Refused \in CallType /\ Refused.at = "refused"
  BY DEF Idle, Refused, CallType
<1>3. Trying(c) \in CallType /\ Trying(c).version = Version(MemberOf[c]) /\ Trying(c).fresh
  BY <1>1 DEF Trying, CallType
<1>4. Again(c) \in CallType /\ Again(c).at \in {"refused", "trying"}
  <2>1. CASE calls[c].attempt = 2
    BY <1>2, <2>1 DEF Again
  <2>2. CASE calls[c].attempt # 2
    <3>1. Again(c) = [calls[c] EXCEPT !.at = "trying", !.attempt = 2, !.user = Unknown, !.says = FALSE]
      BY <2>2 DEF Again
    <3>. QED
      BY <1>1, <3>1 DEF CallType
  <2>. QED
    BY <2>1, <2>2
<1>. QED
  BY <1>1, <1>2, <1>3, <1>4

\* A call that starts or joins a lookup keeps the invariant.
LEMMA StartsLookupStep ==
  ASSUME IInv, NEW c \in Call, StartsLookup(c)
  PROVE  IInv'
<1>. USE CallAssumption, NamesAssumption
<1> DEFINE m == MemberOf[c]
           r == [Trying(c) EXCEPT !.at = "waiting", !.on = c]
<1>1. /\ r \in CallType /\ r.at = "waiting" /\ r.on = c /\ r.version = Version(m) /\ r.fresh
      /\ Version(m) \in Nat /\ m \in Member
  <2> DEFINE t == Trying(c)
  <2>1. t \in CallType /\ t.version = Version(m) /\ t.fresh /\ Version(m) \in Nat /\ m \in Member
    BY CallTypes
  <2>. HIDE DEF t
  <2>2. [t EXCEPT !.at = "waiting", !.on = c] \in CallType
    BY <2>1 DEF CallType
  <2>3. LET w == [t EXCEPT !.at = "waiting", !.on = c]
        IN  w.at = "waiting" /\ w.on = c /\ w.version = Version(m) /\ w.fresh
    BY <2>1 DEF CallType
  <2>. QED
    BY <2>1, <2>2, <2>3 DEF t
<1>2. /\ calls' = [calls EXCEPT ![c] = r]
      /\ lookups' = [lookups EXCEPT ![c] = [member |-> m, at |-> "sent", user |-> Unknown, stale |-> FALSE]]
      /\ pending' = [pending EXCEPT ![m] = c]
      /\ linked' = linked /\ cache' = cache /\ stamps' = stamps /\ floor' = floor /\ counter' = counter
  BY DEF StartsLookup, seerr, versions
<1>. HIDE DEF r
<1>3. /\ calls'[c] = r /\ \A d \in Call \ {c} : calls'[d] = calls[d]
      /\ lookups'[c] = [member |-> m, at |-> "sent", user |-> Unknown, stale |-> FALSE]
      /\ \A d \in Call \ {c} : lookups'[d] = lookups[d]
      /\ pending'[m] = c /\ \A k \in Member \ {m} : pending'[k] = pending[k]
      /\ \A k \in Member : Version(k)' = Version(k)
  BY <1>1, <1>2 DEF IInv, TypeOK, Version
<1>4. TypeOK'
  BY <1>1, <1>2 DEF IInv, TypeOK, Lookup
<1>5. WaitsForAnAnswer'
  <2>1. \A k \in Member : pending'[k] # NoLookup => UnderWay(pending[k])' /\ lookups'[pending'[k]].member = k
    BY <1>3 DEF IInv, TypeOK, WaitsForAnAnswer, UnderWay, LookupsInv
  <2>2. \A d \in Call : calls'[d].at = "waiting" => UnderWay(calls[d].on)' /\ lookups'[calls'[d].on].member = MemberOf[d]
    BY <1>1, <1>3 DEF IInv, TypeOK, WaitsForAnAnswer, UnderWay, LookupsInv
  <2>. QED
    BY <2>1, <2>2 DEF WaitsForAnAnswer, UnderWay
<1>6. LookupsInv'
  <2>1. \A d \in Call : lookups'[d].member = MemberOf[d] /\ (calls'[d].at = "waiting" => calls'[d].on \in Call)
    BY <1>1, <1>3 DEF IInv, LookupsInv
  <2>2. \A k \in Member : pending'[k] # NoLookup => ~lookups'[pending'[k]].stale
    BY <1>3 DEF IInv, TypeOK, LookupsInv
  <2>. QED
    BY <1>2, <2>1, <2>2 DEF IInv, LookupsInv
<1>7. VersionsInv'
  <2>. SUFFICES ASSUME NEW d \in Call, Trusting(d)'
                PROVE  /\ calls'[d].version <= Version(MemberOf[d])'
                       /\ calls'[d].version = Version(MemberOf[d])' => calls'[d].fresh
                       /\ calls'[d].untold => calls'[d].version = Version(MemberOf[d])'
    BY DEF VersionsInv, SameVersion
  <2>0. Version(MemberOf[d])' = Version(MemberOf[d])
    BY <1>3
  <2>1. CASE d = c
    BY <1>1, <1>3, <2>0, <2>1
  <2>2. CASE d # c
    <3>1. calls'[d] = calls[d] /\ Trusting(d)
      BY <1>3, <2>2 DEF Trusting
    <3>. QED
      BY <2>0, <3>1 DEF IInv, VersionsInv, SameVersion
  <2>. QED
    BY <2>1, <2>2
<1>. QED
  BY <1>4, <1>5, <1>6, <1>7 DEF IInv

\* A lookup that ends lets go of its registration and of whoever waits for it.
LEMMA LookupEndsStep ==
  ASSUME IInv, NEW c \in Call, UnderWay(c),
         UNCHANGED <<linked, versions>>,
         cache' \in [Member -> Candidate \cup {Unknown}],
         pending' = IF pending[lookups[c].member] = c THEN [pending EXCEPT ![lookups[c].member] = NoLookup] ELSE pending,
         lookups' = [lookups EXCEPT ![c] = Ended(MemberOf[c])],
         calls' \in [Call -> CallType],
         \A d \in Call \ Waiting(c) : calls'[d] = calls[d],
         \A d \in Waiting(c) :
           \/ calls'[d].at \in {"idle", "refused"}
           \/ /\ calls'[d].at = "confirming" /\ calls'[d].version = calls[d].version
              /\ calls'[d].fresh = calls[d].fresh /\ calls'[d].untold = calls[d].untold
  PROVE  IInv'
<1>. USE CallAssumption, NamesAssumption
<1> DEFINE m == MemberOf[c]
<1>1. /\ m \in Member /\ lookups[c].member = m
      /\ Ended(m) \in Lookup /\ Ended(m).at = "none" /\ Ended(m).member = m
  BY DEF IInv, LookupsInv, Ended, Lookup
<1>2. /\ lookups'[c].at = "none" /\ lookups'[c].member = m /\ lookups' \in [Call -> Lookup]
      /\ \A d \in Call \ {c} : lookups'[d] = lookups[d]
  BY <1>1 DEF IInv, TypeOK
<1>3. /\ pending' \in [Member -> Call \cup {NoLookup}]
      /\ \A k \in Member : pending'[k] # NoLookup => pending'[k] = pending[k] /\ pending[k] \in Call \ {c}
  <2>1. \A k \in Member : pending[k] = c => k = m
    BY <1>1 DEF IInv, WaitsForAnAnswer
  <2>. QED
    BY <1>1, <2>1 DEF IInv, TypeOK
<1>4. \A d \in Call : calls'[d].at = "waiting" => calls'[d] = calls[d] /\ calls[d].on \in Call \ {c}
  BY DEF IInv, LookupsInv, Waiting
<1>5. /\ linked' = linked /\ stamps' = stamps /\ floor' = floor /\ counter' = counter
      /\ \A k \in Member : Version(k)' = Version(k)
  BY DEF versions, Version
<1>6. TypeOK'
  BY <1>2, <1>3, <1>5 DEF IInv, TypeOK
<1>7. WaitsForAnAnswer'
  <2>1. \A k \in Member : pending'[k] # NoLookup => UnderWay(pending[k])' /\ lookups'[pending'[k]].member = k
    BY <1>2, <1>3 DEF IInv, WaitsForAnAnswer, UnderWay
  <2>2. \A d \in Call : calls'[d].at = "waiting" => UnderWay(calls[d].on)' /\ lookups'[calls'[d].on].member = MemberOf[d]
    BY <1>2, <1>4 DEF IInv, WaitsForAnAnswer, UnderWay
  <2>. QED
    BY <2>1, <2>2 DEF WaitsForAnAnswer, UnderWay
<1>8. LookupsInv'
  <2>1. \A d \in Call : lookups'[d].member = MemberOf[d] /\ (calls'[d].at = "waiting" => calls'[d].on \in Call)
    BY <1>2, <1>4 DEF IInv, LookupsInv
  <2>2. \A k \in Member : pending'[k] # NoLookup => ~lookups'[pending'[k]].stale
    BY <1>2, <1>3 DEF IInv, LookupsInv
  <2>. QED
    BY <1>5, <2>1, <2>2 DEF IInv, LookupsInv
<1>9. VersionsInv'
  <2>. SUFFICES ASSUME NEW d \in Call, Trusting(d)'
                PROVE  /\ calls'[d].version <= Version(MemberOf[d])'
                       /\ calls'[d].version = Version(MemberOf[d])' => calls'[d].fresh
                       /\ calls'[d].untold => calls'[d].version = Version(MemberOf[d])'
    BY DEF VersionsInv, SameVersion
  <2>0. Version(MemberOf[d])' = Version(MemberOf[d])
    BY <1>5
  <2>1. /\ Trusting(d) /\ calls'[d].version = calls[d].version
        /\ calls'[d].fresh = calls[d].fresh /\ calls'[d].untold = calls[d].untold
    <3>1. CASE d \in Waiting(c)
      BY <3>1 DEF Waiting, Trusting
    <3>2. CASE d \notin Waiting(c)
      BY <3>2 DEF Trusting
    <3>. QED
      BY <3>1, <3>2
  <2>. QED
    BY <2>0, <2>1 DEF IInv, VersionsInv, SameVersion
<1>. QED
  BY <1>6, <1>7, <1>8, <1>9 DEF IInv

\* A lookup's answer, cached or not, keeps the invariant.
LEMMA LookupAnsweredStep ==
  ASSUME IInv, NEW c \in Call, LookupAnswered(c)
  PROVE  IInv'
<1>. USE CallAssumption, NamesAssumption
<1> DEFINE s == lookups[c].user
           heard(d) == [calls[d] EXCEPT !.at = "confirming", !.on = NoLookup, !.user = s]
<1>1. UnderWay(c) /\ lookups[c].member \in Member /\ s \in Candidate \cup {Unknown}
  BY DEF LookupAnswered, UnderWay, IInv, TypeOK, Lookup
<1>2. cache' \in [Member -> Candidate \cup {Unknown}]
  BY <1>1 DEF LookupAnswered, IInv, TypeOK
<1>3. /\ DOMAIN calls' = Call /\ calls' = [d \in Call |-> calls'[d]]
      /\ \A d \in Call : calls'[d] = IF d \notin Waiting(c) THEN calls[d] ELSE IF s = Missing THEN Refused ELSE heard(d)
  BY DEF LookupAnswered
<1>4. ASSUME NEW d \in Call
      PROVE  /\ calls'[d] \in CallType
             /\ d \notin Waiting(c) => calls'[d] = calls[d]
             /\ d \in Waiting(c) =>
                  \/ calls'[d].at \in {"idle", "refused"}
                  \/ /\ calls'[d].at = "confirming" /\ calls'[d].version = calls[d].version
                     /\ calls'[d].fresh = calls[d].fresh /\ calls'[d].untold = calls[d].untold
  <2>1. /\ calls[d] \in CallType /\ Refused \in CallType /\ Refused.at = "refused"
    BY CallTypes
  <2>2. s # Missing => heard(d) \in CallType
    BY <1>1, <2>1 DEF CallType, Candidate
  <2>3. /\ heard(d).at = "confirming" /\ heard(d).version = calls[d].version
        /\ heard(d).fresh = calls[d].fresh /\ heard(d).untold = calls[d].untold
    BY <2>1 DEF CallType
  <2>. HIDE DEF heard, s
  <2>. QED
    BY <1>3, <2>1, <2>2, <2>3
<1>5. calls' \in [Call -> CallType]
  BY <1>3, <1>4
<1>6. \A d \in Waiting(c) : d \in Call
  BY DEF Waiting
<1>7. /\ UNCHANGED <<linked, versions>>
      /\ lookups' = [lookups EXCEPT ![c] = Ended(MemberOf[c])]
      /\ pending' = IF pending[lookups[c].member] = c THEN [pending EXCEPT ![lookups[c].member] = NoLookup] ELSE pending
  BY DEF LookupAnswered, seerr
<1>. QED
  BY <1>1, <1>2, <1>4, <1>5, <1>6, <1>7, LookupEndsStep

\* A failed lookup keeps the invariant.
LEMMA LookupFailsStep ==
  ASSUME IInv, NEW c \in Call, LookupFails(c)
  PROVE  IInv'
<1>1. calls' = [d \in Call |-> IF d \in Waiting(c) THEN Idle ELSE calls[d]]
  BY DEF LookupFails
<1>2. Idle \in CallType /\ Idle.at = "idle"
  BY CallTypes
<1>3. calls' \in [Call -> CallType] /\ \A d \in Call \ Waiting(c) : calls'[d] = calls[d]
  BY <1>1, <1>2 DEF IInv, TypeOK
<1>4. \A d \in Waiting(c) : calls'[d].at \in {"idle", "refused"}
  BY <1>1, <1>2 DEF Waiting
<1>5. /\ UNCHANGED <<linked, versions>> /\ UnderWay(c)
      /\ cache' \in [Member -> Candidate \cup {Unknown}]
      /\ lookups' = [lookups EXCEPT ![c] = Ended(MemberOf[c])]
      /\ pending' = IF pending[lookups[c].member] = c THEN [pending EXCEPT ![lookups[c].member] = NoLookup] ELSE pending
  BY DEF LookupFails, seerr, IInv, TypeOK
<1>. QED
  BY <1>3, <1>4, <1>5, LookupEndsStep

\* Seerr reading who a lookup asks for keeps the invariant.
LEMMA LookupReadStep ==
  ASSUME IInv, NEW c \in Call, LookupRead(c)
  PROVE  IInv'
<1> DEFINE s == UserOf(lookups[c].member)
<1>1. s \in Candidate
  BY DEF UserOf, Candidate
<1>2. /\ lookups' = [lookups EXCEPT ![c].at = "read", ![c].user = s]
      /\ linked' = linked /\ cache' = cache /\ pending' = pending /\ calls' = calls
      /\ stamps' = stamps /\ floor' = floor /\ counter' = counter
      /\ lookups[c].at = "sent"
  BY DEF LookupRead, seerr, versions
<1>. HIDE DEF s
<1>3. /\ lookups' \in [Call -> Lookup]
      /\ lookups'[c].at = "read" /\ lookups'[c].member = lookups[c].member /\ lookups'[c].stale = lookups[c].stale
      /\ \A d \in Call \ {c} : lookups'[d] = lookups[d]
  <2>1. lookups[c] \in Lookup /\ lookups' = [lookups EXCEPT ![c] = [lookups[c] EXCEPT !.at = "read", !.user = s]]
    BY <1>2 DEF IInv, TypeOK
  <2>2. /\ [lookups[c] EXCEPT !.at = "read", !.user = s] \in Lookup
        /\ LET r == [lookups[c] EXCEPT !.at = "read", !.user = s]
           IN  r.at = "read" /\ r.member = lookups[c].member /\ r.stale = lookups[c].stale
    BY <1>1, <2>1 DEF Lookup
  <2>. QED
    BY <2>1, <2>2 DEF IInv, TypeOK
<1>4. \A d \in Call : /\ lookups'[d].member = lookups[d].member /\ lookups'[d].stale = lookups[d].stale
                      /\ UnderWay(d) => lookups'[d].at # "none"
  BY <1>3 DEF UnderWay
<1>5. TypeOK'
  BY <1>2, <1>3 DEF IInv, TypeOK
<1>6. WaitsForAnAnswer'
  <2>1. \A k \in Member : pending[k] # NoLookup => UnderWay(pending[k])' /\ lookups'[pending[k]].member = k
    BY <1>2, <1>4 DEF IInv, TypeOK, WaitsForAnAnswer, UnderWay
  <2>2. ASSUME NEW d \in Call, calls[d].at = "waiting"
        PROVE  UnderWay(calls[d].on)' /\ lookups'[calls[d].on].member = MemberOf[d]
    <3>1. UnderWay(calls[d].on) /\ lookups[calls[d].on].member = MemberOf[d] /\ calls[d].on \in Call
      BY <2>2 DEF IInv, LookupsInv, WaitsForAnAnswer
    <3>2. UnderWay(calls[d].on)' <=> lookups'[calls[d].on].at # "none"
      BY <1>2 DEF UnderWay
    <3>. QED
      BY <1>4, <3>1, <3>2
  <2>. QED
    BY <1>2, <2>1, <2>2 DEF WaitsForAnAnswer
<1>7. LookupsInv'
  BY <1>2, <1>4 DEF IInv, TypeOK, LookupsInv
<1>8. VersionsInv'
  BY <1>2 DEF IInv, VersionsInv, Trusting, SameVersion, Version
<1>. QED
  BY <1>5, <1>6, <1>7, <1>8 DEF IInv

\* A relink in Seerr keeps the invariant.
LEMMA RelinkStep ==
  ASSUME IInv, NEW s \in SeerrUser, NEW m \in Member \cup {Nobody}, Relink(s, m)
  PROVE  IInv'
<1>1. /\ linked' \in [SeerrUser -> Member \cup {Nobody}]
      /\ cache' = cache /\ pending' = pending /\ lookups' = lookups
      /\ stamps' = stamps /\ floor' = floor /\ counter' = counter
  BY DEF Relink, IInv, TypeOK, users, versions
<1>2. ASSUME NEW c \in Call
      PROVE  /\ calls'[c] \in CallType /\ calls'[c].at = calls[c].at /\ calls'[c].on = calls[c].on
             /\ calls'[c].version = calls[c].version
             /\ calls'[c].fresh = calls[c].fresh /\ calls'[c].untold = calls[c].untold
  <2>1. calls[c] \in CallType
    BY DEF IInv, TypeOK
  <2>2. calls'[c] \in {calls[c], [calls[c] EXCEPT !.steady = FALSE]}
    BY Zenon DEF Relink
  <2>3. LET r == [calls[c] EXCEPT !.steady = FALSE]
        IN  /\ r \in CallType /\ r.at = calls[c].at /\ r.on = calls[c].on /\ r.version = calls[c].version
            /\ r.fresh = calls[c].fresh /\ r.untold = calls[c].untold
    BY <2>1 DEF CallType
  <2>. QED
    BY <2>1, <2>2, <2>3
<1>3. TypeOK'
  <2>1. calls' \in [Call -> CallType]
    BY <1>2 DEF Relink
  <2>. QED
    BY <1>1, <2>1 DEF IInv, TypeOK
<1>4. WaitsForAnAnswer' /\ LookupsInv'
  <2>1. \A c \in Call : calls'[c].at = "waiting" => UnderWay(calls'[c].on) /\ lookups[calls'[c].on].member = MemberOf[c]
    BY <1>2 DEF IInv, WaitsForAnAnswer
  <2>. QED
    BY <1>1, <1>2, <2>1 DEF IInv, WaitsForAnAnswer, LookupsInv, UnderWay
<1>5. VersionsInv'
  BY <1>1, <1>2 DEF IInv, VersionsInv, Trusting, SameVersion, Version
<1>. QED
  BY <1>3, <1>4, <1>5 DEF IInv

\* Every step keeps the invariant.
LEMMA Inductive == IInv /\ [Next]_vars => IInv'
<1>. SUFFICES ASSUME IInv, [Next]_vars PROVE IInv'
  OBVIOUS
<1>. USE CallAssumption, NamesAssumption
<1>1. ASSUME NEW s \in SeerrUser, NEW m \in Member \cup {Nobody}, Relink(s, m) PROVE IInv'
  BY <1>1, RelinkStep
<1>2. ASSUME NEW m \in Member, Expires(m) PROVE IInv'
  <2>1. /\ linked' = linked /\ pending' = pending /\ lookups' = lookups /\ calls' = calls
        /\ stamps' = stamps /\ floor' = floor /\ counter' = counter
        /\ cache' \in [Member -> Candidate \cup {Unknown}]
    BY <1>2 DEF Expires, seerr, versions, IInv, TypeOK
  <2>. QED
    BY <2>1 DEF IInv, TypeOK, WaitsForAnAnswer, LookupsInv, VersionsInv, Trusting, SameVersion, Version, UnderWay
<1>3. ASSUME NEW m \in Member, Invalidate(m) PROVE IInv'
  BY <1>3, InvalidateStep
<1>4. CASE Clear
  BY <1>4, ClearStep
<1>5. ASSUME NEW c \in Call, NEW requester \in BOOLEAN, Begin(c, requester) PROVE IInv'
  <2> DEFINE r == [Idle EXCEPT !.at = "trying", !.requester = requester]
  <2>1. r \in CallType /\ r.at = "trying"
    BY DEF Idle, CallType
  <2>2. /\ calls' = [calls EXCEPT ![c] = r] /\ UNCHANGED <<linked, pending, lookups, versions>>
        /\ cache' \in [Member -> Candidate \cup {Unknown}]
    BY <1>5 DEF Begin, seerr, users, IInv, TypeOK
  <2>. HIDE DEF r
  <2>. QED
    BY <2>1, <2>2, CallStep
<1>6. ASSUME NEW c \in Call, TriesCached(c) PROVE IInv'
  <2> DEFINE s == cache[MemberOf[c]]
             r == IF s = Missing THEN Refused ELSE [Trying(c) EXCEPT !.at = "confirming", !.user = s]
  <2>1. MemberOf[c] \in Member /\ s \in Candidate \cup {Unknown}
    BY DEF IInv, TypeOK
  <2>2. /\ r \in CallType /\ r.at \in {"refused", "confirming"}
        /\ r.at = "confirming" => r.version = Version(MemberOf[c]) /\ r.fresh
    <3> DEFINE t == Trying(c)
    <3>1. t \in CallType /\ t.version = Version(MemberOf[c]) /\ t.fresh /\ Refused \in CallType /\ Refused.at = "refused"
      BY CallTypes
    <3>. HIDE DEF t, s
    <3>2. ASSUME s \in SeerrUser \cup {Unknown}
          PROVE  LET w == [t EXCEPT !.at = "confirming", !.user = s]
                 IN  w \in CallType /\ w.at = "confirming" /\ w.version = Version(MemberOf[c]) /\ w.fresh
      BY <3>1, <3>2 DEF CallType
    <3>3. s # Missing => s \in SeerrUser \cup {Unknown}
      BY <2>1 DEF Candidate
    <3>. QED
      BY <3>1, <3>2, <3>3 DEF t
  <2>3. /\ calls' = [calls EXCEPT ![c] = r] /\ UNCHANGED <<linked, pending, lookups, versions>>
        /\ cache' \in [Member -> Candidate \cup {Unknown}]
    BY <1>6 DEF TriesCached, seerr, users, IInv, TypeOK
  <2>4. Version(MemberOf[c]) \in Nat
    BY CallTypes
  <2>. HIDE DEF r, s
  <2>5. r.at \in {"waiting", "confirming", "heard", "ready"} =>
          /\ r.version <= Version(MemberOf[c])
          /\ r.version = Version(MemberOf[c]) => r.fresh
          /\ r.untold => r.version = Version(MemberOf[c])
    BY <2>2, <2>4
  <2>. QED
    BY <2>2, <2>3, <2>5, CallStep
<1>7. ASSUME NEW c \in Call, JoinsLookup(c) PROVE IInv'
  <2> DEFINE m == MemberOf[c]
             r == [Trying(c) EXCEPT !.at = "waiting", !.on = pending[m]]
  <2>1. m \in Member /\ pending[m] \in Call /\ UnderWay(pending[m]) /\ lookups[pending[m]].member = m
    BY <1>7 DEF JoinsLookup, IInv, TypeOK, WaitsForAnAnswer
  <2>2. r \in CallType /\ r.at = "waiting" /\ r.on = pending[m] /\ r.version = Version(m) /\ r.fresh
    <3> DEFINE t == Trying(c)
    <3>1. t \in CallType /\ t.version = Version(m) /\ t.fresh
      BY CallTypes
    <3>. HIDE DEF t
    <3>2. LET w == [t EXCEPT !.at = "waiting", !.on = pending[m]]
          IN  w \in CallType /\ w.at = "waiting" /\ w.on = pending[m] /\ w.version = Version(m) /\ w.fresh
      BY <2>1, <3>1 DEF CallType
    <3>. QED
      BY <3>2 DEF t
  <2>3. /\ calls' = [calls EXCEPT ![c] = r] /\ UNCHANGED <<linked, pending, lookups, versions>>
        /\ cache' \in [Member -> Candidate \cup {Unknown}]
    BY <1>7 DEF JoinsLookup, seerr, users, IInv, TypeOK
  <2>4. Version(m) \in Nat
    BY CallTypes
  <2>. HIDE DEF r
  <2>5. /\ r.version <= Version(m)
        /\ r.version = Version(m) => r.fresh
        /\ r.untold => r.version = Version(m)
    BY <2>2, <2>4
  <2>6. r.on \in Call /\ UnderWay(r.on) /\ lookups[r.on].member = m
    BY <2>1, <2>2
  <2>. QED
    BY <2>2, <2>3, <2>5, <2>6, CallStep
<1>8. ASSUME NEW c \in Call, StartsLookup(c) PROVE IInv'
  BY <1>8, StartsLookupStep
<1>9. ASSUME NEW c \in Call, LookupRead(c) PROVE IInv'
  BY <1>9, LookupReadStep
<1>10. ASSUME NEW c \in Call, LookupAnswered(c) PROVE IInv'
  BY <1>10, LookupAnsweredStep
<1>11. ASSUME NEW c \in Call, LookupFails(c) PROVE IInv'
  BY <1>11, LookupFailsStep
<1>12. ASSUME NEW c \in Call, Confirms(c) PROVE IInv'
  <2> DEFINE r == [calls[c] EXCEPT !.at = "heard", !.says = (linked[calls[c].user] = MemberOf[c])]
  <2>1. /\ r \in CallType /\ r.at = "heard"
        /\ r.version = calls[c].version /\ r.fresh = calls[c].fresh /\ r.untold = calls[c].untold
    <3> DEFINE b == linked[calls[c].user] = MemberOf[c]
    <3>1. b \in BOOLEAN /\ calls[c] \in CallType
      BY CallTypes
    <3>. HIDE DEF b
    <3>2. LET w == [calls[c] EXCEPT !.at = "heard", !.says = b]
          IN  /\ w \in CallType /\ w.at = "heard"
              /\ w.version = calls[c].version /\ w.fresh = calls[c].fresh /\ w.untold = calls[c].untold
      BY <3>1 DEF CallType
    <3>. QED
      BY <3>2 DEF b
  <2>2. /\ calls' = [calls EXCEPT ![c] = r] /\ UNCHANGED <<linked, pending, lookups, versions>>
        /\ cache' \in [Member -> Candidate \cup {Unknown}] /\ Trusting(c)
    BY <1>12 DEF Confirms, seerr, users, IInv, TypeOK, Trusting
  <2>. HIDE DEF r
  <2>3. /\ r.version <= Version(MemberOf[c])
        /\ r.version = Version(MemberOf[c]) => r.fresh
        /\ r.untold => r.version = Version(MemberOf[c])
    BY <2>1, <2>2 DEF IInv, VersionsInv, SameVersion
  <2>. QED
    BY <2>1, <2>2, <2>3, CallStep
<1>13. ASSUME NEW c \in Call, Mismatch(c) \/ Invalidated(c) PROVE IInv'
  <2>1. Again(c) \in CallType /\ Again(c).at \in {"refused", "trying"}
    BY CallTypes
  <2>2. /\ calls' = [calls EXCEPT ![c] = Again(c)] /\ UNCHANGED <<linked, pending, lookups, versions>>
        /\ cache' \in [Member -> Candidate \cup {Unknown}]
    BY <1>13 DEF Mismatch, Invalidated, Forget, seerr, users, IInv, TypeOK
  <2>. QED
    BY <2>1, <2>2, CallStep
<1>14. ASSUME NEW c \in Call, Confirmed(c) PROVE IInv'
  <2> DEFINE r == [calls[c] EXCEPT !.at = IF calls[c].requester THEN "ready" ELSE "sent"]
  <2>1. /\ r \in CallType /\ r.at \in {"ready", "sent"}
        /\ r.version = calls[c].version /\ r.fresh = calls[c].fresh /\ r.untold = calls[c].untold
    BY CallTypes DEF CallType
  <2>2. /\ calls' = [calls EXCEPT ![c] = r] /\ UNCHANGED <<linked, pending, lookups, versions>>
        /\ cache' \in [Member -> Candidate \cup {Unknown}] /\ Trusting(c)
    BY <1>14 DEF Confirmed, seerr, users, IInv, TypeOK, Trusting
  <2>. HIDE DEF r
  <2>3. /\ r.version <= Version(MemberOf[c])
        /\ r.version = Version(MemberOf[c]) => r.fresh
        /\ r.untold => r.version = Version(MemberOf[c])
    BY <2>1, <2>2 DEF IInv, VersionsInv, SameVersion
  <2>. QED
    BY <2>1, <2>2, <2>3, CallStep
<1>15. ASSUME NEW c \in Call, SendKept(c) PROVE IInv'
  <2> DEFINE r == IF SameVersion(c) THEN [calls[c] EXCEPT !.at = "sent"] ELSE Refused
  <2>1. r \in CallType /\ r.at \in {"sent", "refused"}
    BY CallTypes DEF CallType
  <2>2. /\ calls' = [calls EXCEPT ![c] = r] /\ UNCHANGED <<linked, pending, lookups, versions>>
        /\ cache' \in [Member -> Candidate \cup {Unknown}]
    BY <1>15 DEF SendKept, seerr, users, IInv, TypeOK
  <2>. HIDE DEF r
  <2>. QED
    BY <2>1, <2>2, CallStep
<1>16. ASSUME NEW c \in Call, Ends(c) \/ Fails(c) PROVE IInv'
  <2>1. Idle \in CallType /\ Idle.at = "idle"
    BY CallTypes
  <2>2. /\ calls' = [calls EXCEPT ![c] = Idle] /\ UNCHANGED <<linked, pending, lookups, versions>>
        /\ cache' \in [Member -> Candidate \cup {Unknown}]
    BY <1>16 DEF Ends, Fails, Forget, seerr, users, IInv, TypeOK
  <2>. QED
    BY <2>1, <2>2, CallStep
<1>17. CASE UNCHANGED vars
  BY <1>17 DEF vars, seerr, users, versions, IInv, TypeOK, WaitsForAnAnswer, LookupsInv, VersionsInv, Trusting,
               SameVersion, Version, UnderWay
<1>. QED
  BY <1>1, <1>2, <1>3, <1>4, <1>5, <1>6, <1>7, <1>8, <1>9, <1>10, <1>11, <1>12, <1>13, <1>14, <1>15, <1>16, <1>17
     DEF Next

-----------------------------------------------------------------------------
(* Who moves a call *)

\* The step of another, or of Seerr, or an invalidation: only the history may change.
SameCall(c) ==
  /\ calls[c].at \in {"idle", "refused"} => calls'[c] = calls[c]
  /\ calls'[c].at = calls[c].at /\ calls'[c].attempt = calls[c].attempt
  /\ calls'[c].on = calls[c].on /\ calls'[c].user = calls[c].user /\ calls'[c].says = calls[c].says
  /\ calls'[c].steady => calls[c].steady
  /\ calls'[c].untold => calls[c].untold

CallActs(c) ==
  \/ \E requester \in BOOLEAN : Begin(c, requester)
  \/ TriesCached(c) \/ JoinsLookup(c) \/ StartsLookup(c)
  \/ Confirms(c) \/ Mismatch(c) \/ Invalidated(c) \/ Confirmed(c) \/ SendKept(c) \/ Ends(c) \/ Fails(c)

Answered(c) == \E d \in Call : c \in Waiting(d) /\ (LookupAnswered(d) \/ LookupFails(d))

\* Being told of an invalidation changes nothing else of a call.
LEMMA ToldCalls ==
  ASSUME TypeOK, NEW c \in Call, NEW ms, NEW version, Told(ms, version)
  PROVE  SameCall(c)
<1> DEFINE f == calls[c].fresh /\ MemberOf[c] \notin ms
           u == calls[c].untold /\ version[MemberOf[c]] = Version(MemberOf[c])
<1>1. calls[c] \in CallType /\ f \in BOOLEAN /\ u \in BOOLEAN /\ (u => calls[c].untold)
  BY DEF TypeOK
<1>2. calls'[c] = IF calls[c].at \in {"idle", "refused", "sent"} THEN calls[c]
                  ELSE [calls[c] EXCEPT !.fresh = f, !.untold = u]
  BY Zenon DEF Told
<1>. HIDE DEF f, u
<1>. QED
  BY <1>1, <1>2 DEF SameCall, CallType

\* What a step can do to a call: nothing, a step of its own, or the answer it awaits.
LEMMA CallMoves ==
  ASSUME TypeOK, [Next]_vars, NEW c \in Call
  PROVE  SameCall(c) \/ CallActs(c) \/ Answered(c)
<1>0. calls[c] \in CallType /\ DOMAIN calls = Call
  BY DEF TypeOK
<1>1. ASSUME calls' = calls PROVE SameCall(c)
  BY <1>1, <1>0 DEF SameCall
<1>2. ASSUME NEW d \in Call, NEW r, d # c, calls' = [calls EXCEPT ![d] = r] PROVE SameCall(c)
  <2>1. calls'[c] = calls[c]
    BY <1>0, <1>2
  <2>. QED
    BY <2>1 DEF SameCall
<1>3. ASSUME NEW d \in Call, calls'[c] = calls[c] PROVE SameCall(c)
  BY <1>3 DEF SameCall
<1>4. ASSUME NEW s \in SeerrUser, NEW m \in Member \cup {Nobody}, Relink(s, m) PROVE SameCall(c)
  <2>1. calls'[c] = IF calls[c].at \notin {"idle", "refused"} /\ MemberOf[c] \in {m, linked[s]}
                    THEN [calls[c] EXCEPT !.steady = FALSE] ELSE calls[c]
    BY <1>4, Zenon DEF Relink
  <2>. QED
    BY <1>0, <2>1 DEF SameCall, CallType
<1>5. ASSUME NEW m \in Member, Expires(m) \/ Invalidate(m) PROVE SameCall(c)
  <2>1. CASE Expires(m)
    BY <2>1, <1>1 DEF Expires
  <2>2. CASE Invalidate(m)
    BY <2>2, ToldCalls DEF Invalidate
  <2>. QED
    BY <1>5, <2>1, <2>2
<1>6. CASE Clear
  BY <1>6, ToldCalls DEF Clear
<1>7. ASSUME NEW d \in Call, CallActs(d) PROVE SameCall(c) \/ CallActs(c)
  <2>1. \E r : calls' = [calls EXCEPT ![d] = r]
    <3>1. CASE \E requester \in BOOLEAN : Begin(d, requester)
      BY <3>1 DEF Begin
    <3>2. CASE TriesCached(d) \/ JoinsLookup(d) \/ StartsLookup(d)
      BY <3>2 DEF TriesCached, JoinsLookup, StartsLookup
    <3>3. CASE Confirms(d)
      <4>1. calls[d] \in CallType
        BY DEF TypeOK
      <4>2. calls' = [calls EXCEPT ![d] = [calls[d] EXCEPT !.at = "heard", !.says = (linked[calls[d].user] = MemberOf[d])]]
        BY <3>3, <1>0, <4>1 DEF Confirms
      <4>. QED
        BY <4>2
    <3>4. CASE Confirmed(d)
      <4>1. calls[d] \in CallType
        BY DEF TypeOK
      <4>2. calls' = [calls EXCEPT ![d] = [calls[d] EXCEPT !.at = IF calls[d].requester THEN "ready" ELSE "sent"]]
        BY <3>4, <1>0, <4>1 DEF Confirmed
      <4>. QED
        BY <4>2
    <3>5. CASE Mismatch(d) \/ Invalidated(d) \/ SendKept(d)
      BY <3>5 DEF Mismatch, Invalidated, SendKept
    <3>6. CASE Ends(d) \/ Fails(d)
      BY <3>6 DEF Ends, Fails
    <3>. QED
      BY <1>7, <3>1, <3>2, <3>3, <3>4, <3>5, <3>6 DEF CallActs
  <2>. QED
    BY <1>2, <1>7, <2>1
<1>8. ASSUME NEW d \in Call, LookupRead(d) PROVE SameCall(c)
  BY <1>8, <1>1 DEF LookupRead
<1>9. ASSUME NEW d \in Call, LookupAnswered(d) \/ LookupFails(d) PROVE SameCall(c) \/ Answered(c)
  <2>1. CASE c \in Waiting(d)
    BY <1>9, <2>1 DEF Answered
  <2>2. CASE c \notin Waiting(d)
    <3>1. calls'[c] = calls[c]
      BY <1>9, <2>2, Zenon DEF LookupAnswered, LookupFails
    <3>. QED
      BY <3>1, <1>3
  <2>. QED
    BY <2>1, <2>2
<1>10. CASE UNCHANGED vars
  BY <1>10, <1>1 DEF vars
<1>. QED
  BY <1>4, <1>5, <1>6, <1>7, <1>8, <1>9, <1>10 DEF Next, CallActs

\* A lookup that ends was answered or failed.
LEMMA LookupEnded ==
  ASSUME TypeOK, [Next]_vars, NEW c \in Call, UnderWay(c), ~UnderWay(c)'
  PROVE  LookupAnswered(c) \/ LookupFails(c)
<1>0. /\ lookups[c] \in Lookup /\ DOMAIN lookups = Call
      /\ lookups[c].at # "none" /\ lookups'[c].at = "none"
  BY DEF TypeOK, UnderWay
<1>1. lookups' # lookups
  BY <1>0
<1>2. ASSUME NEW ms, NEW version, Told(ms, version) PROVE FALSE
  <2>1. lookups'[c] \in {lookups[c], [lookups[c] EXCEPT !.stale = TRUE]}
    BY <1>2, Zenon DEF Told
  <2>. QED
    BY <1>0, <2>1 DEF Lookup
<1>3. ASSUME NEW d \in Call, StartsLookup(d) PROVE FALSE
  BY <1>0, <1>3 DEF StartsLookup
<1>4. ASSUME NEW d \in Call, LookupRead(d) PROVE FALSE
  <2>1. lookups[d] \in Lookup
    BY DEF TypeOK
  <2>2. lookups' = [lookups EXCEPT ![d] = [lookups[d] EXCEPT !.at = "read", !.user = UserOf(lookups[d].member)]]
    BY <1>0, <1>4, <2>1 DEF LookupRead
  <2>3. [lookups[d] EXCEPT !.at = "read", !.user = UserOf(lookups[d].member)].at = "read"
    BY <2>1 DEF Lookup
  <2>. QED
    BY <1>0, <2>2, <2>3
<1>5. ASSUME NEW d \in Call, d # c, LookupAnswered(d) \/ LookupFails(d) PROVE FALSE
  <2>1. lookups' = [lookups EXCEPT ![d] = Ended(MemberOf[d])]
    BY <1>5, Zenon DEF LookupAnswered, LookupFails
  <2>. QED
    BY <1>0, <1>5, <2>1
<1>6. \/ \E m \in Member : Invalidate(m)
      \/ Clear
      \/ \E d \in Call : StartsLookup(d) \/ LookupRead(d) \/ LookupAnswered(d) \/ LookupFails(d)
  BY <1>1 DEF Next, vars, users, Relink, Expires, Begin, TriesCached, JoinsLookup, Confirms, Mismatch, Invalidated,
              Confirmed, SendKept, Ends, Fails
<1>. QED
  BY <1>2, <1>3, <1>4, <1>5, <1>6 DEF Invalidate, Clear

\* No call is sent on what an invalidation made stale, no stale lookup fills the cache and none is joined.
LEMMA StaleNeverUsedStep ==
  ASSUME IInv, IInv', [Next]_vars, NEW c \in Call
  PROVE  /\ Sends(c) => calls[c].fresh
         /\ Fills(c) => ~lookups[c].stale
         /\ Joins(c) => ~lookups'[calls'[c].on].stale
<1>. USE CallAssumption, NamesAssumption
<1>0. TypeOK /\ MemberOf[c] \in Member /\ lookups[c].member = MemberOf[c] /\ DOMAIN calls = Call
  BY DEF IInv, TypeOK, LookupsInv
<1>1. Sends(c) => calls[c].fresh
  <2>. SUFFICES ASSUME Sends(c), ~calls[c].fresh PROVE FALSE
    OBVIOUS
  <2>0. calls[c].at # "sent" /\ calls'[c].at = "sent" /\ ~SameCall(c)
    BY DEF Sends, SameCall
  <2>1. CASE \E requester \in BOOLEAN : Begin(c, requester)
    BY <1>0, <2>0, <2>1 DEF Begin, Idle
  <2>2. CASE TriesCached(c) \/ JoinsLookup(c) \/ StartsLookup(c)
    <3> DEFINE t == Trying(c)
    <3>1. t \in CallType /\ Refused.at = "refused"
      BY CallTypes
    <3>2. /\ \A s : [t EXCEPT !.at = "confirming", !.user = s].at = "confirming"
          /\ \A d : [t EXCEPT !.at = "waiting", !.on = d].at = "waiting"
      BY <3>1 DEF CallType
    <3>3. calls'[c].at \in {"refused", "confirming", "waiting"}
      <4>1. CASE TriesCached(c)
        BY <1>0, <3>1, <3>2, <4>1 DEF TriesCached
      <4>2. CASE JoinsLookup(c)
        BY <1>0, <3>1, <3>2, <4>2 DEF JoinsLookup
      <4>3. CASE StartsLookup(c)
        BY <1>0, <3>1, <3>2, <4>3 DEF StartsLookup
      <4>. QED
        BY <2>2, <4>1, <4>2, <4>3
    <3>. QED
      BY <2>0, <3>3
  <2>3. CASE Confirms(c)
    <3>1. calls[c] \in CallType
      BY CallTypes
    <3>2. calls'[c].at = "heard"
      BY <1>0, <2>3, <3>1 DEF Confirms, CallType
    <3>. QED
      BY <2>0, <3>2
  <2>4. CASE Mismatch(c) \/ Invalidated(c)
    BY <1>0, <2>0, <2>4, CallTypes DEF Mismatch, Invalidated
  <2>5. CASE Confirmed(c) \/ SendKept(c)
    <3>1. Trusting(c) /\ SameVersion(c)
      BY <1>0, <2>0, <2>5, CallTypes DEF Confirmed, SendKept, Trusting
    <3>. QED
      BY <3>1 DEF IInv, VersionsInv
  <2>6. CASE Ends(c) \/ Fails(c)
    BY <1>0, <2>0, <2>6 DEF Ends, Fails, Idle
  <2>7. CASE Answered(c)
    <3>1. PICK d \in Call : c \in Waiting(d) /\ (LookupAnswered(d) \/ LookupFails(d))
      BY <2>7 DEF Answered
    <3>2. calls[c] \in CallType /\ Refused.at = "refused" /\ Idle.at = "idle"
      BY CallTypes
    <3>3. \A s : [calls[c] EXCEPT !.at = "confirming", !.on = NoLookup, !.user = s].at = "confirming"
      BY <3>2 DEF CallType
    <3>4. CASE LookupAnswered(d)
      <4>1. calls'[c] = IF lookups[d].user = Missing THEN Refused
                        ELSE [calls[c] EXCEPT !.at = "confirming", !.on = NoLookup, !.user = lookups[d].user]
        BY <3>1, <3>4, Zenon DEF LookupAnswered
      <4>. QED
        BY <2>0, <3>2, <3>3, <4>1
    <3>5. CASE LookupFails(d)
      BY <2>0, <3>1, <3>2, <3>5 DEF LookupFails
    <3>. QED
      BY <3>1, <3>4, <3>5
  <2>. QED
    BY <1>0, <2>0, <2>1, <2>2, <2>3, <2>4, <2>5, <2>6, <2>7, CallMoves DEF CallActs
<1>2. Fills(c) => ~lookups[c].stale
  <2>. SUFFICES ASSUME Fills(c) PROVE ~lookups[c].stale
    OBVIOUS
  <2>1. LookupAnswered(c) \/ LookupFails(c)
    <3>1. UnderWay(c) /\ ~UnderWay(c)'
      BY DEF Fills
    <3>. QED
      BY <1>0, <3>1, LookupEnded
  <2>2. LookupAnswered(c) /\ Registered(c)
    BY <2>1 DEF Fills, LookupAnswered, LookupFails
  <2>. QED
    BY <1>0, <2>2 DEF Registered, IInv, LookupsInv
<1>3. Joins(c) => ~lookups'[calls'[c].on].stale
  <2>. SUFFICES ASSUME Joins(c) PROVE ~lookups'[calls'[c].on].stale
    OBVIOUS
  <2>0. calls[c].at = "trying" /\ calls'[c].at = "waiting" /\ ~SameCall(c) /\ ~Answered(c)
    BY DEF Joins, SameCall, Answered, Waiting
  <2> DEFINE m == MemberOf[c]
             t == Trying(c)
  <2>1. t \in CallType /\ Refused.at = "refused" /\ m \in Member
    BY CallTypes
  <2>2. /\ \A s : [t EXCEPT !.at = "confirming", !.user = s].at = "confirming"
        /\ \A d : [t EXCEPT !.at = "waiting", !.on = d].on = d
    BY <2>1 DEF CallType
  <2>3. CASE TriesCached(c)
    <3>1. calls'[c].at \in {"refused", "confirming"}
      BY <1>0, <2>1, <2>2, <2>3 DEF TriesCached
    <3>. QED
      BY <2>0, <3>1
  <2>4. CASE JoinsLookup(c)
    <3>1. calls'[c].on = pending[m] /\ lookups' = lookups /\ pending[m] # NoLookup
      BY <1>0, <2>2, <2>4 DEF JoinsLookup, users
    <3>. QED
      BY <2>1, <3>1 DEF IInv, LookupsInv
  <2>5. CASE StartsLookup(c)
    <3>1. calls'[c].on = c /\ lookups'[c] = [member |-> m, at |-> "sent", user |-> Unknown, stale |-> FALSE]
      BY <1>0, <2>2, <2>5 DEF StartsLookup, IInv, TypeOK
    <3>. QED
      BY <3>1
  <2>6. CASE CallActs(c) /\ ~TriesCached(c) /\ ~JoinsLookup(c) /\ ~StartsLookup(c)
    BY <2>0, <2>6 DEF CallActs, Begin, Confirms, Mismatch, Invalidated, Confirmed, SendKept, Ends, Fails
  <2>. QED
    BY <1>0, <2>0, <2>3, <2>4, <2>5, <2>6, CallMoves DEF CallActs
<1>. QED
  BY <1>1, <1>2, <1>3

\* The inductive invariant: the types, what is awaited, and what is known of lookups and of versions.
THEOREM Invariant == Spec => []IInv
<1>. QED
  BY Initially, Inductive, PTL DEF Spec

\* What is under way is awaited, and what an invalidation made stale is not used, however stamps are forgotten.
THEOREM LookupsFollowAlways == Spec => LookupsFollow
<1>1. IInv => TypeOK /\ WaitsForAnAnswer
  BY DEF IInv
<1>2. IInv /\ IInv' /\ [Next]_vars =>
        [\A c \in Call : /\ Sends(c) => calls[c].fresh
                         /\ Fills(c) => ~lookups[c].stale
                         /\ Joins(c) => ~lookups'[calls'[c].on].stale]_vars
  BY StaleNeverUsedStep
<1>. QED
  BY <1>1, <1>2, Invariant, PTL DEF Spec, LookupsFollow, StaleNeverUsed

-----------------------------------------------------------------------------
(* What a call may still find *)

\* Who was linked to the member still is.
StaysLinked(m) == \A s \in SeerrUser : linked[s] = m => linked'[s] = m

\* What a step makes of a lookup: the same, no answer, or Seerr's of today.
LookupMoves(c) ==
  \/ lookups'[c].at = lookups[c].at /\ lookups'[c].user = lookups[c].user
  \/ lookups'[c].at \in {"none", "sent"}
  \/ lookups'[c].at = "read" /\ lookups'[c].user \in Candidate /\ Right(MemberOf[c], lookups[c].user)'

\* What a step makes of the answer that is remembered: the same, nothing, or the one of the registered lookup.
CacheMoves(m) ==
  \/ cache'[m] = cache[m] /\ (pending'[m] \in {pending[m], NoLookup} \/ cache[m] = Unknown)
  \/ cache'[m] = Unknown
  \/ /\ pending[m] # NoLookup /\ lookups[pending[m]].at = "read" /\ cache'[m] = lookups[pending[m]].user
     /\ pending'[m] = NoLookup

PendingMoves(m) == pending'[m] \in {pending[m], NoLookup} \/ lookups'[pending'[m]].at = "sent"

\* Being told of an invalidation is all that happens to a lookup then.
LEMMA ToldLookups ==
  ASSUME TypeOK, NEW c \in Call, NEW ms, NEW version, Told(ms, version)
  PROVE  LookupMoves(c)
<1>1. lookups[c] \in Lookup
  BY DEF TypeOK
<1>2. lookups'[c] \in {lookups[c], [lookups[c] EXCEPT !.stale = TRUE]}
  BY Zenon DEF Told
<1>. QED
  BY <1>1, <1>2 DEF LookupMoves, Lookup

\* What a step can do to a lookup.
LEMMA LookupsMove ==
  ASSUME IInv, [Next]_vars, NEW c \in Call
  PROVE  LookupMoves(c)
<1>0. TypeOK /\ lookups[c] \in Lookup /\ DOMAIN lookups = Call /\ lookups[c].member = MemberOf[c]
  BY DEF IInv, TypeOK, LookupsInv
<1>1. CASE lookups'[c] = lookups[c]
  BY <1>1 DEF LookupMoves
<1>2. CASE \E m \in Member : Invalidate(m)
  BY <1>0, <1>2, ToldLookups DEF Invalidate
<1>3. CASE Clear
  BY <1>0, <1>3, ToldLookups DEF Clear
<1>4. ASSUME NEW d \in Call, StartsLookup(d) PROVE LookupMoves(c)
  <2>1. d # c => lookups'[c] = lookups[c]
    BY <1>0, <1>4 DEF StartsLookup
  <2>2. d = c => lookups'[c].at = "sent"
    BY <1>0, <1>4 DEF StartsLookup
  <2>. QED
    BY <1>1, <2>1, <2>2 DEF LookupMoves
<1>5. ASSUME NEW d \in Call, LookupRead(d) PROVE LookupMoves(c)
  <2> DEFINE s == UserOf(lookups[d].member)
  <2>1. d # c => lookups'[c] = lookups[c]
    BY <1>0, <1>5 DEF LookupRead
  <2>2. s \in Candidate /\ (s = Missing \/ linked[s] = lookups[d].member)
    BY DEF UserOf, Candidate
  <2>3. CASE d = c
    <3>1. /\ lookups' = [lookups EXCEPT ![c].at = "read", ![c].user = s]
          /\ linked' = linked
      BY <1>5, <2>3 DEF LookupRead, seerr
    <3>. HIDE DEF s
    <3>2. lookups'[c].at = "read" /\ lookups'[c].user = s
      BY <1>0, <3>1 DEF Lookup
    <3>3. Right(MemberOf[c], lookups[c].user)'
      BY <1>0, <2>2, <2>3, <3>1, <3>2 DEF Right
    <3>. QED
      BY <2>2, <3>2, <3>3 DEF LookupMoves
  <2>. QED
    BY <1>1, <2>1, <2>3
<1>6. ASSUME NEW d \in Call, LookupAnswered(d) \/ LookupFails(d) PROVE LookupMoves(c)
  <2>0. lookups' = [lookups EXCEPT ![d] = Ended(MemberOf[d])]
    BY <1>6, Zenon DEF LookupAnswered, LookupFails
  <2>1. d # c => lookups'[c] = lookups[c]
    BY <1>0, <2>0
  <2>2. d = c => lookups'[c].at = "none"
    <3>1. Ended(MemberOf[d]).at = "none"
      BY DEF Ended
    <3>. QED
      BY <1>0, <2>0, <3>1
  <2>. QED
    BY <1>1, <2>1, <2>2 DEF LookupMoves
<1>7. \/ lookups' = lookups
      \/ \E m \in Member : Invalidate(m)
      \/ Clear
      \/ \E d \in Call : StartsLookup(d) \/ LookupRead(d) \/ LookupAnswered(d) \/ LookupFails(d)
  BY DEF Next, vars, users, Relink, Expires, Begin, TriesCached, JoinsLookup, Confirms, Mismatch, Invalidated,
         Confirmed, SendKept, Ends, Fails
<1>. QED
  BY <1>1, <1>2, <1>3, <1>4, <1>5, <1>6, <1>7

\* What a step can do to a member's cached mapping and registered lookup.
LEMMA CachesMove ==
  ASSUME IInv, [Next]_vars, NEW m \in Member
  PROVE  CacheMoves(m) /\ PendingMoves(m)
<1>. USE CallAssumption, NamesAssumption
<1>0. /\ DOMAIN cache = Member /\ DOMAIN pending = Member /\ DOMAIN lookups = Call
      /\ \A d \in Call : MemberOf[d] \in Member /\ lookups[d].member = MemberOf[d]
  BY DEF IInv, TypeOK, LookupsInv
<1>1. ASSUME cache'[m] = cache[m], pending'[m] \in {pending[m], NoLookup} PROVE CacheMoves(m) /\ PendingMoves(m)
  BY <1>1 DEF CacheMoves, PendingMoves
<1>2. ASSUME cache'[m] = Unknown, pending'[m] \in {pending[m], NoLookup} PROVE CacheMoves(m) /\ PendingMoves(m)
  BY <1>2 DEF CacheMoves, PendingMoves
<1>3. ASSUME NEW s, cache' = Forget(m, s), pending' = pending PROVE CacheMoves(m) /\ PendingMoves(m)
  BY <1>0, <1>1, <1>2, <1>3 DEF Forget
<1>4. ASSUME NEW k \in Member, k # m, NEW s, cache' \in {cache, Forget(k, s)}, pending' = pending
      PROVE  CacheMoves(m) /\ PendingMoves(m)
  BY <1>0, <1>1, <1>4 DEF Forget
<1>5. ASSUME NEW k \in Member, Expires(k) \/ Invalidate(k) PROVE CacheMoves(m) /\ PendingMoves(m)
  BY <1>0, <1>1, <1>2, <1>5 DEF Expires, Invalidate
<1>6. CASE Clear
  BY <1>0, <1>2, <1>6 DEF Clear
<1>7. ASSUME NEW d \in Call, StartsLookup(d) PROVE CacheMoves(m) /\ PendingMoves(m)
  <2>1. CASE MemberOf[d] = m
    BY <1>0, <1>7, <2>1 DEF StartsLookup, CacheMoves, PendingMoves
  <2>2. CASE MemberOf[d] # m
    BY <1>0, <1>1, <1>7, <2>2 DEF StartsLookup
  <2>. QED
    BY <2>1, <2>2
<1>8. ASSUME NEW d \in Call, LookupAnswered(d) PROVE CacheMoves(m) /\ PendingMoves(m)
  <2>1. CASE pending[MemberOf[d]] = d /\ MemberOf[d] = m
    BY <1>0, <1>8, <2>1 DEF LookupAnswered, Registered, CacheMoves, PendingMoves
  <2>2. CASE pending[MemberOf[d]] # d \/ MemberOf[d] # m
    <3>1. cache'[m] = cache[m] /\ pending'[m] = pending[m]
      BY <1>0, <1>8, <2>2 DEF LookupAnswered, Registered
    <3>. QED
      BY <1>1, <3>1
  <2>. QED
    BY <2>1, <2>2
<1>9. ASSUME NEW d \in Call, LookupFails(d) PROVE CacheMoves(m) /\ PendingMoves(m)
  BY <1>0, <1>1, <1>9 DEF LookupFails
<1>10. ASSUME NEW d \in Call, Mismatch(d) \/ Ends(d) PROVE CacheMoves(m) /\ PendingMoves(m)
  <2>1. cache' \in {cache, Forget(MemberOf[d], calls[d].user)} /\ pending' = pending
    BY <1>10, Zenon DEF Mismatch, Ends
  <2>. QED
    BY <1>0, <1>1, <1>3, <1>4, <2>1
<1>11. \/ cache' = cache /\ pending' = pending
       \/ \E k \in Member : Expires(k) \/ Invalidate(k)
       \/ Clear
       \/ \E d \in Call : StartsLookup(d) \/ LookupAnswered(d) \/ LookupFails(d) \/ Mismatch(d) \/ Ends(d)
  BY DEF Next, vars, users, Relink, LookupRead, Begin, TriesCached, JoinsLookup, Confirms, Invalidated,
         Confirmed, SendKept, Fails
<1>. QED
  BY <1>1, <1>5, <1>6, <1>7, <1>8, <1>9, <1>10, <1>11

\* What the steps of a call make of it.
LEMMA CallBecomes ==
  ASSUME IInv, NEW c \in Call, CallActs(c)
  PROVE  LET m == MemberOf[c]
             same == calls'[c].attempt = calls[c].attempt /\ calls'[c].steady = calls[c].steady /\ calls'[c].untold = calls[c].untold
         IN
         \/ /\ calls[c].at \in {"idle", "refused"}
            /\ calls'[c].at = "trying" /\ calls'[c].attempt = 1
         \/ /\ TriesCached(c) /\ cache[m] = Missing /\ calls'[c] = Refused
         \/ /\ TriesCached(c) /\ cache[m] \in SeerrUser
            /\ calls'[c].at = "confirming" /\ calls'[c].user = cache[m] /\ same
         \/ /\ JoinsLookup(c) /\ calls'[c].at = "waiting" /\ calls'[c].on = pending[m] /\ same
         \/ /\ StartsLookup(c) /\ calls'[c].at = "waiting" /\ calls'[c].on = c /\ same
         \/ /\ Confirms(c) /\ calls'[c].at = "heard" /\ calls'[c].user = calls[c].user /\ same
            /\ calls'[c].says = (linked[calls[c].user] = m)
         \/ /\ Mismatch(c) \/ Invalidated(c)
            /\ IF calls[c].attempt = 2 THEN calls'[c] = Refused
               ELSE /\ calls'[c].at = "trying"
                    /\ calls'[c].steady = calls[c].steady /\ calls'[c].untold = calls[c].untold
         \/ /\ SendKept(c) /\ ~SameVersion(c) /\ calls'[c] = Refused
         \/ calls'[c].at \in {"idle", "ready", "sent"}
<1> DEFINE m == MemberOf[c]
           t == Trying(c)
           r == calls[c]
<1>0. /\ DOMAIN calls = Call /\ r \in CallType /\ m \in Member /\ cache[m] \in Candidate \cup {Unknown}
  BY CallTypes DEF IInv, TypeOK
<1>1. /\ t \in CallType /\ t.attempt = r.attempt /\ t.steady = r.steady /\ t.untold = r.untold
  <2>1. t = [r EXCEPT !.version = Version(m), !.fresh = TRUE]
    BY DEF Trying
  <2>2. t.attempt = r.attempt /\ t.steady = r.steady /\ t.untold = r.untold
    BY <1>0, <2>1 DEF CallType
  <2>. QED
    BY <2>2, CallTypes
<1>. HIDE DEF t
<1>2. CASE \E requester \in BOOLEAN : Begin(c, requester)
  BY <1>0, <1>2 DEF Begin, Idle
<1>3. CASE TriesCached(c)
  <2>1. CASE cache[m] = Missing
    BY <1>0, <1>3, <2>1 DEF TriesCached
  <2>2. CASE cache[m] # Missing
    <3>1. cache[m] \in SeerrUser
      BY <1>0, <1>3, <2>2 DEF TriesCached, Candidate
    <3>2. calls' = [calls EXCEPT ![c] = [t EXCEPT !.at = "confirming", !.user = cache[m]]]
      BY <1>3, <2>2 DEF TriesCached, t
    <3>3. LET w == [t EXCEPT !.at = "confirming", !.user = cache[m]]
          IN  /\ w.at = "confirming" /\ w.user = cache[m]
              /\ w.attempt = r.attempt /\ w.steady = r.steady /\ w.untold = r.untold
      BY <1>1 DEF CallType
    <3>. QED
      BY <1>0, <1>3, <3>1, <3>2, <3>3
  <2>. QED
    BY <2>1, <2>2
<1>4. ASSUME NEW d, calls' = [calls EXCEPT ![c] = [t EXCEPT !.at = "waiting", !.on = d]]
      PROVE  /\ calls'[c].at = "waiting" /\ calls'[c].on = d
             /\ calls'[c].attempt = r.attempt /\ calls'[c].steady = r.steady /\ calls'[c].untold = r.untold
  <2>1. LET w == [t EXCEPT !.at = "waiting", !.on = d]
        IN  /\ w.at = "waiting" /\ w.on = d
            /\ w.attempt = r.attempt /\ w.steady = r.steady /\ w.untold = r.untold
    BY <1>1 DEF CallType
  <2>. QED
    BY <1>0, <1>4, <2>1
<1>5. CASE JoinsLookup(c)
  BY <1>4, <1>5 DEF JoinsLookup, t
<1>6. CASE StartsLookup(c)
  BY <1>4, <1>6 DEF StartsLookup, t
<1>7. CASE Confirms(c)
  <2> DEFINE b == linked[r.user] = m
  <2>1. calls' = [calls EXCEPT ![c].at = "heard", ![c].says = b] /\ b \in BOOLEAN
    BY <1>7 DEF Confirms
  <2>. HIDE DEF b
  <2>2. /\ calls'[c].at = "heard" /\ calls'[c].user = r.user /\ calls'[c].says = b
        /\ calls'[c].attempt = r.attempt /\ calls'[c].steady = r.steady /\ calls'[c].untold = r.untold
    BY <1>0, <2>1 DEF CallType
  <2>. QED
    BY <1>7, <2>2 DEF b
<1>8. CASE Mismatch(c) \/ Invalidated(c)
  <2>1. calls'[c] = Again(c)
    BY <1>0, <1>8 DEF Mismatch, Invalidated
  <2>2. CASE r.attempt = 2
    BY <1>8, <2>1, <2>2 DEF Again
  <2>3. CASE r.attempt # 2
    <3>1. Again(c).at = "trying" /\ Again(c).steady = r.steady /\ Again(c).untold = r.untold
      BY <1>0, <2>3 DEF Again, CallType
    <3>. QED
      BY <1>8, <2>1, <2>3, <3>1
  <2>. QED
    BY <2>2, <2>3
<1>9. CASE Confirmed(c)
  BY <1>0, <1>9 DEF Confirmed, CallType
<1>10. CASE SendKept(c)
  <2>1. [r EXCEPT !.at = "sent"].at = "sent"
    BY <1>0 DEF CallType
  <2>. QED
    BY <1>0, <1>10, <2>1 DEF SendKept
<1>11. CASE Ends(c) \/ Fails(c)
  BY <1>0, <1>11 DEF Ends, Fails, Idle
<1>. QED
  BY <1>2, <1>3, <1>5, <1>6, <1>7, <1>8, <1>9, <1>10, <1>11 DEF CallActs

\* What the end of a lookup makes of whoever waits for it.
LEMMA AnswerBecomes ==
  ASSUME IInv, CandidatesInv, NEW c \in Call, Answered(c)
  PROVE  LET on == calls[c].on
         IN
         \/ /\ LookupAnswered(on) /\ lookups[on].user = Missing /\ calls'[c] = Refused
         \/ /\ LookupAnswered(on) /\ lookups[on].at = "read" /\ lookups[on].user \in SeerrUser
            /\ calls[c].at = "waiting" /\ on \in Call
            /\ calls'[c].at = "confirming" /\ calls'[c].user = lookups[on].user
            /\ calls'[c].attempt = calls[c].attempt /\ calls'[c].steady = calls[c].steady
            /\ calls'[c].untold = calls[c].untold
         \/ calls'[c].at = "idle"
<1>1. PICK d \in Call : c \in Waiting(d) /\ (LookupAnswered(d) \/ LookupFails(d))
  BY DEF Answered
<1>2. calls[c] \in CallType /\ d = calls[c].on /\ calls[c].at = "waiting"
  BY <1>1 DEF IInv, TypeOK, Waiting
<1>3. CASE LookupFails(d)
  BY <1>1, <1>2, <1>3 DEF LookupFails, Idle
<1>4. CASE LookupAnswered(d)
  <2> DEFINE s == lookups[d].user
  <2>1. calls'[c] = IF s = Missing THEN Refused ELSE [calls[c] EXCEPT !.at = "confirming", !.on = NoLookup, !.user = s]
    BY <1>1, <1>4, Zenon DEF LookupAnswered
  <2>2. lookups[d].at = "read" /\ s \in Candidate
    BY <1>4 DEF LookupAnswered, CandidatesInv
  <2>. HIDE DEF s
  <2>3. CASE s = Missing
    BY <1>2, <1>4, <2>1, <2>3 DEF s
  <2>4. CASE s # Missing
    <3>1. LET w == [calls[c] EXCEPT !.at = "confirming", !.on = NoLookup, !.user = s]
          IN  /\ w.at = "confirming" /\ w.user = s
              /\ w.attempt = calls[c].attempt /\ w.steady = calls[c].steady /\ w.untold = calls[c].untold
      BY <1>2 DEF CallType
    <3>. QED
      BY <1>2, <1>4, <2>1, <2>2, <2>4, <3>1 DEF s, Candidate
  <2>. QED
    BY <2>3, <2>4
<1>. QED
  BY <1>1, <1>3, <1>4

\* Every step keeps what candidates are known to be worth.
LEMMA CandidatesStep ==
  ASSUME IInv, CandidatesInv, [Next]_vars
  PROVE  CandidatesInv'
<1>. USE CallAssumption, NamesAssumption
<1>. SUFFICES ASSUME NEW c \in Call
              PROVE  /\ lookups'[c].at = "read" => lookups'[c].user \in Candidate
                     /\ calls'[c].at \in {"confirming", "heard"} => calls'[c].user \in SeerrUser
  BY DEF CandidatesInv
<1>0. TypeOK /\ Refused.at = "refused"
  BY CallTypes DEF IInv
<1>1. lookups'[c].at = "read" => lookups'[c].user \in Candidate
  BY LookupsMove DEF CandidatesInv, LookupMoves
<1>2. SUFFICES ASSUME calls'[c].at \in {"confirming", "heard"} PROVE calls'[c].user \in SeerrUser
  BY <1>1
<1>3. CASE SameCall(c)
  BY <1>2, <1>3 DEF SameCall, CandidatesInv
<1>4. CASE CallActs(c)
  <2>1. \/ TriesCached(c) /\ cache[MemberOf[c]] \in SeerrUser /\ calls'[c].user = cache[MemberOf[c]]
        \/ Confirms(c) /\ calls'[c].user = calls[c].user
    BY <1>0, <1>2, <1>4, CallBecomes
  <2>. QED
    BY <2>1 DEF Confirms, CandidatesInv
<1>5. CASE Answered(c)
  BY <1>0, <1>2, <1>5, AnswerBecomes
<1>. QED
  BY <1>0, <1>3, <1>4, <1>5, CallMoves

\* Every step keeps members who are remembered from being looked up.
LEMMA OneAnswerStep ==
  ASSUME IInv, OneAnswer, [Next]_vars
  PROVE  OneAnswer'
<1>. SUFFICES ASSUME NEW m \in Member, cache'[m] # Unknown PROVE pending'[m] = NoLookup
  BY DEF OneAnswer
<1>1. CacheMoves(m)
  BY CachesMove
<1>. QED
  BY <1>1 DEF CacheMoves, OneAnswer

\* A step of Seerr's administrator on the member's user is known of the calls under way.
LEMMA SteadyLinks ==
  ASSUME IInv, [Next]_vars, NEW c \in Call,
         calls'[c].steady, calls'[c].at \notin {"idle", "refused"}
  PROVE  calls[c].at \notin {"idle", "refused"} => StaysLinked(MemberOf[c])
<1>. SUFFICES ASSUME calls[c].at \notin {"idle", "refused"} PROVE StaysLinked(MemberOf[c])
  OBVIOUS
<1>1. CASE linked' = linked
  BY <1>1 DEF StaysLinked
<1>2. ASSUME NEW s \in SeerrUser, NEW m \in Member \cup {Nobody}, Relink(s, m) PROVE StaysLinked(MemberOf[c])
  <2>1. MemberOf[c] \notin {m, linked[s]}
    <3>. SUFFICES ASSUME MemberOf[c] \in {m, linked[s]} PROVE FALSE
      OBVIOUS
    <3>1. calls[c] \in CallType
      BY DEF IInv, TypeOK
    <3>2. calls'[c] = [calls[c] EXCEPT !.steady = FALSE]
      BY <1>2, Zenon DEF Relink
    <3>. QED
      BY <3>1, <3>2 DEF CallType
  <2>2. \A t \in SeerrUser : linked'[t] = IF t = s THEN m ELSE IF linked[t] = m THEN Nobody ELSE linked[t]
    <3>1. linked' = [t \in SeerrUser |-> IF t = s THEN m ELSE IF linked[t] = m THEN Nobody ELSE linked[t]]
      BY <1>2, Zenon DEF Relink
    <3>. QED
      BY <3>1, Zenon
  <2>. QED
    BY <2>1, <2>2 DEF StaysLinked
<1>3. linked' = linked \/ \E s \in SeerrUser, m \in Member \cup {Nobody} : Relink(s, m)
  BY DEF Next, vars, seerr, Expires, Invalidate, Clear, Begin, TriesCached, JoinsLookup, StartsLookup, LookupRead,
         LookupAnswered, LookupFails, Confirms, Mismatch, Invalidated, Confirmed, SendKept, Ends, Fails
<1>. QED
  BY <1>1, <1>2, <1>3

\* The registered lookup of a call that waits and was told nothing is registered until it ends.
LEMMA StaysRegistered ==
  ASSUME IInv, [Next]_vars, NEW c \in Call,
         calls[c].at = "waiting", SameCall(c), calls'[c].untold, pending[MemberOf[c]] = calls[c].on
  PROVE  pending'[MemberOf[c]] = calls[c].on
<1>. USE CallAssumption, NamesAssumption
<1> DEFINE m == MemberOf[c]
           on == calls[c].on
<1>0. /\ DOMAIN pending = Member /\ calls[c] \in CallType /\ calls'[c].at = "waiting"
      /\ m \in Member /\ on \in Call /\ on # NoLookup
      /\ \A d \in Call : MemberOf[d] \in Member /\ lookups[d].member = MemberOf[d]
  BY DEF IInv, TypeOK, LookupsInv, SameCall
<1>1. CASE pending' = pending
  BY <1>1
<1>2. ASSUME NEW version, NEW ms, Told(ms, version), version[m] # Version(m) PROVE FALSE
  <2> DEFINE f == calls[c].fresh /\ m \notin ms
             u == calls[c].untold /\ version[m] = Version(m)
  <2>1. calls'[c] = [calls[c] EXCEPT !.fresh = f, !.untold = u]
    <3>1. calls'[c] = IF calls[c].at \in {"idle", "refused", "sent"} THEN calls[c]
                      ELSE [calls[c] EXCEPT !.fresh = f, !.untold = u]
      BY <1>2, Zenon DEF Told
    <3>. QED
      BY <3>1
  <2>2. f \in BOOLEAN /\ u = FALSE
    BY <1>0, <1>2 DEF CallType
  <2>. HIDE DEF f, u
  <2>. QED
    BY <1>0, <2>1, <2>2 DEF CallType
<1>3. Version(m) \in 0..counter /\ counter \in Nat
  BY <1>0 DEF IInv, TypeOK, LookupsInv, Version, Max2
<1>4. ASSUME NEW k \in Member, Invalidate(k) PROVE pending'[m] = pending[m]
  <2>1. CASE k = m
    <3>1. Version(m)' = counter + 1 /\ Told({m}, [j \in Member |-> Version(j)'])
      BY <1>4, <2>1, InvalidateFacts
    <3>2. [j \in Member |-> Version(j)'][m] # Version(m)
      BY <1>0, <1>3, <3>1
    <3>. QED
      BY <1>2, <3>1, <3>2
  <2>2. CASE k # m
    BY <1>0, <1>4, <2>2 DEF Invalidate
  <2>. QED
    BY <2>1, <2>2
<1>5. CASE Clear
  <2>1. Version(m)' = counter + 1 /\ Told(Member, [j \in Member |-> Version(j)'])
    BY <1>0, <1>5, ClearFacts
  <2>2. [j \in Member |-> Version(j)'][m] # Version(m)
    BY <1>0, <1>3, <2>1
  <2>. QED
    BY <1>2, <2>1, <2>2
<1>6. ASSUME NEW d \in Call, StartsLookup(d) PROVE pending'[m] = pending[m]
  BY <1>0, <1>6 DEF StartsLookup
<1>7. ASSUME NEW d \in Call, LookupAnswered(d) \/ LookupFails(d) PROVE pending'[m] = pending[m]
  <2>1. CASE d = on
    <3>1. c \in Waiting(d)
      BY <2>1 DEF Waiting
    <3>2. calls'[c].at \in {"idle", "refused", "confirming"}
      <4>1. CASE LookupFails(d)
        BY <3>1, <4>1 DEF LookupFails, Idle
      <4>2. CASE LookupAnswered(d)
        <5>1. \A s : [calls[c] EXCEPT !.at = "confirming", !.on = NoLookup, !.user = s].at = "confirming"
          BY <1>0 DEF CallType
        <5>2. calls'[c] = IF lookups[d].user = Missing THEN Refused
                          ELSE [calls[c] EXCEPT !.at = "confirming", !.on = NoLookup, !.user = lookups[d].user]
          BY <3>1, <4>2, Zenon DEF LookupAnswered
        <5>. QED
          BY <5>1, <5>2, CallTypes
      <4>. QED
        BY <1>7, <4>1, <4>2
    <3>. QED
      BY <1>0, <3>2
  <2>2. CASE d # on
    <3>1. pending' = IF pending[lookups[d].member] = d THEN [pending EXCEPT ![lookups[d].member] = NoLookup]
                     ELSE pending
      BY <1>7, Zenon DEF LookupAnswered, LookupFails
    <3>2. pending[m] # d
      BY <2>2
    <3>. QED
      BY <1>0, <3>1, <3>2
  <2>. QED
    BY <2>1, <2>2
<1>8. \/ pending' = pending
      \/ \E k \in Member : Invalidate(k)
      \/ Clear
      \/ \E d \in Call : StartsLookup(d) \/ LookupAnswered(d) \/ LookupFails(d)
  BY DEF Next, vars, users, Relink, Expires, LookupRead, Begin, TriesCached, JoinsLookup, Confirms, Mismatch,
         Invalidated, Confirmed, SendKept, Ends, Fails
<1>. QED
  BY <1>1, <1>4, <1>5, <1>6, <1>7, <1>8

\* What was right stays right for a member who stays linked.
LEMMA StaysRight ==
  ASSUME IInv, CandidatesInv, [Next]_vars, NEW m \in Member, StaysLinked(m)
  PROVE  /\ \A x \in Candidate \cup {Unknown} : Right(m, x) => x \in {Unknown, Missing} \/ linked'[x] = m
         /\ \A d \in Call : MemberOf[d] = m /\ RightLookup(d) => RightLookup(d)'
         /\ (pending[m] # NoLookup => RightLookup(pending[m])) =>
              /\ (pending[m] # NoLookup => RightLookup(pending[m]))'
              /\ Right(m, cache[m]) => Right(m, cache[m])'
         /\ RightNext(m) => RightNext(m)'
<1>. USE CallAssumption, NamesAssumption
<1>0. /\ pending[m] \in Call \cup {NoLookup} /\ pending'[m] \in Call \cup {NoLookup}
      /\ cache[m] \in Candidate \cup {Unknown}
  BY Inductive DEF IInv, TypeOK
<1>1. ASSUME NEW x \in Candidate \cup {Unknown}, Right(m, x) PROVE x \in {Unknown, Missing} \/ linked'[x] = m
  BY <1>1 DEF StaysLinked, Right, Candidate
<1>2. ASSUME NEW d \in Call, MemberOf[d] = m, RightLookup(d) PROVE RightLookup(d)'
  <2>1. LookupMoves(d)
    BY LookupsMove
  <2>2. SUFFICES ASSUME lookups'[d].at = "read" PROVE Right(m, lookups[d].user)'
    BY <1>2 DEF RightLookup
  <2>3. CASE lookups'[d].at = lookups[d].at /\ lookups'[d].user = lookups[d].user
    <3>1. Right(m, lookups[d].user) /\ lookups[d].user \in Candidate
      BY <1>2, <2>2, <2>3 DEF RightLookup, CandidatesInv
    <3>2. lookups[d].user \in {Unknown, Missing} \/ linked'[lookups[d].user] = m
      BY <1>1, <3>1
    <3>. QED
      BY <2>3, <3>2 DEF Right
  <2>4. CASE Right(MemberOf[d], lookups[d].user)'
    BY <1>2, <2>4
  <2>. QED
    BY <2>1, <2>2, <2>3, <2>4 DEF LookupMoves
<1>3. CacheMoves(m) /\ PendingMoves(m)
  BY CachesMove
<1>4. ASSUME pending[m] # NoLookup => RightLookup(pending[m])
      PROVE  (pending[m] # NoLookup => RightLookup(pending[m]))'
  <2>1. SUFFICES ASSUME pending'[m] # NoLookup PROVE RightLookup(pending[m])'
    OBVIOUS
  <2>2. CASE pending'[m] = pending[m]
    <3>1. pending[m] \in Call /\ MemberOf[pending[m]] = m
      BY <1>0, <2>1, <2>2 DEF IInv, WaitsForAnAnswer, LookupsInv
    <3>2. RightLookup(pending[m])
      BY <1>4, <2>1, <2>2
    <3>3. \A d \in Call : d = pending[m] => RightLookup(d)'
      BY <1>2, <3>1, <3>2
    <3>. QED
      BY <2>2, <3>1, <3>3 DEF RightLookup
  <2>3. CASE lookups'[pending'[m]].at = "sent"
    BY <2>3 DEF RightLookup
  <2>. QED
    BY <1>3, <2>1, <2>2, <2>3 DEF PendingMoves
<1>5. ASSUME pending[m] # NoLookup => RightLookup(pending[m]), Right(m, cache[m])
      PROVE  Right(m, cache[m])'
  <2>1. CASE cache'[m] = cache[m]
    BY <1>0, <1>1, <1>5, <2>1 DEF Right
  <2>2. CASE cache'[m] = Unknown
    BY <2>2 DEF Right
  <2>3. CASE pending[m] # NoLookup /\ lookups[pending[m]].at = "read" /\ cache'[m] = lookups[pending[m]].user
    <3>1. pending[m] \in Call /\ MemberOf[pending[m]] = m
      BY <1>0, <2>3 DEF IInv, WaitsForAnAnswer, LookupsInv
    <3>2. Right(m, lookups[pending[m]].user) /\ lookups[pending[m]].user \in Candidate
      BY <1>5, <2>3, <3>1 DEF RightLookup, CandidatesInv
    <3>3. lookups[pending[m]].user \in {Unknown, Missing} \/ linked'[lookups[pending[m]].user] = m
      BY <1>1, <3>2
    <3>. QED
      BY <2>3, <3>3 DEF Right
  <2>. QED
    BY <1>3, <2>1, <2>2, <2>3 DEF CacheMoves
<1>6. RightNext(m) => RightNext(m)'
  BY <1>4, <1>5 DEF RightNext
<1>. QED
  BY <1>1, <1>2, <1>4, <1>5, <1>6

\* An answer that reaches one who tried a candidate leaves it, forgets it or brings another.
LEMMA AttemptsStep ==
  ASSUME CInv, [Next]_vars
  PROVE  AttemptsInv'
<1>. USE CallAssumption, NamesAssumption
<1>. SUFFICES ASSUME NEW c \in Call, calls'[c].steady, calls'[c].untold
              PROVE  LET m == MemberOf[c] IN
                     /\ calls'[c].at = "waiting" => pending'[m] = calls'[c].on
                     /\ calls'[c].at \in {"confirming", "heard"} =>
                          /\ cache'[m] = calls'[c].user \/ Right(m, cache[m])'
                          /\ (pending[m] # NoLookup => RightLookup(pending[m]))'
                     /\ calls'[c].attempt = 2 =>
                          /\ calls'[c].at = "trying" => RightNext(m)'
                          /\ calls'[c].at = "waiting" => RightLookup(calls[c].on)'
                          /\ calls'[c].at = "confirming" => linked'[calls'[c].user] = m
                          /\ calls'[c].at = "heard" => calls'[c].says
  BY DEF AttemptsInv, RightNext, RightLookup, Right
<1> DEFINE m == MemberOf[c]
           PendingRight == pending[m] # NoLookup => RightLookup(pending[m])
<1>0. /\ IInv /\ OneAnswer /\ CandidatesInv /\ AttemptsInv /\ TypeOK /\ IInv'
      /\ m \in Member /\ Refused.at = "refused" /\ calls[c] \in CallType
      /\ lookups[c].member = m
      /\ cache[m] \in Candidate \cup {Unknown} /\ pending[m] \in Call \cup {NoLookup}
      /\ DOMAIN cache = Member /\ DOMAIN pending = Member
  BY Inductive, CallTypes DEF CInv, IInv, TypeOK, LookupsInv
<1>1. CASE calls'[c].at \in {"idle", "refused", "ready", "sent"}
  BY <1>1
<1>2. CASE calls[c].at \in {"idle", "refused"} /\ CallActs(c)
  <2>1. calls'[c].at = "trying" /\ calls'[c].attempt = 1
    <3>1. PICK requester \in BOOLEAN : Begin(c, requester)
      BY <1>2 DEF CallActs, TriesCached, JoinsLookup, StartsLookup, Confirms, Mismatch, Invalidated, Confirmed,
                  SendKept, Ends, Fails
    <3>2. calls'[c] = [Idle EXCEPT !.at = "trying", !.requester = requester]
      BY <1>0, <3>1 DEF Begin, TypeOK
    <3>. QED
      BY <3>2 DEF Idle
  <2>. QED
    BY <2>1
<1>3. CASE SameCall(c) /\ calls'[c].at \notin {"idle", "refused", "ready", "sent"}
  <2>1. calls[c].steady /\ calls[c].untold /\ calls[c].at = calls'[c].at
    BY <1>3 DEF SameCall
  <2>2. StaysLinked(m)
    BY <1>0, <1>3, <2>1, SteadyLinks
  <2>3. /\ calls[c].at = "waiting" => pending[m] = calls[c].on
        /\ calls[c].at \in {"confirming", "heard"} =>
             /\ cache[m] = calls[c].user \/ Right(m, cache[m])
             /\ PendingRight
        /\ calls[c].attempt = 2 =>
             /\ calls[c].at = "trying" => RightNext(m)
             /\ calls[c].at = "waiting" => RightLookup(calls[c].on)
             /\ calls[c].at = "confirming" => linked[calls[c].user] = m
             /\ calls[c].at = "heard" => calls[c].says
    BY <1>0, <2>1 DEF AttemptsInv
  <2>4. calls'[c].at = "waiting" => pending'[m] = calls'[c].on
    <3>. SUFFICES ASSUME calls'[c].at = "waiting" PROVE pending'[m] = calls[c].on
      BY <1>3 DEF SameCall
    <3>. QED
      BY <1>0, <1>3, <2>1, <2>3, StaysRegistered
  <2>5. calls'[c].at \in {"confirming", "heard"} =>
          /\ cache'[m] = calls'[c].user \/ Right(m, cache[m])'
          /\ PendingRight'
    <3>. SUFFICES ASSUME calls'[c].at \in {"confirming", "heard"}
                  PROVE  (cache'[m] = calls[c].user \/ Right(m, cache[m])') /\ PendingRight'
      BY <1>3 DEF SameCall
    <3>1. PendingRight /\ (cache[m] = calls[c].user \/ Right(m, cache[m])) /\ calls[c].user \in SeerrUser
      BY <1>0, <2>1, <2>3 DEF CandidatesInv
    <3>2. PendingRight' /\ (Right(m, cache[m]) => Right(m, cache[m])')
      BY <1>0, <2>2, <3>1, StaysRight
    <3>3. CASE cache[m] = calls[c].user
      <4>1. pending[m] = NoLookup
        BY <1>0, <3>1, <3>3 DEF OneAnswer, Candidate
      <4>2. cache'[m] \in {cache[m], Unknown}
        BY <1>0, <4>1, CachesMove DEF CacheMoves
      <4>. QED
        BY <3>2, <3>3, <4>2 DEF Right
    <3>. QED
      BY <3>1, <3>2, <3>3
  <2>6. calls'[c].attempt = 2 =>
          /\ calls'[c].at = "trying" => RightNext(m)'
          /\ calls'[c].at = "waiting" => RightLookup(calls[c].on)'
          /\ calls'[c].at = "confirming" => linked'[calls'[c].user] = m
          /\ calls'[c].at = "heard" => calls'[c].says
    <3>. SUFFICES ASSUME calls'[c].attempt = 2
                  PROVE  /\ calls[c].at = "trying" => RightNext(m)'
                         /\ calls[c].at = "waiting" => RightLookup(calls[c].on)'
                         /\ calls[c].at = "confirming" => linked'[calls[c].user] = m
                         /\ calls[c].at = "heard" => calls[c].says
      BY <1>3 DEF SameCall
    <3>0. calls[c].attempt = 2
      BY <1>3 DEF SameCall
    <3>1. calls[c].at = "trying" => RightNext(m)'
      BY <1>0, <2>2, <2>3, <3>0, StaysRight
    <3>2. calls[c].at = "waiting" => RightLookup(calls[c].on)'
      <4>. SUFFICES ASSUME calls[c].at = "waiting" PROVE RightLookup(calls[c].on)'
        OBVIOUS
      <4>1. calls[c].on \in Call /\ MemberOf[calls[c].on] = m /\ RightLookup(calls[c].on)
        BY <1>0, <2>3, <3>0 DEF IInv, LookupsInv, WaitsForAnAnswer
      <4>2. \A d \in Call : d = calls[c].on => RightLookup(d)'
        BY <1>0, <2>2, <4>1, StaysRight
      <4>3. calls'[c].on = calls[c].on
        BY <1>3 DEF SameCall
      <4>. QED
        BY <4>1, <4>2, <4>3 DEF RightLookup
    <3>3. calls[c].at = "confirming" => linked'[calls[c].user] = m
      BY <1>0, <2>2, <2>3, <3>0 DEF CandidatesInv, StaysLinked
    <3>. QED
      BY <2>3, <3>0, <3>1, <3>2, <3>3
  <2>. QED
    BY <2>4, <2>5, <2>6

<1>4. CASE CallActs(c) /\ calls[c].at \notin {"idle", "refused"} /\ calls'[c].at \notin {"idle", "refused", "ready", "sent"}
  <2>1. /\ calls[c].steady /\ calls[c].untold
        /\ \/ /\ TriesCached(c) /\ cache[m] \in SeerrUser
              /\ calls'[c].at = "confirming" /\ calls'[c].user = cache[m] /\ calls'[c].attempt = calls[c].attempt
           \/ /\ JoinsLookup(c) /\ calls'[c].at = "waiting" /\ calls'[c].on = pending[m]
              /\ calls'[c].attempt = calls[c].attempt
           \/ /\ StartsLookup(c) /\ calls'[c].at = "waiting" /\ calls'[c].on = c
           \/ /\ Confirms(c) /\ calls'[c].at = "heard" /\ calls'[c].user = calls[c].user
              /\ calls'[c].says = (linked[calls[c].user] = m) /\ calls'[c].attempt = calls[c].attempt
           \/ (Mismatch(c) \/ Invalidated(c)) /\ calls'[c].at = "trying"
    BY <1>0, <1>4, CallBecomes
  <2>2. CASE /\ TriesCached(c) /\ cache[m] \in SeerrUser
             /\ calls'[c].at = "confirming" /\ calls'[c].user = cache[m] /\ calls'[c].attempt = calls[c].attempt
    <3>1. cache' = cache /\ pending' = pending /\ linked' = linked /\ calls[c].at = "trying"
      BY <2>2 DEF TriesCached, users, seerr
    <3>2. pending[m] = NoLookup
      BY <1>0, <2>2 DEF OneAnswer
    <3>3. calls[c].attempt = 2 => linked[cache[m]] = m
      BY <1>0, <2>1, <2>2, <3>1 DEF AttemptsInv, RightNext, Right
    <3>. QED
      BY <2>2, <3>1, <3>2, <3>3
  <2>3. CASE /\ JoinsLookup(c) /\ calls'[c].at = "waiting" /\ calls'[c].on = pending[m]
             /\ calls'[c].attempt = calls[c].attempt
    <3>1. /\ pending' = pending /\ lookups' = lookups /\ linked' = linked /\ calls[c].at = "trying"
          /\ pending[m] # NoLookup
      BY <2>3 DEF JoinsLookup, users, seerr
    <3>2. calls[c].attempt = 2 => RightLookup(pending[m])
      BY <1>0, <2>1, <3>1 DEF AttemptsInv, RightNext
    <3>3. calls[c].attempt = 2 => RightLookup(calls[c].on)'
      BY <2>3, <3>1, <3>2 DEF RightLookup, Right
    <3>. QED
      BY <2>3, <3>1, <3>3
  <2>4. CASE StartsLookup(c) /\ calls'[c].at = "waiting" /\ calls'[c].on = c
    <3>1. pending'[m] = c /\ lookups'[c].at = "sent"
      BY <1>0, <2>4 DEF StartsLookup, TypeOK
    <3>. QED
      BY <2>4, <3>1 DEF RightLookup
  <2>5. CASE /\ Confirms(c) /\ calls'[c].at = "heard" /\ calls'[c].user = calls[c].user
             /\ calls'[c].says = (linked[calls[c].user] = m) /\ calls'[c].attempt = calls[c].attempt
    <3>1. /\ cache' = cache /\ pending' = pending /\ lookups' = lookups /\ linked' = linked
          /\ calls[c].at = "confirming"
      BY <2>5 DEF Confirms, users, seerr
    <3>2. /\ cache[m] = calls[c].user \/ Right(m, cache[m])
          /\ PendingRight
          /\ calls[c].attempt = 2 => linked[calls[c].user] = m
      BY <1>0, <2>1, <3>1 DEF AttemptsInv
    <3>3. PendingRight' /\ (Right(m, cache[m]) => Right(m, cache[m])')
      BY <3>1, <3>2 DEF RightLookup, Right
    <3>. QED
      BY <2>5, <3>1, <3>2, <3>3
  <2>6. CASE Mismatch(c) /\ calls'[c].at = "trying"
    <3>1. /\ cache' = Forget(m, calls[c].user) /\ pending' = pending /\ lookups' = lookups /\ linked' = linked
          /\ calls[c].at = "heard"
      BY <2>6 DEF Mismatch, seerr
    <3>2. PendingRight /\ (cache[m] = calls[c].user \/ Right(m, cache[m]))
      BY <1>0, <2>1, <3>1 DEF AttemptsInv
    <3>3. PendingRight'
      BY <3>1, <3>2 DEF RightLookup, Right
    <3>4. Right(m, cache[m])'
      BY <1>0, <3>1, <3>2 DEF Forget, Right
    <3>. QED
      BY <2>6, <3>3, <3>4 DEF RightNext
  <2>7. CASE Invalidated(c)
    BY <1>0, <2>1, <2>7 DEF Invalidated, IInv, VersionsInv, Trusting
  <2>. QED
    BY <2>1, <2>2, <2>3, <2>4, <2>5, <2>6, <2>7
<1>5. CASE Answered(c) /\ calls'[c].at \notin {"idle", "refused", "ready", "sent"}
  <2> DEFINE on == calls[c].on
  <2>1. /\ LookupAnswered(on) /\ lookups[on].at = "read" /\ lookups[on].user \in SeerrUser
        /\ calls[c].at = "waiting" /\ on \in Call
        /\ calls'[c].at = "confirming" /\ calls'[c].user = lookups[on].user
        /\ calls'[c].attempt = calls[c].attempt /\ calls[c].steady /\ calls[c].untold
    BY <1>0, <1>5, AnswerBecomes
  <2>2. lookups[on].member = m /\ pending[m] = on
    <3>1. lookups[on].member = m
      BY <1>0, <2>1 DEF IInv, WaitsForAnAnswer
    <3>2. pending[m] = on
      BY <1>0, <2>1 DEF AttemptsInv
    <3>. QED
      BY <3>1, <3>2
  <2>3. cache'[m] = calls'[c].user /\ pending'[m] = NoLookup /\ linked' = linked
    BY <1>0, <2>1, <2>2 DEF LookupAnswered, Registered, seerr
  <2>4. calls[c].attempt = 2 => linked[lookups[on].user] = m
    <3>1. lookups[on].member = MemberOf[on]
      BY <1>0, <2>1 DEF IInv, LookupsInv
    <3>2. calls[c].attempt = 2 => RightLookup(on)
      BY <1>0, <2>1 DEF AttemptsInv
    <3>. QED
      BY <2>1, <2>2, <3>1, <3>2 DEF RightLookup, Right
  <2>. QED
    BY <2>1, <2>3, <2>4
<1>. QED
  BY <1>0, <1>1, <1>2, <1>3, <1>4, <1>5, CallMoves

\* A call is refused for a cause.
LEMMA RefusedStep ==
  ASSUME CInv, [Next]_vars, NEW c \in Call, calls[c] # Refused, calls'[c] = Refused
  PROVE  \/ ~calls[c].steady \/ ~calls[c].untold
         \/ cache[MemberOf[c]] = Missing
         \/ calls[c].at = "waiting" /\ lookups[calls[c].on].user = Missing
<1>0. /\ IInv /\ CandidatesInv /\ AttemptsInv /\ TypeOK
      /\ calls'[c].at = "refused"
  BY CallTypes DEF CInv, IInv
<1>1. CASE SameCall(c)
  BY <1>0, <1>1 DEF SameCall
<1>2. CASE Answered(c)
  <2>1. PICK d \in Call : c \in Waiting(d)
    BY <1>2 DEF Answered
  <2>. QED
    BY <1>0, <1>2, <2>1, AnswerBecomes DEF Waiting
<1>3. CASE CallActs(c)
  <2>1. \/ cache[MemberOf[c]] = Missing
        \/ (Mismatch(c) \/ Invalidated(c)) /\ calls[c].attempt = 2
        \/ SendKept(c) /\ ~SameVersion(c)
    BY <1>0, <1>3, CallBecomes
  <2>2. CASE Mismatch(c) /\ calls[c].attempt = 2
    BY <1>0, <2>2 DEF Mismatch, AttemptsInv
  <2>3. CASE Invalidated(c) \/ (SendKept(c) /\ ~SameVersion(c))
    BY <1>0, <2>3 DEF Invalidated, SendKept, IInv, VersionsInv, Trusting
  <2>. QED
    BY <2>1, <2>2, <2>3
<1>. QED
  BY <1>0, <1>1, <1>2, <1>3, CallMoves

\* The invariant of refusals holds at the start.
LEMMA CInitially == Init => CInv
<1>. SUFFICES ASSUME Init PROVE CInv
  OBVIOUS
<1>1. /\ \A m \in Member : cache[m] = Unknown
      /\ \A c \in Call : calls[c].at = "idle" /\ calls[c].attempt = 1 /\ lookups[c].at = "none"
  BY DEF Init, Idle, Ended
<1>. QED
  BY <1>1, Initially DEF CInv, OneAnswer, CandidatesInv, AttemptsInv

\* Whatever went stale before a call costs it one more lookup, never the call.
THEOREM RefusedForCauseAlways == Spec => RefusedForCause
<1>1. CInv /\ [Next]_vars => CInv'
  BY Inductive, OneAnswerStep, CandidatesStep, AttemptsStep DEF CInv
<1>2. CInv /\ [Next]_vars =>
        [\A c \in Call : calls[c] # Refused /\ calls'[c] = Refused =>
           \/ ~calls[c].steady \/ ~calls[c].untold
           \/ cache[MemberOf[c]] = Missing
           \/ calls[c].at = "waiting" /\ lookups[calls[c].on].user = Missing]_vars
  BY RefusedStep
<1>. QED
  BY CInitially, <1>1, <1>2, PTL DEF Spec, RefusedForCause
================================================================================
