--------------------------- MODULE HostSessionsProofs ---------------------------
(***************************************************************************)
(* HostSessions' safety for any tokens, credentials, households and number *)
(* of requests, and any limits on sign-outs.                               *)
(***************************************************************************)
EXTENDS HostSessions, FiniteSetTheorems, TLAPS

-----------------------------------------------------------------------------
(* The inductive invariant *)

RequestType ==
  [kind : {"none", "app", "relay", "signOut", "socket"},
   at : {"none", "asked", "told", "sent", "upgrading", "open", "ending"},
   home : Household \cup {"none"}, cred : Cred \cup {NoToken},
   asks : Request \cup {"none"}, read : {"none", "ok", "refused", "failed"},
   spoiled : BOOLEAN, lookupSpoiled : BOOLEAN, gone : BOOLEAN, verified : SUBSET Token]

TypeInv ==
  /\ valid \subseteq Token /\ late \subseteq Token
  /\ kept \subseteq [home : Household \cup {"none"}, cred : Cred]
  /\ owners \in [Cred -> Request \cup {"none", "ok", "refused"}]
  /\ request \in [Request -> RequestType]
  /\ signingOut \in [Token -> Nat]
  /\ signedOut \in Seq(Token)
  /\ closing \in {"no", "closing", "closed"} /\ awaited \subseteq Request

\* Every call of the app and every sign-out carries a token; a question that failed is over.
CredInv == \A r \in Request :
  /\ request[r].kind \in {"app", "signOut"} => request[r].cred \in Cred
  /\ request[r].at = "asked" => request[r].read # "failed"

Carrying(t) == {r \in SignOuts : t \in Keys(request[r].cred)}

CountInv == \A t \in Token : signingOut[t] = Cardinality(Carrying(t))

\* What Jellyfin may still revoke is kept back, and what it revoked late it does not accept again.
LateInv ==
  /\ missed \cap valid = {}
  /\ late \subseteq ToSet(signedOut) \cup dropped

\* A kept session shares no token with a sign-out at Jellyfin, or with those kept back.
KeptInv == \A s \in kept :
  /\ First(s.cred) \in valid \cup dropped
  /\ \A r \in SignOuts : ~Carries(r, Keys(s.cred))
  /\ Keys(s.cred) \cap ToSet(signedOut) = {}

\* Why a token that was accepted when it was read is accepted no more.
Excused(t) == t \in missed \/ Carrying(t) # {}

\* A verification that Jellyfin confirmed and no sign-out spoiled.
Confirmed(v) == v \in Verifying /\ request[v].read = "ok" /\ ~(request[v].spoiled /\ request[v].lookupSpoiled)

AppInv == \A v \in Request, t \in Token : Confirmed(v) /\ First(request[v].cred) = t =>
  /\ t \in valid \/ Excused(t)
  /\ t \in missed => t \in ToSet(signedOut) \cup dropped

\* The question whose answer #tokenOwners waits for.
AsksFor(r, c) ==
  request[r].kind # "app" /\ request[r].at = "asked" /\ request[r].asks = r /\ request[r].cred = c

Trusted(c) == owners[c] = "ok" \/ (owners[c] \in Request /\ request[owners[c]].read = "ok")

OwnerInv == \A c \in Cred :
  /\ \A r \in Request : owners[c] = r => AsksFor(r, c)
  /\ Trusted(c) => First(c) \in valid \/ Excused(First(c))

\* Once the closing began only relays that end are left, and they are waited for.
Leaving(r) == request[r].gone \/ (request[r].at = "ending" /\ r \in awaited)

SocketInv ==
  /\ closing = "closed" => awaited = {}
  /\ closing # "no" => \A r \in Sockets : Leaving(r)

IInv == TypeInv /\ CredInv /\ CountInv /\ LateInv /\ KeptInv /\ AppInv /\ OwnerInv /\ SocketInv

-----------------------------------------------------------------------------
(* Data *)

\* What a request carries names one token or two, the first among them.
LEMMA CredKeys ==
  ASSUME NEW c \in Cred
  PROVE  First(c) \in Keys(c) /\ Keys(c) \subseteq Token /\ IsFiniteSet(Keys(c))
<1>1. c \in Seq(Token) /\ c # <<>>
  BY CredAssumption
<1>2. Len(c) \in Nat /\ Len(c) # 0 /\ DOMAIN c = 1 .. Len(c)
  BY <1>1
<1>3. 1 \in DOMAIN c
  BY <1>2
<1>4. Keys(c) = {c[i] : i \in 1 .. Len(c)}
  BY <1>2 DEF Keys, ToSet
<1>5. c \in Surjection(1 .. Len(c), Keys(c))
  <2>1. c \in [1 .. Len(c) -> Keys(c)]
    BY <1>1, <1>4
  <2>. QED
    BY <2>1, <1>4 DEF Surjection
<1>6. IsFiniteSet(1 .. Len(c))
  BY <1>2, FS_Interval
<1>7. IsFiniteSet(Keys(c))
  BY <1>5, <1>6, FS_Surjection
<1>. QED
  BY <1>1, <1>3, <1>4, <1>7 DEF First

\* No request is a value of the table of requests.
LEMMA NoneType == None \in RequestType
<1>. QED
  BY DEF None, RequestType, NoToken

\* The oldest of the tokens kept back, and the others.
LEMMA Oldest ==
  ASSUME NEW S, NEW s \in Seq(S), s # <<>>
  PROVE  /\ Head(s) \in ToSet(s) /\ Tail(s) \in Seq(S)
         /\ ToSet(Tail(s)) \subseteq ToSet(s)
         /\ ToSet(s) \subseteq ToSet(Tail(s)) \cup {Head(s)}
<1> DEFINE n == Len(s)
<1>1. n \in Nat /\ n >= 1 /\ DOMAIN s = 1 .. n /\ Head(s) = s[1]
  OBVIOUS
<1>2. Tail(s) \in Seq(S) /\ Len(Tail(s)) = n - 1 /\ DOMAIN Tail(s) = 1 .. n - 1
  BY <1>1
<1>3. \A i \in 1 .. n - 1 : Tail(s)[i] = s[i + 1]
  BY <1>1
<1>. HIDE DEF n
<1>4. ToSet(Tail(s)) \subseteq ToSet(s)
  <2>1. ASSUME NEW i \in 1 .. n - 1 PROVE Tail(s)[i] \in ToSet(s)
    BY <1>1, <1>3 DEF ToSet
  <2>. QED
    BY <2>1, <1>2 DEF ToSet
<1>5. ASSUME NEW i \in 1 .. n, i # 1 PROVE s[i] \in ToSet(Tail(s))
  <2>1. i - 1 \in 1 .. n - 1 /\ (i - 1) + 1 = i
    BY <1>1, <1>5
  <2>2. Tail(s)[i - 1] = s[i]
    BY <2>1, <1>3
  <2>. QED
    BY <2>1, <2>2, <1>2 DEF ToSet
<1>6. Head(s) \in ToSet(s)
  BY <1>1 DEF ToSet
<1>7. ASSUME NEW t \in ToSet(s), t # Head(s) PROVE t \in ToSet(Tail(s))
  <2>1. PICK i \in 1 .. n : s[i] = t
    BY <1>1 DEF ToSet
  <2>. QED
    BY <2>1, <1>1, <1>5, <1>7
<1>. QED
  BY <1>2, <1>4, <1>6, <1>7

\* A sequence of a finite set's elements, each once, has them all.
LEMMA Enumerates ==
  ASSUME NEW S, IsFiniteSet(S), NEW s \in SetToSeqs(S)
  PROVE  /\ Cardinality(S) \in Nat
         /\ s \in Seq(S) /\ Len(s) = Cardinality(S) /\ DOMAIN s = 1 .. Cardinality(S)
         /\ ToSet(s) = S
<1> DEFINE n == Cardinality(S)
<1>1. n \in Nat
  BY FS_CardinalityType
<1>2. s \in [1 .. n -> S] /\ \A i, j \in 1 .. n : i # j => s[i] # s[j]
  BY DEF SetToSeqs
<1>. HIDE DEF n
<1>3. s \in Injection(1 .. n, S)
  BY <1>2 DEF Injection, IsInjective
<1>4. Cardinality(1 .. n) = n
  BY <1>1, FS_Interval
<1>5. n = Cardinality(S)
  BY DEF n
<1>6. s \in Surjection(1 .. n, S)
  BY <1>3, <1>4, <1>5, FS_Injection
<1>7. ToSet(s) = S
  BY <1>2, <1>6 DEF Surjection, ToSet
<1>8. s \in Seq(S) /\ Len(s) = n
  BY <1>1, <1>2
<1>. QED
  BY <1>1, <1>2, <1>5, <1>7, <1>8

\* What is kept back is kept back still or dropped, and what is dropped in its grace is remembered.
LEMMA KeepsBack ==
  ASSUME signedOut \in Seq(Token), NEW c, NEW keys \in SUBSET Token, IsFiniteSet(keys), KeepBack(c, keys)
  PROVE  /\ signedOut' \in Seq(Token)
         /\ dropped \subseteq dropped'
         /\ ToSet(signedOut') \subseteq ToSet(signedOut) \cup keys
         /\ \A t \in ToSet(signedOut) \cup keys :
              t \in ToSet(signedOut') \/ t \in dropped' \/ ~Pending(t, late')
<1> DEFINE held == ToSet(signedOut) \cup keys
           n == Cardinality(held)
           over == IF n > MaxTracked THEN n - MaxTracked ELSE 0
<1>1. held \subseteq Token /\ IsFiniteSet(held)
  <2>1. signedOut \in Surjection(1 .. Len(signedOut), ToSet(signedOut))
    BY DEF Surjection, ToSet
  <2>2. Len(signedOut) \in Nat
    OBVIOUS
  <2>3. IsFiniteSet(ToSet(signedOut))
    BY <2>1, <2>2, FS_Surjection, FS_Interval
  <2>4. ToSet(signedOut) \subseteq Token
    BY DEF ToSet
  <2>. QED
    BY <2>3, <2>4, FS_Union
<1>2. PICK all \in SetToSeqs(held) :
        /\ signedOut' = SubSeq(all, over + 1, Len(all))
        /\ dropped' = dropped \cup {t \in ToSet(SubSeq(all, 1, over)) : Pending(t, late')}
  BY DEF KeepBack
<1>3. n \in Nat /\ all \in Seq(held) /\ Len(all) = n /\ DOMAIN all = 1 .. n /\ ToSet(all) = held
  BY <1>1, Enumerates
<1>4. over \in 0 .. n
  BY <1>3, SignOutLimitsAssumption
<1>. HIDE DEF n, over
<1> DEFINE back == SubSeq(all, over + 1, n)
           front == SubSeq(all, 1, over)
<1>5. /\ back \in Seq(held) /\ Len(back) = n - over /\ DOMAIN back = 1 .. n - over
      /\ \A i \in 1 .. n - over : back[i] = all[over + i]
  BY <1>3, <1>4
<1>6. /\ front \in Seq(held) /\ Len(front) = over /\ DOMAIN front = 1 .. over
      /\ \A i \in 1 .. over : front[i] = all[i]
  BY <1>3, <1>4
<1>7. signedOut' = back /\ dropped' = dropped \cup {t \in ToSet(front) : Pending(t, late')}
  BY <1>2, <1>3
<1>. HIDE DEF back, front
<1>8. signedOut' \in Seq(Token)
  BY <1>1, <1>5, <1>7
<1>9. ToSet(back) \subseteq held
  BY <1>5 DEF ToSet
<1>10. ASSUME NEW t \in held PROVE t \in ToSet(back) \/ t \in ToSet(front)
  <2>1. PICK i \in 1 .. n : all[i] = t
    BY <1>3 DEF ToSet
  <2>2. CASE i <= over
    <3>1. i \in 1 .. over
      BY <2>2, <1>3, <1>4
    <3>. QED
      BY <3>1, <2>1, <1>6 DEF ToSet
  <2>3. CASE ~(i <= over)
    <3>1. i - over \in 1 .. n - over /\ over + (i - over) = i
      BY <2>3, <1>3, <1>4
    <3>. QED
      BY <3>1, <2>1, <1>5 DEF ToSet
  <2>. QED
    BY <2>2, <2>3
<1>. QED
  BY <1>7, <1>8, <1>9, <1>10

-----------------------------------------------------------------------------
(* Requests *)

\* The sign-outs at Jellyfin stay as they are.
SameSignOuts == SignOuts' = SignOuts /\ \A r \in SignOuts : request'[r].cred = request[r].cred

\* A verification that counts counted before, or reads now a token that is accepted.
AppsAsBefore == \A v \in Request : Confirmed(v)' =>
  \/ Confirmed(v) /\ request'[v].cred = request[v].cred
  \/ First(request'[v].cred) \in valid

\* So does what is remembered of owners.
OwnersAsBefore == \A c \in Cred :
  /\ \A r \in Request : owners'[c] = r => AsksFor(r, c)'
  /\ Trusted(c)' => Trusted(c) \/ First(c) \in valid

\* No socket comes back once the closing began.
SocketsAsBefore == \A r \in Request : closing # "no" /\ request'[r].kind = "socket" =>
  /\ request[r].kind = "socket"
  /\ request[r].gone => request'[r].gone
  /\ request[r].at = "ending" => request'[r].at = "ending"

\* Who carries a token as a sign-out follows from the sign-outs.
LEMMA SameCarrying == SameSignOuts => \A t \in Token : Carrying(t)' = Carrying(t)
<1>. QED
  BY DEF SameSignOuts, Carrying

\* Sign-outs stay counted right while none comes or goes.
LEMMA CountStays == CountInv /\ SameSignOuts /\ UNCHANGED signingOut => CountInv'
<1>. QED
  BY SameCarrying DEF CountInv

\* Kept sessions stay as trusted as they were when none is added.
LEMMA KeptStays ==
  ASSUME TypeInv, KeptInv, SameSignOuts, kept' \subseteq kept, UNCHANGED <<valid, signedOut, dropped>>
  PROVE  KeptInv'
<1>. QED
  BY DEF KeptInv, SameSignOuts, Carries

\* What app calls were told stays as good as it was while no token is revoked.
LEMMA AppStays ==
  ASSUME TypeInv, CredInv', LateInv, AppInv, SameSignOuts, AppsAsBefore, UNCHANGED <<valid, missed, signedOut, dropped>>
  PROVE  AppInv'
<1> SUFFICES ASSUME NEW v \in Request, NEW t \in Token, Confirmed(v)', First(request'[v].cred) = t
             PROVE  /\ t \in valid \/ Excused(t)'
                    /\ t \in missed => t \in ToSet(signedOut) \cup dropped
  BY DEF AppInv
<1>1. Excused(t)' <=> Excused(t)
  BY SameCarrying DEF Excused
<1>2. CASE Confirmed(v) /\ request'[v].cred = request[v].cred
  BY <1>1, <1>2 DEF AppInv
<1>3. CASE t \in valid
  BY <1>3 DEF LateInv
<1>. QED
  BY <1>2, <1>3 DEF AppsAsBefore

\* Remembered owners stay right while no token is revoked.
LEMMA OwnerStays ==
  ASSUME OwnerInv, SameSignOuts, OwnersAsBefore, UNCHANGED <<valid, missed>>
  PROVE  OwnerInv'
<1> SUFFICES ASSUME NEW c \in Cred
             PROVE  /\ \A r \in Request : owners'[c] = r => AsksFor(r, c)'
                    /\ Trusted(c)' => First(c) \in valid \/ Excused(First(c))'
  BY DEF OwnerInv
<1>1. First(c) \in Token
  BY CredKeys
<1>2. Excused(First(c))' <=> Excused(First(c))
  BY <1>1, SameCarrying DEF Excused
<1>. QED
  BY <1>2 DEF OwnersAsBefore, OwnerInv

\* Sockets stay as they are while none opens and nothing closes.
LEMMA SocketStays ==
  ASSUME SocketInv, SocketsAsBefore, UNCHANGED <<closing, awaited>>
  PROVE  SocketInv'
<1>. QED
  BY DEF SocketInv, SocketsAsBefore, Sockets, Leaving

\* A step after which nothing is newly kept or believed.
LEMMA StillStep ==
  ASSUME IInv, TypeInv', CredInv', SameSignOuts, AppsAsBefore, OwnersAsBefore, SocketInv',
         kept' \subseteq kept, UNCHANGED <<jellyfin, signingOut, signedOut, dropped>>
  PROVE  IInv'
<1> USE DEF IInv, jellyfin
<1>1. LateInv'
  BY DEF LateInv
<1>. QED
  BY <1>1, CountStays, KeptStays, AppStays, OwnerStays

\* And no socket is newly open.
LEMMA QuietStep ==
  ASSUME IInv, TypeInv', CredInv', SameSignOuts, AppsAsBefore, OwnersAsBefore, SocketsAsBefore,
         kept' \subseteq kept, UNCHANGED <<jellyfin, signingOut, signedOut, dropped, shutdown>>
  PROVE  IInv'
<1>. QED
  BY StillStep, SocketStays DEF IInv, shutdown

-----------------------------------------------------------------------------
(* One request goes on *)

\* What request r may become without a word of Jellyfin's being believed for longer.
Harmless(r, q) ==
  /\ q \in RequestType
  /\ q.kind \in {"app", "signOut"} => q.cred \in Cred
  /\ q.at = "asked" => q.read # "failed"
  /\ q.at # "sent" /\ r \notin SignOuts
  /\ q.kind = "app" /\ q.at = "asked" /\ q.read = "ok" => First(q.cred) \in valid
  /\ closing # "no" /\ q.kind = "socket" =>
       /\ request[r].kind = "socket"
       /\ request[r].gone => q.gone
       /\ request[r].at = "ending" => q.at = "ending"

\* #tokenOwners changes for request r's question alone, or forgets.
AsksAlone(r, q) == \A c \in Cred :
  /\ owners'[c] \in {owners[c], "none", r}
  /\ owners'[c] = r =>
       /\ q.kind # "app" /\ q.at = "asked" /\ q.asks = r /\ q.cred = c
       /\ q.read = "ok" => First(c) \in valid

\* A step of one request that adds no session, sign-out or socket keeps the invariant.
LEMMA OneRequest ==
  ASSUME IInv, NEW r \in Request, NEW q, request' = [request EXCEPT ![r] = q],
         Harmless(r, q), AsksAlone(r, q), owners' \in [Cred -> Request \cup {"none", "ok", "refused"}],
         kept' \subseteq kept, UNCHANGED <<jellyfin, signingOut, signedOut, dropped, shutdown>>
  PROVE  IInv'
<1>1. /\ request'[r] = q /\ \A x \in Request \ {r} : request'[x] = request[x]
      /\ request' \in [Request -> RequestType]
  BY DEF IInv, TypeInv, Harmless
<1>2. TypeInv'
  BY <1>1 DEF IInv, TypeInv, jellyfin, shutdown
<1>3. CredInv'
  BY <1>1 DEF IInv, CredInv, Harmless
<1>4. SameSignOuts
  BY <1>1 DEF SameSignOuts, SignOuts, Harmless
<1>5. AppsAsBefore
  <2> SUFFICES ASSUME NEW v \in Request, Confirmed(v)'
               PROVE  \/ Confirmed(v) /\ request'[v].cred = request[v].cred
                      \/ First(request'[v].cred) \in valid
    BY DEF AppsAsBefore
  <2>1. CASE v = r
    BY <2>1, <1>1 DEF Confirmed, Verifying, Harmless
  <2>2. CASE v # r
    BY <2>2, <1>1 DEF Confirmed, Verifying
  <2>. QED
    BY <2>1, <2>2
<1>6. OwnersAsBefore
  <2> SUFFICES ASSUME NEW c \in Cred
               PROVE  /\ \A x \in Request : owners'[c] = x => AsksFor(x, c)'
                      /\ Trusted(c)' => Trusted(c) \/ First(c) \in valid
    BY DEF OwnersAsBefore
  <2>1. CASE owners'[c] = r
    BY <2>1, <1>1, RequestAssumption DEF AsksAlone, AsksFor, Trusted
  <2>2. CASE owners'[c] # r /\ owners'[c] = owners[c]
    BY <2>2, <1>1 DEF IInv, OwnerInv, AsksFor, Trusted
  <2>3. CASE owners'[c] = "none"
    BY <2>3, RequestAssumption DEF Trusted
  <2>. QED
    BY <2>1, <2>2, <2>3 DEF AsksAlone
<1>7. SocketsAsBefore
  BY <1>1 DEF SocketsAsBefore, Harmless
<1>. QED
  BY <1>2, <1>3, <1>4, <1>5, <1>6, <1>7, QuietStep

\* No question of request r's is awaited: it asked none, or it is the app's.
LEMMA NoQuestion ==
  ASSUME IInv, NEW r \in Request, request[r].kind = "app" \/ request[r].at # "asked", NEW q, UNCHANGED owners
  PROVE  AsksAlone(r, q) /\ owners' \in [Cred -> Request \cup {"none", "ok", "refused"}]
<1>. QED
  BY DEF AsksAlone, IInv, TypeInv, OwnerInv, AsksFor

\* A request that was no sign-out may end.
LEMMA NoneHarmless ==
  ASSUME NEW r \in Request, r \notin SignOuts
  PROVE  Harmless(r, None)
<1>. QED
  BY NoneType DEF Harmless, None

\* Jellyfin reading the token it was sent keeps the invariant.
LEMMA ReadsKeep == ASSUME IInv, NEW r \in Request, Reads(r) PROVE IInv'
<1> DEFINE answer == IF First(request[r].cred) \in valid THEN "ok" ELSE "refused"
           q == [request[r] EXCEPT !.read = answer]
<1>1. request[r] \in RequestType
  BY DEF IInv, TypeInv
<1>2. /\ request' = [request EXCEPT ![r] = q] /\ request[r].at = "asked" /\ request[r].asks = r
      /\ UNCHANGED <<jellyfin, memory, shutdown>>
  BY DEF Reads, jellyfin, memory, shutdown
<1>3. answer \in {"ok", "refused"} /\ (answer = "ok" => First(request[r].cred) \in valid)
  OBVIOUS
<1>. HIDE DEF answer
<1>4. q \in RequestType /\ q.read = answer /\ q.kind = request[r].kind /\ q.at = "asked" /\ q.asks = r
      /\ q.cred = request[r].cred /\ q.gone = request[r].gone
  BY <1>1, <1>2, <1>3 DEF RequestType
<1>. HIDE DEF q
<1>5. Harmless(r, q)
  BY <1>2, <1>3, <1>4 DEF Harmless, SignOuts, IInv, CredInv
<1>6. AsksAlone(r, q)
  BY <1>2, <1>3, <1>4, RequestAssumption DEF AsksAlone, IInv, OwnerInv, AsksFor, memory
<1>. QED
  BY <1>2, <1>5, <1>6, OneRequest DEF memory, IInv, TypeInv

\* Who asks whose a token is is told at once, waits with another or asks Jellyfin.
LEMMA AskOwnerKeeps ==
  ASSUME IInv, NEW r \in Request, NEW kind \in {"relay", "signOut", "socket"}, NEW h \in Household, NEW c \in Cred,
         request[r] = None, kind = "socket" => closing = "no", AskOwner(r, Arrives(r, kind, h, c)),
         UNCHANGED <<jellyfin, kept, signingOut, signedOut, dropped, shutdown>>
  PROVE  IInv'
<1> DEFINE q == Arrives(r, kind, h, c)
<1>1. /\ q \in RequestType
      /\ q.kind = kind /\ q.cred = c /\ q.read = "none" /\ q.at = "none" /\ q.gone = FALSE
  BY DEF Arrives, None, RequestType, NoToken
<1>2. r \notin SignOuts /\ request[r].kind = "none" /\ request[r].at = "none"
  BY DEF None, SignOuts
<1>3. owners[c] # r
  BY <1>2 DEF IInv, OwnerInv, AsksFor
<1>. HIDE DEF q
<1>4. AskOwner(r, q)
  BY DEF q
<1>5. \A x \in Cred : owners[x] # r
  BY <1>2 DEF IInv, OwnerInv, AsksFor
<1>6. ASSUME owners[c] \in {"ok", "refused"}, request' = [request EXCEPT ![r] = [q EXCEPT !.at = "told", !.read = owners[c]]],
             UNCHANGED owners
      PROVE  IInv'
  <2> DEFINE p == [q EXCEPT !.at = "told", !.read = owners[c]]
  <2>1. p \in RequestType /\ p.kind = kind /\ p.cred = c /\ p.at = "told"
    BY <1>1, <1>6 DEF RequestType
  <2>2. request' = [request EXCEPT ![r] = p]
    BY <1>6
  <2>. HIDE DEF p
  <2>3. Harmless(r, p)
    BY <1>2, <2>1 DEF Harmless
  <2>. QED
    BY <1>2, <1>6, <2>2, <2>3, NoQuestion, OneRequest
<1>7. ASSUME owners[c] \in Request, request' = [request EXCEPT ![r] = [q EXCEPT !.at = "asked", !.asks = owners[c]]],
             UNCHANGED owners
      PROVE  IInv'
  <2> DEFINE p == [q EXCEPT !.at = "asked", !.asks = owners[c]]
  <2>1. p \in RequestType /\ p.kind = kind /\ p.cred = c /\ p.at = "asked" /\ p.read = "none"
    BY <1>1, <1>7 DEF RequestType
  <2>2. request' = [request EXCEPT ![r] = p]
    BY <1>7
  <2>. HIDE DEF p
  <2>3. Harmless(r, p)
    BY <1>2, <2>1 DEF Harmless
  <2>. QED
    BY <1>2, <1>7, <2>2, <2>3, NoQuestion, OneRequest
<1>8. ASSUME request' = [request EXCEPT ![r] = [q EXCEPT !.at = "asked", !.asks = r]],
             owners' = [owners EXCEPT ![c] = r]
      PROVE  IInv'
  <2> DEFINE p == [q EXCEPT !.at = "asked", !.asks = r]
  <2>1. p \in RequestType /\ p.kind = kind /\ p.cred = c /\ p.at = "asked" /\ p.read = "none" /\ p.asks = r
    BY <1>1 DEF RequestType
  <2>2. request' = [request EXCEPT ![r] = p]
    BY <1>8
  <2>. HIDE DEF p
  <2>3. Harmless(r, p)
    BY <1>2, <2>1 DEF Harmless
  <2>4. owners' \in [Cred -> Request \cup {"none", "ok", "refused"}]
    BY <1>8 DEF IInv, TypeInv
  <2>5. AsksAlone(r, p)
    BY <1>5, <1>8, <2>1 DEF AsksAlone, IInv, TypeInv
  <2>. QED
    BY <2>2, <2>3, <2>4, <2>5, OneRequest
<1>9. q.cred = c
  BY <1>1
<1>. QED
  BY <1>4, <1>6, <1>7, <1>8, <1>9 DEF AskOwner

\* A relayed request arriving keeps the invariant.
LEMMA RelayKeeps ==
  ASSUME IInv, NEW r \in Request, NEW h \in Household, NEW c \in Cred, Relay(r, h, c)
  PROVE  IInv'
<1>. QED
  BY AskOwnerKeeps DEF Relay

\* A sign-out arriving keeps the invariant.
LEMMA SignOutKeeps ==
  ASSUME IInv, NEW r \in Request, NEW h \in Household, NEW c \in Cred, SignOut(r, h, c)
  PROVE  IInv'
<1>. QED
  BY AskOwnerKeeps DEF SignOut

\* An upgrade to a WebSocket arriving keeps the invariant.
LEMMA UpgradeKeeps ==
  ASSUME IInv, NEW r \in Request, NEW h \in Household, NEW c \in Cred \cup {NoToken}, Upgrade(r, h, c)
  PROVE  IInv'
<1> DEFINE q == Arrives(r, "socket", h, c)
           p == [q EXCEPT !.at = "upgrading"]
<1>1. CASE c # NoToken /\ AskOwner(r, q)
  BY <1>1, AskOwnerKeeps DEF Upgrade
<1>2. CASE c = NoToken /\ request' = [request EXCEPT ![r] = p] /\ UNCHANGED owners
  <2>1. p \in RequestType /\ p.kind = "socket" /\ p.at = "upgrading"
    BY DEF Arrives, None, RequestType, NoToken
  <2>2. r \notin SignOuts /\ request[r].at = "none" /\ closing = "no"
    BY DEF None, SignOuts, Upgrade
  <2>. HIDE DEF p
  <2>3. Harmless(r, p)
    BY <2>1, <2>2 DEF Harmless
  <2>. QED
    BY <1>2, <2>2, <2>3, NoQuestion, OneRequest DEF Upgrade
<1>. QED
  BY <1>1, <1>2 DEF Upgrade

\* An app call arriving keeps the invariant.
LEMMA AppAsksKeeps ==
  ASSUME IInv, NEW r \in Request, NEW h \in Household, NEW c \in Cred, AppAsks(r, h, c)
  PROVE  IInv'
<1> DEFINE p == [Arrives(r, "app", h, c) EXCEPT !.at = "asked", !.asks = r]
<1>1. p \in RequestType /\ p.kind = "app" /\ p.at = "asked" /\ p.read = "none" /\ p.cred = c
  BY DEF Arrives, None, RequestType, NoToken
<1>2. request' = [request EXCEPT ![r] = p]
  BY DEF AppAsks
<1>. HIDE DEF p
<1>3. r \notin SignOuts /\ request[r].at = "none"
  BY DEF None, SignOuts, AppAsks
<1>4. Harmless(r, p)
  BY <1>1, <1>3 DEF Harmless
<1>5. UNCHANGED <<owners, kept, jellyfin, signingOut, signedOut, dropped, shutdown>>
  BY DEF AppAsks, memory
<1>. QED
  BY <1>2, <1>3, <1>4, <1>5, NoQuestion, OneRequest

\* Requests that end without a trace keep the invariant.
LEMMA OverKeeps ==
  ASSUME IInv, NEW r \in Request, Relayed(r) \/ AppFails(r) \/ Refused(r)
  PROVE  IInv'
<1>1. /\ request' = [request EXCEPT ![r] = None] /\ r \notin SignOuts
      /\ request[r].kind = "app" \/ request[r].at # "asked"
      /\ UNCHANGED <<owners, kept, jellyfin, signingOut, signedOut, dropped, shutdown>>
  BY DEF Relayed, AppFails, Refused, SignOuts, memory
<1>. QED
  BY <1>1, NoneHarmless, NoQuestion, OneRequest

\* An upgrade checked, and its socket opened or refused, keep the invariant.
LEMMA UpgradeTurnsKeep ==
  ASSUME IInv, NEW r \in Request, UpgradeTold(r) \/ \E switched \in BOOLEAN : Upgraded(r, switched)
  PROVE  IInv'
<1>1. /\ request[r].kind = "socket" /\ request[r].at \in {"told", "upgrading"} /\ r \notin SignOuts
      /\ UNCHANGED <<owners, kept, jellyfin, signingOut, signedOut, dropped, shutdown>>
  BY DEF UpgradeTold, Upgraded, SignOuts, memory
<1>2. request[r] \in RequestType
  BY DEF IInv, TypeInv
<1>3. CASE request' = [request EXCEPT ![r] = None]
  BY <1>1, <1>3, NoneHarmless, NoQuestion, OneRequest
<1>4. CASE closing = "no" /\ request' = [request EXCEPT ![r] = [request[r] EXCEPT !.at = "upgrading"]]
  <2> DEFINE p == [request[r] EXCEPT !.at = "upgrading"]
  <2>1. p \in RequestType /\ p.kind = "socket" /\ p.at = "upgrading"
    BY <1>1, <1>2 DEF RequestType
  <2>2. request' = [request EXCEPT ![r] = p]
    BY <1>4
  <2>. HIDE DEF p
  <2>3. Harmless(r, p)
    BY <1>1, <1>4, <2>1 DEF Harmless
  <2>. QED
    BY <1>1, <2>2, <2>3, NoQuestion, OneRequest
<1>5. CASE closing = "no" /\ request' = [request EXCEPT ![r] = [request[r] EXCEPT !.at = "open", !.gone = FALSE]]
  <2> DEFINE p == [request[r] EXCEPT !.at = "open", !.gone = FALSE]
  <2>1. p \in RequestType /\ p.kind = "socket" /\ p.at = "open"
    BY <1>1, <1>2 DEF RequestType
  <2>2. request' = [request EXCEPT ![r] = p]
    BY <1>5
  <2>. HIDE DEF p
  <2>3. Harmless(r, p)
    BY <1>1, <1>5, <2>1 DEF Harmless
  <2>. QED
    BY <1>1, <2>2, <2>3, NoQuestion, OneRequest
<1>. QED
  BY <1>3, <1>4, <1>5 DEF UpgradeTold, Upgraded, Opens

-----------------------------------------------------------------------------
(* An answer for all who wait for it *)

\* The answer about an owner, told to all who wait for it, keeps the invariant.
LEMMA TellKeeps ==
  ASSUME IInv, NEW r \in Request, NEW answer \in {"ok", "refused", "failed"}, Tell(r, answer),
         NEW known \in {request[r].read, "none"}, known \in {"none", "ok", "refused"},
         owners' = [c \in Cred |-> IF owners[c] = r THEN known ELSE owners[c]],
         UNCHANGED <<jellyfin, kept, signingOut, signedOut, dropped, shutdown>>
  PROVE  IInv'
<1>1. request \in [Request -> RequestType]
  BY DEF IInv, TypeInv
<1>2. ASSUME NEW x \in Request
      PROVE  \/ x \notin Waiting(r) /\ request'[x] = request[x]
             \/ x \in Waiting(r) /\ request'[x] = None
             \/ /\ x \in Waiting(r) /\ request'[x] \in RequestType /\ request'[x].at = "told"
                /\ request'[x].kind = request[x].kind /\ request'[x].cred = request[x].cred
                /\ ~request[x].gone
  <2> DEFINE p == [request[x] EXCEPT !.at = "told", !.read = answer, !.asks = "none"]
  <2>1. request[x] \in RequestType
    BY <1>1
  <2>2. p \in RequestType /\ p.at = "told" /\ p.kind = request[x].kind /\ p.cred = request[x].cred
    BY <2>1 DEF RequestType
  <2>3. request'[x] = IF x \notin Waiting(r) THEN request[x] ELSE IF request[x].gone THEN None ELSE p
    BY DEF Tell
  <2>. HIDE DEF p
  <2>. QED
    BY <2>2, <2>3
<1>3. request' \in [Request -> RequestType]
  <2>1. \A x \in Request : request'[x] \in RequestType
    BY <1>1, <1>2, NoneType
  <2>. QED
    BY <2>1 DEF Tell
<1>4. owners' \in [Cred -> Request \cup {"none", "ok", "refused"}]
  BY DEF IInv, TypeInv
<1>5. TypeInv'
  BY <1>3, <1>4 DEF IInv, TypeInv, jellyfin, shutdown
<1>6. CredInv'
  BY <1>2 DEF IInv, CredInv, None
<1>7. SameSignOuts
  BY <1>2 DEF SameSignOuts, SignOuts, Waiting, None
<1>8. AppsAsBefore
  BY <1>2 DEF AppsAsBefore, Confirmed, Verifying, None
<1>9. OwnersAsBefore
  <2> SUFFICES ASSUME NEW c \in Cred
               PROVE  /\ \A x \in Request : owners'[c] = x => AsksFor(x, c)'
                      /\ Trusted(c)' => Trusted(c) \/ First(c) \in valid
    BY DEF OwnersAsBefore
  <2>1. CASE owners[c] = r
    BY <2>1, RequestAssumption DEF Trusted
  <2>2. CASE owners[c] # r
    <3>1. owners'[c] = owners[c]
      BY <2>2
    <3>2. ASSUME owners[c] \in Request PROVE request'[owners[c]] = request[owners[c]]
      BY <2>2, <3>2, <1>2 DEF Waiting, IInv, OwnerInv, AsksFor
    <3>. QED
      BY <3>1, <3>2 DEF Trusted, AsksFor, IInv, OwnerInv
  <2>. QED
    BY <2>1, <2>2
<1>10. SocketsAsBefore
  <2> SUFFICES ASSUME NEW x \in Request, closing # "no", request'[x].kind = "socket"
               PROVE  /\ request[x].kind = "socket"
                      /\ request[x].gone => request'[x].gone
                      /\ request[x].at = "ending" => request'[x].at = "ending"
    BY DEF SocketsAsBefore
  <2>1. CASE x \notin Waiting(r)
    BY <2>1, <1>2
  <2>2. CASE x \in Waiting(r)
    BY <2>2, <1>2 DEF Waiting, IInv, SocketInv, Sockets, Leaving, None
  <2>. QED
    BY <2>1, <2>2
<1>. QED
  BY <1>5, <1>6, <1>7, <1>8, <1>9, <1>10, QuietStep

\* An owner read or not read keeps the invariant.
LEMMA OwnerToldKeeps ==
  ASSUME IInv, NEW r \in Request, OwnerTold(r) \/ OwnerFails(r)
  PROVE  IInv'
<1>1. request[r].read \in {"none", "ok", "refused"}
  BY DEF OwnerTold, OwnerFails, IInv, TypeInv, RequestType, CredInv
<1>2. CASE OwnerTold(r)
  BY <1>1, <1>2, TellKeeps DEF OwnerTold
<1>3. CASE OwnerFails(r)
  BY <1>3, TellKeeps DEF OwnerFails
<1>. QED
  BY <1>2, <1>3

-----------------------------------------------------------------------------
(* What is kept, and for how long *)

\* What is forgotten with time keeps the invariant.
LEMMA ExpiryKeeps ==
  ASSUME IInv, (\E c \in Cred : OwnerExpires(c)) \/ (\E s \in kept : SessionExpires(s))
  PROVE  IInv'
<1>1. /\ UNCHANGED <<request, jellyfin, signingOut, signedOut, dropped, shutdown>> /\ kept' \subseteq kept
      /\ owners' \in [Cred -> Request \cup {"none", "ok", "refused"}]
      /\ \A c \in Cred : owners'[c] \in {owners[c], "none"}
  BY DEF OwnerExpires, SessionExpires, IInv, TypeInv
<1>2. TypeInv' /\ CredInv'
  BY <1>1 DEF IInv, TypeInv, CredInv, jellyfin, shutdown
<1>3. SameSignOuts /\ AppsAsBefore /\ SocketsAsBefore
  BY <1>1 DEF SameSignOuts, SignOuts, AppsAsBefore, Confirmed, Verifying, SocketsAsBefore
<1>4. OwnersAsBefore
  BY <1>1, RequestAssumption DEF OwnersAsBefore, AsksFor, Trusted, IInv, OwnerInv
<1>. QED
  BY <1>1, <1>2, <1>3, <1>4, QuietStep

\* A sign-out that is counted carries the token.
LEMMA Counts ==
  ASSUME TypeInv, CountInv, NEW t \in Token
  PROVE  /\ IsFiniteSet(Carrying(t))
         /\ signingOut[t] = 0 <=> Carrying(t) = {}
<1>1. Carrying(t) \subseteq Request
  BY DEF Carrying, SignOuts
<1>2. IsFiniteSet(Carrying(t))
  BY <1>1, RequestAssumption, FS_Subset
<1>3. signingOut[t] = Cardinality(Carrying(t))
  BY DEF CountInv
<1>. QED
  BY <1>2, <1>3, FS_EmptySet

\* A verified session is kept only while no sign-out spoiled it, which keeps the invariant.
LEMMA AppToldKeeps == ASSUME IInv, NEW r \in Request, AppTold(r) PROVE IInv'
<1> DEFINE c == request[r].cred
<1>1. /\ request[r].kind = "app" /\ request[r].at = "asked" /\ request[r].read # "none"
      /\ request' = [request EXCEPT ![r] = None]
      /\ UNCHANGED <<jellyfin, signingOut, signedOut, dropped, shutdown>>
  BY DEF AppTold
<1>2. c \in Cred /\ request[r].read \in {"ok", "refused"}
  BY <1>1 DEF IInv, CredInv, TypeInv, RequestType
<1>3. request[r].home \in Household \cup {"none"}
  BY DEF IInv, TypeInv, RequestType
<1>4. First(c) \in Token /\ First(c) \in Keys(c) /\ Keys(c) \subseteq Token
  BY <1>2, CredKeys
<1>5. /\ request'[r] = None /\ \A x \in Request \ {r} : request'[x] = request[x]
      /\ request' \in [Request -> RequestType]
  BY <1>1, NoneType DEF IInv, TypeInv
<1>6. SameSignOuts /\ AppsAsBefore /\ SocketsAsBefore
  BY <1>1, <1>5 DEF SameSignOuts, SignOuts, AppsAsBefore, Confirmed, Verifying, SocketsAsBefore, None
<1>7. CredInv'
  BY <1>5 DEF CredInv, IInv, None
<1>8. ASSUME ~(request[r].spoiled /\ request[r].lookupSpoiled), request[r].read = "ok"
      PROVE  /\ First(c) \in valid \/ Excused(First(c))
             /\ First(c) \in missed => First(c) \in ToSet(signedOut) \cup dropped
  BY <1>1, <1>4, <1>8 DEF Confirmed, Verifying, IInv, AppInv
<1>9. KeptInv' /\ kept' \subseteq [home : Household \cup {"none"}, cred : Cred]
  <2>1. CASE ~Keeps(request[r])
    <3>1. kept' = kept
      BY <2>1 DEF AppTold
    <3>. QED
      BY <1>1, <1>6, <3>1, KeptStays DEF IInv, TypeInv, jellyfin
  <2>2. CASE Keeps(request[r])
    <3> DEFINE s == Session(request[r].home, c)
    <3>1. s.cred = c /\ s \in [home : Household \cup {"none"}, cred : Cred]
      BY <1>2, <1>3 DEF Session
    <3>2. kept' = kept \cup {s}
      BY <2>2 DEF AppTold
    <3>. HIDE DEF s
    <3>3. \A t \in Keys(c) : Carrying(t) = {} /\ t \notin ToSet(signedOut)
      BY <2>2, <1>4, Counts DEF Keeps, MayKeep, IInv
    <3>4. First(c) \in valid \cup dropped
      BY <2>2, <3>3, <1>4, <1>8 DEF Keeps, Excused
    <3>5. \A x \in SignOuts : ~Carries(x, Keys(c))
      BY <1>4, <3>3 DEF Carrying, Carries
    <3>6. KeptInv'
      <4> SUFFICES ASSUME NEW k \in kept'
                   PROVE  /\ First(k.cred) \in valid \cup dropped
                          /\ \A x \in SignOuts : Keys(request'[x].cred) \cap Keys(k.cred) = {}
                          /\ Keys(k.cred) \cap ToSet(signedOut) = {}
        BY <1>1, <1>6 DEF KeptInv, SameSignOuts, Carries, jellyfin
      <4>1. CASE k \in kept
        BY <4>1, <1>6 DEF IInv, KeptInv, Carries, SameSignOuts
      <4>2. CASE k = s
        BY <4>2, <3>1, <3>3, <3>4, <3>5, <1>6 DEF Carries, SameSignOuts
      <4>. QED
        BY <4>1, <4>2, <3>2
    <3>. QED
      BY <3>1, <3>2, <3>6 DEF IInv, TypeInv
  <2>. QED
    BY <2>1, <2>2
<1>10. owners' \in [Cred -> Request \cup {"none", "ok", "refused"}]
  BY <1>2 DEF AppTold, IInv, TypeInv
<1>11. OwnerInv'
  <2> SUFFICES ASSUME NEW d \in Cred
               PROVE  /\ \A x \in Request : owners'[d] = x => AsksFor(x, d)'
                      /\ Trusted(d)' => First(d) \in valid \/ Excused(First(d))
    BY <1>1, <1>6, SameCarrying, CredKeys DEF OwnerInv, Excused, jellyfin
  <2>1. CASE Remembers(request[r]) /\ d = c
    <3>1. owners'[d] = request[r].read
      BY <2>1, <1>2 DEF AppTold, IInv, TypeInv
    <3>2. Trusted(d)' => request[r].read = "ok"
      BY <3>1, <1>2, RequestAssumption DEF Trusted
    <3>. QED
      BY <2>1, <3>1, <3>2, <1>2, <1>8, RequestAssumption DEF Remembers, IInv, TypeInv, RequestType
  <2>2. CASE ~(Remembers(request[r]) /\ d = c)
    <3>1. owners'[d] = owners[d]
      BY <2>2, <1>2 DEF AppTold, IInv, TypeInv
    <3>2. owners[d] # r
      BY <1>1 DEF IInv, OwnerInv, AsksFor
    <3>3. Trusted(d)' => Trusted(d)
      BY <3>1, <3>2, <1>5 DEF Trusted
    <3>. QED
      BY <3>1, <3>2, <3>3, <1>5 DEF IInv, OwnerInv, AsksFor
  <2>. QED
    BY <2>1, <2>2
<1>12. TypeInv'
  BY <1>1, <1>5, <1>9, <1>10 DEF IInv, TypeInv, jellyfin, shutdown
<1>13. CountInv' /\ AppInv' /\ SocketInv'
  BY <1>1, <1>6, <1>7, CountStays, AppStays, SocketStays DEF IInv, jellyfin, shutdown
<1>14. LateInv'
  BY <1>1 DEF IInv, LateInv, jellyfin
<1>. QED
  BY <1>7, <1>9, <1>11, <1>12, <1>13, <1>14 DEF IInv

-----------------------------------------------------------------------------
(* Sockets that close *)

\* What request x becomes when sockets close: itself, ended, or asking for one who left.
Closes(x) ==
  \/ request'[x] = request[x]
  \/ x \in Sockets /\ request'[x] = None /\ request[x].at # "asked"
  \/ /\ x \in Sockets /\ request'[x] \in RequestType /\ request'[x].kind = "socket"
     /\ request'[x].at = "asked" <=> request[x].at = "asked"
     /\ request'[x].asks = request[x].asks /\ request'[x].cred = request[x].cred
     /\ request'[x].read = request[x].read

\* Sockets that close, and how far the closing is, touch nothing else.
LEMMA SocketsClose ==
  ASSUME IInv, \A x \in Request : Closes(x), request' = [x \in Request |-> request'[x]], SocketInv',
         closing' \in {"no", "closing", "closed"}, awaited' \subseteq Request, UNCHANGED <<jellyfin, memory>>
  PROVE  IInv'
<1>1. request' \in [Request -> RequestType]
  <2>1. \A x \in Request : request'[x] \in RequestType
    BY NoneType DEF Closes, IInv, TypeInv
  <2>. QED
    BY <2>1
<1>2. TypeInv'
  BY <1>1 DEF IInv, TypeInv, jellyfin, memory
<1>3. CredInv'
  BY DEF IInv, CredInv, Closes, None, Sockets
<1>4. SameSignOuts
  BY DEF SameSignOuts, SignOuts, Closes, None, Sockets
<1>5. AppsAsBefore
  BY DEF AppsAsBefore, Confirmed, Verifying, Closes, None, Sockets
<1>6. OwnersAsBefore
  <2> SUFFICES ASSUME NEW c \in Cred
               PROVE  /\ \A x \in Request : owners'[c] = x => AsksFor(x, c)'
                      /\ Trusted(c)' => Trusted(c) \/ First(c) \in valid
    BY DEF OwnersAsBefore
  <2>1. owners' = owners
    BY DEF memory
  <2>2. ASSUME NEW x \in Request, owners[c] = x
        PROVE  AsksFor(x, c)' /\ request'[x].read = request[x].read
    <3>1. AsksFor(x, c)
      BY <2>2 DEF IInv, OwnerInv
    <3>. QED
      BY <3>1 DEF AsksFor, Closes, Sockets
  <2>. QED
    BY <2>1, <2>2 DEF Trusted
<1>. QED
  BY <1>2, <1>3, <1>4, <1>5, <1>6, StillStep DEF memory

\* What is destroyed is gone, or still to be told that it is.
LEMMA DestroyedGone ==
  ASSUME NEW q \in RequestType, q.kind = "socket"
  PROVE  \/ Destroyed(q) = None /\ q.at # "asked"
         \/ /\ Destroyed(q) \in RequestType /\ Destroyed(q).gone /\ Destroyed(q).kind = "socket"
            /\ Destroyed(q).at = q.at /\ Destroyed(q).asks = q.asks /\ Destroyed(q).cred = q.cred
            /\ Destroyed(q).read = q.read
<1> DEFINE p == [q EXCEPT !.gone = TRUE]
<1>1. /\ p \in RequestType /\ p.gone /\ p.kind = "socket" /\ p.at = q.at /\ p.asks = q.asks /\ p.cred = q.cred
      /\ p.read = q.read
  BY DEF RequestType
<1>2. Destroyed(q) = IF q.at \in {"asked", "upgrading"} THEN p ELSE None
  BY DEF Destroyed
<1>. HIDE DEF p
<1>. QED
  BY <1>1, <1>2

\* A socket that closes keeps the invariant.
LEMMA SocketClosesKeeps == ASSUME IInv, NEW r \in Request, SocketCloses(r) PROVE IInv'
<1>1. r \in Sockets /\ request[r] \in RequestType /\ request[r].kind = "socket"
  BY DEF SocketCloses, IInv, TypeInv, Sockets
<1>2. /\ request'[r] = Destroyed(request[r]) /\ \A x \in Request \ {r} : request'[x] = request[x]
      /\ request' = [x \in Request |-> request'[x]]
  BY DEF SocketCloses, IInv, TypeInv
<1>3. \A x \in Request : Closes(x)
  BY <1>1, <1>2, DestroyedGone DEF Closes
<1>4. SocketInv'
  <2>1. closing' = closing /\ awaited' = awaited \ {r}
    BY DEF SocketCloses
  <2>2. ASSUME closing # "no", NEW x \in Request, request'[x].kind = "socket" PROVE Leaving(x)'
    <3>1. CASE x = r
      BY <3>1, <2>2, <1>1, <1>2, DestroyedGone DEF Leaving, None
    <3>2. CASE x # r
      BY <3>2, <2>1, <2>2, <1>2 DEF Leaving, IInv, SocketInv, Sockets
    <3>. QED
      BY <3>1, <3>2
  <2>. QED
    BY <2>1, <2>2 DEF SocketInv, Sockets, IInv
<1>. QED
  BY <1>2, <1>3, <1>4, SocketsClose DEF SocketCloses, IInv, TypeInv

\* The start of the closing keeps the invariant.
LEMMA CloseKeeps == ASSUME IInv, CloseWebSockets PROVE IInv'
<1>1. ASSUME NEW x \in Request
      PROVE  /\ Closes(x)
             /\ request'[x].kind = "socket" => Leaving(x)'
  <2>1. request[x] \in RequestType
    BY DEF IInv, TypeInv
  <2>2. CASE x \notin Sockets
    <3>1. request'[x] = request[x]
      BY <2>2 DEF CloseWebSockets
    <3>. QED
      BY <2>2, <3>1 DEF Closes, Sockets
  <2>3. CASE x \in Sockets /\ request[x].at = "open"
    <3> DEFINE p == [request[x] EXCEPT !.at = "ending"]
    <3>1. request'[x] = p
      BY <2>3 DEF CloseWebSockets
    <3>2. /\ p \in RequestType /\ p.at = "ending" /\ p.kind = "socket" /\ p.asks = request[x].asks
          /\ p.cred = request[x].cred /\ p.read = request[x].read
      BY <2>1, <2>3 DEF RequestType, Sockets
    <3>. HIDE DEF p
    <3>3. x \in awaited'
      BY <2>3 DEF CloseWebSockets
    <3>. QED
      BY <2>3, <3>1, <3>2, <3>3 DEF Closes, Leaving
  <2>4. CASE x \in Sockets /\ request[x].at # "open"
    <3>1. request'[x] = Destroyed(request[x]) /\ request[x].kind = "socket"
      BY <2>4 DEF CloseWebSockets, Sockets
    <3> DEFINE d == Destroyed(request[x])
    <3>2. \/ d = None /\ request[x].at # "asked"
          \/ /\ d \in RequestType /\ d.gone /\ d.kind = "socket" /\ d.at = request[x].at
             /\ d.asks = request[x].asks /\ d.cred = request[x].cred /\ d.read = request[x].read
      BY <2>1, <3>1, DestroyedGone
    <3>3. request'[x] = d
      BY <3>1
    <3>. HIDE DEF d
    <3>4. Closes(x)
      BY <2>4, <3>2, <3>3 DEF Closes
    <3>5. request'[x].kind = "socket" => Leaving(x)'
      BY <3>2, <3>3 DEF Leaving, None
    <3>. QED
      BY <3>4, <3>5
  <2>. QED
    BY <2>2, <2>3, <2>4
<1>2. SocketInv'
  BY <1>1 DEF SocketInv, Sockets, CloseWebSockets
<1>3. request' = [x \in Request |-> request'[x]] /\ awaited' \subseteq Request
  BY DEF CloseWebSockets, Sockets
<1>. QED
  BY <1>1, <1>2, <1>3, SocketsClose DEF CloseWebSockets

\* The end of the closing keeps the invariant.
LEMMA ClosedKeeps == ASSUME IInv, WebSocketsClosed PROVE IInv'
<1>1. SocketInv'
  BY DEF WebSocketsClosed, IInv, SocketInv, Sockets, Leaving
<1>2. request' = [x \in Request |-> request'[x]] /\ awaited' \subseteq Request /\ \A x \in Request : Closes(x)
  BY DEF WebSocketsClosed, IInv, TypeInv, Closes
<1>. QED
  BY <1>1, <1>2, SocketsClose DEF WebSocketsClosed

-----------------------------------------------------------------------------
(* What Jellyfin does, and the end of a grace *)

\* Jellyfin ends sessions while no request goes on, and no trusted one it should not.
LEMMA JellyfinKeeps ==
  ASSUME IInv, UNCHANGED <<memory, request, shutdown>>, NEW t \in Token,
         valid' = valid \/ valid' = valid \ {t}, valid' # valid => Excused(t)',
         missed \subseteq missed', LateInv', late' \subseteq Token,
         missed' = missed \/ (missed' = missed \cup {t} /\ t \in late),
         \A s \in kept : valid' # valid /\ First(s.cred) = t => t \in dropped
  PROVE  IInv'
<1>1. request' = request /\ signedOut' = signedOut /\ dropped' = dropped /\ owners' = owners /\ kept' = kept
      /\ signingOut' = signingOut /\ closing' = closing /\ awaited' = awaited
  BY DEF memory, shutdown
<1>2. TypeInv' /\ CredInv' /\ SocketInv'
  BY <1>1 DEF IInv, TypeInv, CredInv, SocketInv, Sockets, Leaving
<1>3. SameSignOuts
  BY <1>1 DEF SameSignOuts, SignOuts
<1>4. \A x \in Token : Carrying(x)' = Carrying(x)
  BY <1>3, SameCarrying
<1>5. CountInv'
  BY <1>1, <1>3, CountStays DEF IInv
<1>6. KeptInv'
  BY <1>1, <1>3 DEF IInv, KeptInv, Carries, SameSignOuts
<1>7. ASSUME NEW x \in Token, x \in valid \/ Excused(x) PROVE x \in valid' \/ Excused(x)'
  BY <1>4, <1>7 DEF Excused
<1>8. AppInv'
  <2> SUFFICES ASSUME NEW v \in Request, NEW x \in Token, Confirmed(v), First(request[v].cred) = x
               PROVE  /\ x \in valid' \/ Excused(x)'
                      /\ x \in missed' => x \in ToSet(signedOut) \cup dropped
    BY <1>1 DEF AppInv, Confirmed, Verifying
  <2>. QED
    BY <1>7 DEF IInv, AppInv, LateInv
<1>9. OwnerInv'
  <2> SUFFICES ASSUME NEW c \in Cred
               PROVE  /\ \A x \in Request : owners[c] = x => AsksFor(x, c)
                      /\ Trusted(c) => First(c) \in valid' \/ Excused(First(c))'
    BY <1>1 DEF OwnerInv, AsksFor, Trusted
  <2>1. First(c) \in Token
    BY CredKeys
  <2>. QED
    BY <2>1, <1>7 DEF IInv, OwnerInv
<1>. QED
  BY <1>2, <1>5, <1>6, <1>8, <1>9 DEF IInv

\* Jellyfin revoking the token of a sign-out keeps the invariant.
LEMMA RevokesKeeps == ASSUME IInv, NEW r \in Request, Revokes(r) PROVE IInv'
<1>1. PICK t : t = First(request[r].cred)
  OBVIOUS
<1>2. /\ r \in SignOuts /\ valid' = valid \ {t}
      /\ UNCHANGED <<late, missed, memory, request, shutdown>>
  BY <1>1 DEF Revokes
<1>3. request[r].cred \in Cred
  BY <1>2 DEF IInv, CredInv, SignOuts
<1>4. t \in Token /\ t \in Keys(request[r].cred)
  BY <1>1, <1>3, CredKeys
<1>5. Excused(t)'
  BY <1>2, <1>4 DEF Excused, Carrying, SignOuts
<1>6. LateInv'
  BY <1>2 DEF IInv, LateInv, memory
<1>7. ASSUME NEW s \in kept, First(s.cred) = t PROVE FALSE
  <2>1. s.cred \in Cred
    BY DEF IInv, TypeInv
  <2>2. t \in Keys(s.cred)
    BY <2>1, <1>7, CredKeys
  <2>. QED
    BY <2>2, <1>2, <1>4 DEF IInv, KeptInv, Carries
<1>8. late' \subseteq Token
  BY <1>2 DEF IInv, TypeInv
<1>. QED
  BY <1>2, <1>4, <1>5, <1>6, <1>7, <1>8, JellyfinKeeps

\* Jellyfin revoking late, or never, keeps the invariant.
LEMMA RevokesLateKeeps ==
  ASSUME IInv, NEW t \in Token, RevokesLate(t) \/ NeverRevokes(t)
  PROVE  IInv'
<1>1. LateInv' /\ late' \subseteq Token
  BY DEF RevokesLate, NeverRevokes, IInv, LateInv, TypeInv, memory
<1>2. CASE RevokesLate(t)
  <2>1. Excused(t)'
    BY <1>2 DEF RevokesLate, Excused
  <2>2. ASSUME NEW s \in kept, First(s.cred) = t PROVE t \in dropped
    <3>1. s.cred \in Cred
      BY DEF IInv, TypeInv
    <3>2. t \in Keys(s.cred)
      BY <3>1, <2>2, CredKeys
    <3>. QED
      BY <3>2, <1>2 DEF IInv, KeptInv, LateInv, RevokesLate
  <2>. QED
    BY <1>1, <1>2, <2>1, <2>2, JellyfinKeeps DEF RevokesLate
<1>3. CASE NeverRevokes(t)
  BY <1>1, <1>3, JellyfinKeeps DEF NeverRevokes
<1>. QED
  BY <1>2, <1>3

\* Nobody needs the token any more whose grace is over.
LEMMA GraceOverKeeps == ASSUME IInv, GraceOver PROVE IInv'
<1>1. /\ signedOut # <<>> /\ ~Pending(Head(signedOut), late) /\ signedOut' = Tail(signedOut)
      /\ UNCHANGED <<valid, late, missed, kept, owners, request, signingOut, dropped, closing, awaited>>
  BY DEF GraceOver, jellyfin, shutdown
<1>2. /\ Head(signedOut) \in ToSet(signedOut) /\ signedOut' \in Seq(Token)
      /\ ToSet(signedOut') \subseteq ToSet(signedOut)
      /\ ToSet(signedOut) \subseteq ToSet(signedOut') \cup {Head(signedOut)}
  BY <1>1, Oldest DEF IInv, TypeInv
<1>3. TypeInv' /\ CredInv' /\ SocketInv'
  BY <1>1, <1>2 DEF IInv, TypeInv, CredInv, SocketInv, Sockets, Leaving
<1>4. SameSignOuts
  BY <1>1 DEF SameSignOuts, SignOuts
<1>5. CountInv'
  BY <1>1, <1>4, CountStays DEF IInv
<1>6. KeptInv'
  BY <1>1, <1>2, <1>4 DEF IInv, KeptInv, Carries, SameSignOuts
<1>7. LateInv'
  BY <1>1, <1>2 DEF IInv, LateInv, Pending
<1>8. \A x \in Token : Excused(x)' <=> Excused(x)
  BY <1>1, <1>4, SameCarrying DEF Excused
<1>9. AppInv'
  <2> SUFFICES ASSUME NEW v \in Request, NEW x \in Token, Confirmed(v), First(request[v].cred) = x
               PROVE  /\ x \in valid \/ Excused(x)'
                      /\ x \in missed => x \in ToSet(signedOut') \cup dropped
    BY <1>1 DEF AppInv, Confirmed, Verifying
  <2>1. x \in missed => Pending(x, late)
    BY DEF Pending, Confirmed
  <2>. QED
    BY <2>1, <1>1, <1>2, <1>8 DEF IInv, AppInv
<1>10. OwnerInv'
  BY <1>1, <1>4, <1>8, CredKeys DEF IInv, OwnerInv, AsksFor, Trusted
<1>. QED
  BY <1>3, <1>5, <1>6, <1>7, <1>9, <1>10 DEF IInv

-----------------------------------------------------------------------------
(* A sign-out forgets and spoils *)

\* What a sign-out does with everything known of its tokens.
Forgets(r, q) ==
  /\ request[r].kind = "signOut" /\ request[r].at \in {"told", "sent"}
  /\ q = None \/ (q \in RequestType /\ q.kind = "signOut" /\ q.at = "sent" /\ q.cred = request[r].cred)
  /\ request' = [Spoil(Keys(request[r].cred)) EXCEPT ![r] = q]
  /\ owners' = ForgetTokenOwners(Keys(request[r].cred))
  /\ kept' = ForgetSessions(r, Keys(request[r].cred))
  /\ UNCHANGED <<valid, missed, shutdown>>

\* What a sign-out spoils: every verification of its tokens, and nothing else of a request.
LEMMA Spoiled ==
  ASSUME IInv, NEW r \in Request, NEW q, Forgets(r, q)
  PROVE  /\ request'[r] = q /\ request' \in [Request -> RequestType]
         /\ \A x \in Request \ {r} :
              /\ request'[x].kind = request[x].kind /\ request'[x].at = request[x].at
              /\ request'[x].cred = request[x].cred /\ request'[x].read = request[x].read
              /\ request'[x].asks = request[x].asks /\ request'[x].gone = request[x].gone
              /\ Confirmed(x)' => Confirmed(x) /\ ~Carries(x, Keys(request[r].cred))
<1> DEFINE keys == Keys(request[r].cred)
<1>1. /\ request'[r] = q /\ \A x \in Request \ {r} : request'[x] = Spoil(keys)[x]
      /\ request' = [x \in Request |-> IF x = r THEN q ELSE Spoil(keys)[x]]
  BY DEF Forgets, Spoil
<1>. HIDE DEF keys
<1>2. ASSUME NEW x \in Request
      PROVE  \/ Spoil(keys)[x] = request[x] /\ ~(x \in Verifying /\ Carries(x, keys))
             \/ /\ Spoil(keys)[x] \in RequestType
                /\ Spoil(keys)[x].kind = request[x].kind /\ Spoil(keys)[x].at = request[x].at
                /\ Spoil(keys)[x].cred = request[x].cred /\ Spoil(keys)[x].read = request[x].read
                /\ Spoil(keys)[x].asks = request[x].asks /\ Spoil(keys)[x].gone = request[x].gone
                /\ Spoil(keys)[x].spoiled /\ Spoil(keys)[x].lookupSpoiled
  <2> DEFINE p == [request[x] EXCEPT !.spoiled = TRUE, !.lookupSpoiled = TRUE]
  <2>1. request[x] \in RequestType
    BY DEF IInv, TypeInv
  <2>2. /\ p \in RequestType /\ p.kind = request[x].kind /\ p.at = request[x].at /\ p.cred = request[x].cred
        /\ p.read = request[x].read /\ p.asks = request[x].asks /\ p.gone = request[x].gone
        /\ p.spoiled /\ p.lookupSpoiled
    BY <2>1 DEF RequestType
  <2>3. Spoil(keys)[x] = IF x \in Verifying /\ Carries(x, keys) THEN p ELSE request[x]
    BY DEF Spoil
  <2>. HIDE DEF p
  <2>. QED
    BY <2>2, <2>3
<1>3. q \in RequestType
  BY NoneType DEF Forgets
<1>4. \A x \in Request : Spoil(keys)[x] \in RequestType
  BY <1>2 DEF IInv, TypeInv
<1>5. request' \in [Request -> RequestType]
  BY <1>1, <1>3, <1>4
<1>6. ASSUME NEW x \in Request \ {r}
      PROVE  /\ request'[x].kind = request[x].kind /\ request'[x].at = request[x].at
             /\ request'[x].cred = request[x].cred /\ request'[x].read = request[x].read
             /\ request'[x].asks = request[x].asks /\ request'[x].gone = request[x].gone
             /\ Confirmed(x)' => Confirmed(x) /\ ~Carries(x, keys)
  <2>1. CASE request'[x] = request[x] /\ ~(x \in Verifying /\ Carries(x, keys))
    BY <2>1 DEF Confirmed, Verifying
  <2>2. CASE request'[x] # request[x] \/ (x \in Verifying /\ Carries(x, keys))
    BY <2>2, <1>1, <1>2 DEF Confirmed
  <2>. QED
    BY <2>1, <2>2
<1>. QED
  BY <1>1, <1>5, <1>6 DEF keys

\* Forgetting the sessions and owners of a sign-out's tokens keeps the invariant.
LEMMA ForgetKeeps ==
  ASSUME IInv, NEW r \in Request, NEW q, Forgets(r, q),
         CountInv', LateInv', late' \subseteq Token, signingOut' \in [Token -> Nat],
         signedOut' \in Seq(Token), dropped \subseteq dropped',
         ToSet(signedOut') \subseteq ToSet(signedOut) \cup Keys(request[r].cred),
         \A t \in ToSet(signedOut) : t \in ToSet(signedOut') \/ t \in dropped' \/ ~Pending(t, late')
  PROVE  IInv'
<1> DEFINE keys == Keys(request[r].cred)
<1>1. request'[r] = q /\ request' \in [Request -> RequestType]
  BY Spoiled
<1>2. ASSUME NEW x \in Request \ {r}
      PROVE  /\ request'[x].kind = request[x].kind /\ request'[x].at = request[x].at
             /\ request'[x].cred = request[x].cred /\ request'[x].read = request[x].read
             /\ request'[x].asks = request[x].asks /\ request'[x].gone = request[x].gone
             /\ Confirmed(x)' => Confirmed(x) /\ ~Carries(x, keys)
  BY <1>2, Spoiled
<1>3. request[r].cred \in Cred
  BY DEF Forgets, IInv, CredInv
<1>4. UNCHANGED <<valid, missed, closing, awaited>>
  BY DEF Forgets, shutdown
<1>. HIDE DEF keys
<1>5. CredInv'
  <2>1. /\ q.kind \in {"app", "signOut"} => q.cred \in Cred
        /\ q.at # "asked"
    BY <1>3 DEF Forgets, None
  <2>2. ASSUME NEW x \in Request \ {r}
        PROVE  /\ request'[x].kind \in {"app", "signOut"} => request'[x].cred \in Cred
               /\ request'[x].at = "asked" => request'[x].read # "failed"
    BY <1>2, <2>2 DEF IInv, CredInv
  <2>. QED
    BY <1>1, <2>1, <2>2 DEF CredInv
<1>6. /\ \A c \in Cred : owners'[c] = "none" \/ (owners'[c] = owners[c] /\ Keys(c) \cap keys = {})
      /\ owners' \in [Cred -> Request \cup {"none", "ok", "refused"}]
  BY DEF Forgets, ForgetTokenOwners, IInv, TypeInv, keys
<1>7. \A s \in kept' : s \in kept /\ Keys(s.cred) \cap keys = {}
  BY DEF Forgets, ForgetSessions, keys
<1>8. TypeInv'
  BY <1>1, <1>4, <1>6, <1>7 DEF IInv, TypeInv
<1>9. \A x \in SignOuts' \ {r} : x \in SignOuts /\ request'[x].cred = request[x].cred
  BY <1>2 DEF SignOuts
<1>10. r \in SignOuts' => Keys(request'[r].cred) = keys
  BY <1>1 DEF SignOuts, Forgets, None, keys
<1>11. ASSUME NEW t \in Token, t \notin keys, Excused(t) PROVE Excused(t)'
  <2>1. CASE t \in missed
    BY <2>1, <1>4 DEF Excused
  <2>2. ASSUME NEW x \in Carrying(t) PROVE x \in Carrying(t)'
    <3>1. x \in Request \ {r}
      BY <1>11, <2>2 DEF Carrying, SignOuts, keys
    <3>. QED
      BY <3>1, <1>2 DEF Carrying, SignOuts
  <2>. QED
    BY <2>1, <2>2, <1>11 DEF Excused
<1>12. KeptInv'
  <2> SUFFICES ASSUME NEW s \in kept'
               PROVE  /\ First(s.cred) \in valid \cup dropped'
                      /\ \A x \in SignOuts' : Keys(request'[x].cred) \cap Keys(s.cred) = {}
                      /\ Keys(s.cred) \cap ToSet(signedOut') = {}
    BY <1>4 DEF KeptInv, Carries
  <2>. QED
    BY <1>7, <1>9, <1>10 DEF IInv, KeptInv, Carries, keys
<1>13. AppInv'
  <2> SUFFICES ASSUME NEW v \in Request, NEW t \in Token, Confirmed(v)', First(request'[v].cred) = t
               PROVE  /\ t \in valid \/ Excused(t)'
                      /\ t \in missed => t \in ToSet(signedOut') \cup dropped'
    BY <1>4 DEF AppInv
  <2>1. v # r
    BY <1>1 DEF Confirmed, Verifying, Forgets, None
  <2>2. Confirmed(v) /\ ~Carries(v, keys) /\ First(request[v].cred) = t
    BY <2>1, <1>2
  <2>3. request[v].cred \in Cred
    BY <2>2 DEF Confirmed, Verifying, IInv, CredInv
  <2>4. t \notin keys
    BY <2>2, <2>3, CredKeys DEF Carries
  <2>5. t \in missed => Pending(t, late')
    BY <2>2 DEF Pending, Confirmed
  <2>. QED
    BY <2>2, <2>4, <2>5, <1>11 DEF IInv, AppInv
<1>14. OwnerInv'
  <2> SUFFICES ASSUME NEW c \in Cred
               PROVE  /\ \A x \in Request : owners'[c] = x => AsksFor(x, c)'
                      /\ Trusted(c)' => First(c) \in valid \/ Excused(First(c))'
    BY <1>4 DEF OwnerInv
  <2>1. CASE owners'[c] = "none"
    BY <2>1, RequestAssumption DEF Trusted
  <2>2. CASE owners'[c] = owners[c] /\ Keys(c) \cap keys = {}
    <3>1. ASSUME NEW x \in Request, owners[c] = x
          PROVE  AsksFor(x, c)' /\ request'[x].read = request[x].read
      <4>1. AsksFor(x, c)
        BY <3>1 DEF IInv, OwnerInv
      <4>2. x # r
        BY <4>1 DEF AsksFor, Forgets
      <4>. QED
        BY <4>1, <4>2, <1>2 DEF AsksFor
    <3>2. Trusted(c)' => Trusted(c)
      BY <2>2, <3>1 DEF Trusted
    <3>3. First(c) \in Token /\ First(c) \notin keys
      BY <2>2, CredKeys
    <3>. QED
      BY <2>2, <3>1, <3>2, <3>3, <1>11 DEF IInv, OwnerInv
  <2>. QED
    BY <2>1, <2>2, <1>6
<1>15. SocketInv'
  <2>1. \A x \in Sockets' : x \in Request \ {r}
    BY <1>1 DEF Sockets, Forgets, None
  <2>2. ASSUME NEW x \in Request \ {r} PROVE Leaving(x)' <=> Leaving(x)
    BY <1>2, <1>4 DEF Leaving
  <2>. QED
    BY <2>1, <2>2, <1>2, <1>4 DEF IInv, SocketInv, Sockets
<1>. QED
  BY <1>5, <1>8, <1>12, <1>13, <1>14, <1>15 DEF IInv

\* The count of the sign-outs that carry a token, once r's begins and once it is over.
LEMMA ForgetCounts ==
  ASSUME IInv, NEW r \in Request, NEW q, Forgets(r, q), NEW t \in Token
  PROVE  Carrying(t)' = IF q # None /\ t \in Keys(request[r].cred) THEN Carrying(t) \cup {r} ELSE Carrying(t) \ {r}
<1>1. request'[r] = q
  BY Spoiled
<1>2. ASSUME NEW x \in Request \ {r} PROVE x \in Carrying(t)' <=> x \in Carrying(t)
  <2>1. /\ request'[x].kind = request[x].kind /\ request'[x].at = request[x].at
        /\ request'[x].cred = request[x].cred
    BY Spoiled
  <2>. QED
    BY <2>1 DEF Carrying, SignOuts
<1>3. r \in Carrying(t)' <=> q # None /\ t \in Keys(request[r].cred)
  BY <1>1 DEF Carrying, SignOuts, Forgets, None
<1>4. Carrying(t) \subseteq Request /\ Carrying(t)' \subseteq Request
  BY DEF Carrying, SignOuts
<1>. QED
  BY <1>2, <1>3, <1>4

\* A sign-out refused for want of room keeps the invariant.
LEMMA TooManyKeeps == ASSUME IInv, NEW r \in Request, TooMany(r) PROVE IInv'
<1>1. Forgets(r, None)
  BY DEF Forgets, TooMany, jellyfin
<1>2. UNCHANGED <<late, missed, valid, signingOut, signedOut, dropped>>
  BY DEF TooMany, jellyfin
<1>3. r \notin SignOuts
  BY DEF TooMany, SignOuts
<1>4. ASSUME NEW t \in Token PROVE Carrying(t)' = Carrying(t)
  BY <1>1, <1>3, ForgetCounts DEF Carrying
<1>5. CountInv'
  BY <1>2, <1>4 DEF IInv, CountInv
<1>6. LateInv' /\ late' \subseteq Token /\ signingOut' \in [Token -> Nat] /\ signedOut' \in Seq(Token)
  BY <1>2 DEF IInv, LateInv, TypeInv
<1>. QED
  BY <1>1, <1>2, <1>5, <1>6, ForgetKeeps

\* A sign-out that never reached Jellyfin keeps the invariant.
LEMMA NotSentKeeps == ASSUME IInv, NEW r \in Request, NotSent(r) PROVE IInv'
<1> DEFINE keys == Keys(request[r].cred)
<1>1. Forgets(r, None)
  BY DEF Forgets, NotSent, jellyfin
<1>2. UNCHANGED <<late, missed, valid, signingOut>>
  BY DEF NotSent, jellyfin
<1>3. r \notin SignOuts
  BY DEF NotSent, SignOuts
<1>4. ASSUME NEW t \in Token PROVE Carrying(t)' = Carrying(t)
  BY <1>1, <1>3, ForgetCounts DEF Carrying
<1>5. CountInv'
  BY <1>2, <1>4 DEF IInv, CountInv
<1>6. keys \in SUBSET Token /\ IsFiniteSet(keys)
  BY <1>1, CredKeys DEF Forgets, IInv, CredInv
<1>7. KeepBack(request[r].cred, keys)
  BY DEF NotSent
<1>8. signedOut \in Seq(Token)
  BY DEF IInv, TypeInv
<1>. HIDE DEF keys
<1>9. /\ signedOut' \in Seq(Token) /\ dropped \subseteq dropped'
      /\ ToSet(signedOut') \subseteq ToSet(signedOut) \cup keys
      /\ \A t \in ToSet(signedOut) \cup keys : t \in ToSet(signedOut') \/ t \in dropped' \/ ~Pending(t, late')
  BY <1>6, <1>7, <1>8, KeepsBack
<1>10. LateInv' /\ late' \subseteq Token /\ signingOut' \in [Token -> Nat]
  BY <1>2, <1>9 DEF IInv, LateInv, TypeInv, Pending
<1>. QED
  BY <1>1, <1>5, <1>9, <1>10, ForgetKeeps DEF keys

\* A sign-out going to Jellyfin keeps the invariant.
LEMMA SendKeeps == ASSUME IInv, NEW r \in Request, Send(r) PROVE IInv'
<1> DEFINE keys == Keys(request[r].cred)
           q == [request[r] EXCEPT !.at = "sent", !.verified = Found(keys)]
<1>1. request[r] \in RequestType /\ request[r].kind = "signOut" /\ request[r].at = "told"
  BY DEF Send, IInv, TypeInv
<1>2. keys \subseteq Token
  BY <1>1, CredKeys DEF IInv, CredInv
<1>3. q \in RequestType /\ q.kind = "signOut" /\ q.at = "sent" /\ q.cred = request[r].cred
  BY <1>1, <1>2 DEF RequestType, Found
<1>4. /\ request' = [Spoil(keys) EXCEPT ![r] = q]
      /\ owners' = ForgetTokenOwners(keys) /\ kept' = ForgetSessions(r, keys)
      /\ signingOut' = Counted(keys)
      /\ UNCHANGED <<late, valid, missed, shutdown, signedOut, dropped>>
  BY DEF Send, jellyfin
<1>. HIDE DEF q
<1>5. Forgets(r, q)
  BY <1>1, <1>3, <1>4 DEF Forgets
<1>6. q # None
  BY <1>3 DEF None
<1>. HIDE DEF keys
<1>7. signingOut' \in [Token -> Nat]
  BY <1>4 DEF Counted, IInv, TypeInv
<1>8. ASSUME NEW t \in Token PROVE signingOut'[t] = Cardinality(Carrying(t)')
  <2>1. signingOut[t] = Cardinality(Carrying(t)) /\ IsFiniteSet(Carrying(t)) /\ r \notin Carrying(t)
    BY <1>1, Counts DEF IInv, CountInv, Carrying, SignOuts
  <2>2. CASE t \in keys
    <3>1. Carrying(t)' = Carrying(t) \cup {r}
      BY <1>5, <1>6, <2>2, ForgetCounts DEF keys
    <3>2. Cardinality(Carrying(t) \cup {r}) = Cardinality(Carrying(t)) + 1
      BY <2>1, FS_AddElement
    <3>. QED
      BY <1>4, <2>1, <2>2, <3>1, <3>2 DEF Counted
  <2>3. CASE t \notin keys
    <3>1. Carrying(t)' = Carrying(t)
      BY <1>5, <2>1, <2>3, ForgetCounts DEF keys
    <3>. QED
      BY <1>4, <2>1, <2>3, <3>1 DEF Counted
  <2>. QED
    BY <2>2, <2>3
<1>9. CountInv'
  BY <1>8 DEF CountInv
<1>10. LateInv' /\ late' \subseteq Token /\ signedOut' \in Seq(Token)
  BY <1>4 DEF IInv, LateInv, TypeInv
<1>. QED
  BY <1>4, <1>5, <1>7, <1>9, <1>10, ForgetKeeps

\* A sign-out that ends, answered or given up on, keeps the invariant.
LEMMA SignOutOverKeeps ==
  ASSUME IInv, NEW r \in Request, NEW answered \in BOOLEAN, NEW within \in BOOLEAN, SignOutOver(r, answered, within)
  PROVE  IInv'
<1> DEFINE keys == Keys(request[r].cred)
           back == KeptBack(request[r], answered, within, request[r].verified \cup Found(keys))
           t0 == First(request[r].cred)
<1>1. r \in SignOuts /\ request[r].kind = "signOut" /\ request[r].at = "sent"
  BY DEF SignOutOver, SignOuts
<1>2. request[r].cred \in Cred
  BY <1>1 DEF IInv, CredInv
<1>3. t0 \in keys /\ keys \in SUBSET Token /\ IsFiniteSet(keys)
  BY <1>2, CredKeys
<1>4. /\ late' = IF answered \/ t0 \notin valid THEN late ELSE late \cup {t0}
      /\ request' = [Spoil(keys) EXCEPT ![r] = None]
      /\ owners' = ForgetTokenOwners(keys) /\ kept' = ForgetSessions(r, keys)
      /\ signingOut' = Released(keys)
      /\ KeepBack(request[r].cred, back)
      /\ UNCHANGED <<valid, missed, shutdown>>
  BY DEF SignOutOver
<1>5. Forgets(r, None)
  BY <1>1, <1>4 DEF Forgets
<1>6. back \subseteq keys /\ (~answered => back = keys)
  BY DEF KeptBack
<1>. HIDE DEF back, t0
<1>7. back \in SUBSET Token /\ IsFiniteSet(back)
  BY <1>3, <1>6, FS_Subset
<1>8. signedOut \in Seq(Token)
  BY DEF IInv, TypeInv
<1>9. /\ signedOut' \in Seq(Token) /\ dropped \subseteq dropped'
      /\ ToSet(signedOut') \subseteq ToSet(signedOut) \cup back
      /\ \A t \in ToSet(signedOut) \cup back : t \in ToSet(signedOut') \/ t \in dropped' \/ ~Pending(t, late')
  BY <1>4, <1>7, <1>8, KeepsBack
<1>. HIDE DEF keys
<1>10. ASSUME NEW t \in Token PROVE signingOut'[t] = Cardinality(Carrying(t)') /\ signingOut'[t] \in Nat
  <2>1. signingOut[t] = Cardinality(Carrying(t)) /\ IsFiniteSet(Carrying(t))
    BY Counts DEF IInv, CountInv
  <2>2. Carrying(t)' = Carrying(t) \ {r}
    BY <1>5, ForgetCounts
  <2>3. r \in Carrying(t) <=> t \in keys
    BY <1>1 DEF Carrying, keys
  <2>4. CASE t \in keys
    <3>1. Cardinality(Carrying(t) \ {r}) = Cardinality(Carrying(t)) - 1
      BY <2>1, <2>3, <2>4, FS_RemoveElement
    <3>2. Cardinality(Carrying(t) \ {r}) \in Nat
      BY <2>1, FS_Subset, FS_CardinalityType
    <3>. QED
      BY <1>4, <2>1, <2>2, <2>4, <3>1, <3>2 DEF Released
  <2>5. CASE t \notin keys
    <3>1. Carrying(t)' = Carrying(t)
      BY <2>2, <2>3, <2>5
    <3>. QED
      BY <1>4, <2>1, <2>5, <3>1 DEF Released, IInv, TypeInv
  <2>. QED
    BY <2>4, <2>5
<1>11. CountInv'
  BY <1>10 DEF CountInv
<1>12. signingOut' \in [Token -> Nat]
  BY <1>4, <1>10 DEF Released
<1>13. late' \subseteq Token
  BY <1>3, <1>4 DEF IInv, TypeInv
<1>14. LateInv'
  <2>1. ASSUME NEW t \in late' PROVE t \in ToSet(signedOut') \cup dropped'
    <3>1. Pending(t, late')
      BY DEF Pending
    <3>2. t \in ToSet(signedOut) \cup back \cup dropped
      BY <1>3, <1>4, <1>6 DEF IInv, LateInv
    <3>. QED
      BY <3>1, <3>2, <1>9
  <2>. QED
    BY <2>1, <1>4 DEF IInv, LateInv
<1>15. ToSet(signedOut') \subseteq ToSet(signedOut) \cup Keys(request[r].cred)
  BY <1>6, <1>9 DEF keys
<1>. QED
  BY <1>5, <1>9, <1>11, <1>12, <1>13, <1>14, <1>15, ForgetKeeps

-----------------------------------------------------------------------------
(* The theorems *)

\* The invariant holds at the start.
LEMMA InitHolds == Init => IInv
<1> SUFFICES ASSUME Init PROVE IInv
  OBVIOUS
<1>1. \A r \in Request : request[r] = None
  BY DEF Init
<1>2. SignOuts = {} /\ Sockets = {} /\ Verifying = {}
  BY <1>1 DEF SignOuts, Sockets, Verifying, None
<1>3. TypeInv
  BY NoneType DEF Init, TypeInv
<1>4. CredInv
  BY <1>1 DEF CredInv, None
<1>5. CountInv
  <2>1. \A t \in Token : Carrying(t) = {}
    BY <1>2 DEF Carrying
  <2>. QED
    BY <2>1, FS_EmptySet DEF Init, CountInv
<1>6. LateInv /\ KeptInv /\ SocketInv /\ AppInv
  BY <1>2 DEF Init, LateInv, KeptInv, SocketInv, AppInv, Confirmed
<1>7. OwnerInv
  BY RequestAssumption DEF Init, OwnerInv, Trusted
<1>. QED
  BY <1>3, <1>4, <1>5, <1>6, <1>7 DEF IInv

\* Every step keeps the invariant.
LEMMA NextKeeps == IInv /\ [Next]_vars => IInv'
<1> SUFFICES ASSUME IInv, [Next]_vars PROVE IInv'
  OBVIOUS
<1>1. ASSUME NEW r \in Request,
             \/ Reads(r) \/ OwnerTold(r) \/ OwnerFails(r) \/ Relayed(r) \/ AppTold(r) \/ AppFails(r)
             \/ Refused(r) \/ TooMany(r) \/ NotSent(r) \/ Revokes(r) \/ Send(r)
             \/ UpgradeTold(r) \/ SocketCloses(r)
      PROVE  IInv'
  BY <1>1, ReadsKeep, OwnerToldKeeps, OverKeeps, AppToldKeeps, TooManyKeeps, NotSentKeeps, RevokesKeeps,
     SendKeeps, UpgradeTurnsKeep, SocketClosesKeeps
<1>2. ASSUME NEW r \in Request, NEW answered \in BOOLEAN, NEW within \in BOOLEAN, SignOutOver(r, answered, within)
      PROVE  IInv'
  BY <1>2, SignOutOverKeeps
<1>3. ASSUME NEW r \in Request, NEW switched \in BOOLEAN, Upgraded(r, switched) PROVE IInv'
  BY <1>3, UpgradeTurnsKeep
<1>4. ASSUME NEW r \in Request, NEW h \in Household, NEW c \in Cred,
             AppAsks(r, h, c) \/ Relay(r, h, c) \/ SignOut(r, h, c)
      PROVE  IInv'
  BY <1>4, AppAsksKeeps, RelayKeeps, SignOutKeeps
<1>5. ASSUME NEW r \in Request, NEW h \in Household, NEW c \in Cred \cup {NoToken}, Upgrade(r, h, c) PROVE IInv'
  BY <1>5, UpgradeKeeps
<1>6. CASE \/ \E c \in Cred : OwnerExpires(c)
           \/ \E s \in kept : SessionExpires(s)
  BY <1>6, ExpiryKeeps
<1>7. CASE \/ \E t \in Token : RevokesLate(t) \/ NeverRevokes(t)
           \/ GraceOver \/ CloseWebSockets \/ WebSocketsClosed
  BY <1>7, RevokesLateKeeps, GraceOverKeeps, CloseKeeps, ClosedKeeps
<1>8. CASE UNCHANGED vars
  <2>1. request' = [x \in Request |-> request'[x]] /\ \A x \in Request : Closes(x)
    BY <1>8 DEF vars, Closes, IInv, TypeInv
  <2>2. SocketInv'
    BY <1>8 DEF vars, IInv, SocketInv, Sockets, Leaving
  <2>. QED
    BY <1>8, <2>1, <2>2, SocketsClose DEF vars, memory, jellyfin, IInv, TypeInv
<1>. QED
  BY <1>1, <1>2, <1>3, <1>4, <1>5, <1>6, <1>7, <1>8 DEF Next

\* What is kept back, spoiled and counted, in every reachable state.
THEOREM Invariant == Spec => []IInv
<1>. QED
  BY InitHolds, NextKeeps, PTL DEF Spec

\* No session the app trusts outlives its token at Jellyfin (#forget, #keepBack, #mayKeep), but for one
\* dropped to make room, and the sign-outs at Jellyfin are counted right: whatever the limits.
THEOREM RevokedNotTrustedAlways == Spec => []RevokedNotTrusted
<1>1. IInv => RevokedNotTrusted
  BY DEF IInv, KeptInv, CountInv, Carrying, RevokedNotTrusted
<1>. QED
  BY <1>1, Invariant, PTL

\* What the gateway remembers of a token's owner is what Jellyfin would say, but while a sign-out of it
\* is at Jellyfin or was given up on (#rememberTokenOwner, #forgetTokenOwners).
THEOREM OwnersFollowAlways == Spec => []OwnersFollow
<1>1. IInv => OwnersFollow
  BY DEF IInv, OwnerInv, Trusted, Excused, Carrying, OwnersFollow
<1>. QED
  BY <1>1, Invariant, PTL

\* After closeWebSockets no WebSocket is open, however the closing met checks and upgrades.
THEOREM SocketsStayClosedAlways == Spec => []SocketsStayClosed
<1>1. IInv => SocketsStayClosed
  BY DEF IInv, SocketInv, Leaving, SocketsStayClosed
<1>. QED
  BY <1>1, Invariant, PTL
=============================================================================
