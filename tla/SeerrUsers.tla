------------------------------- MODULE SeerrUsers -------------------------------
(***************************************************************************)
(* The Seerr users that act for Jellyfin users (src/src/seerr-users.ts) and *)
(* the calls made as them (SeerrMemberClient, src/src/seerr.ts): candidates *)
(* are looked up and remembered, every call has its candidate confirmed by  *)
(* Seerr before it is sent, and what JellyPass is told of a relink reaches  *)
(* the lookups and the calls under way.                                     *)
(***************************************************************************)
EXTENDS Naturals, FiniteSets

CONSTANTS Member, SeerrUser, Call,
          MemberOf,          \* whose call it is
          First,             \* Seerr's links at the start
          MaxEntries,        \* most members whose invalidation is remembered
          MaxRelinks, MaxInvalidations

Nobody == "nobody"
Unknown == "unknown"
Missing == "missing"        \* Seerr has no user for the member
NoLookup == "none"

ASSUME CallAssumption == MemberOf \in [Call -> Member] /\ MaxEntries \in Nat \ {0}
ASSUME LinkAssumption ==
  /\ First \in [SeerrUser -> Member \cup {Nobody}]
  /\ \A s, t \in SeerrUser : First[s] = First[t] /\ First[s] # Nobody => s = t
ASSUME NamesAssumption == NoLookup \notin Call /\ Nobody \notin Member /\ {Unknown, Missing} \cap SeerrUser = {}
ASSUME BoundsAssumption == {MaxRelinks, MaxInvalidations} \subseteq Nat

VARIABLES
  linked,    \* Seerr: whom each of its users is linked to
  relinks,
  cache,     \* #cache
  pending,   \* #pending: the call that began the lookup
  lookups,   \* those under way, by the call that began them
  stamps,    \* #versions; none is 0
  floor, counter,
  calls

users == <<cache, pending, lookups>>
versions == <<stamps, floor, counter>>
seerr == <<linked, relinks>>
vars == <<seerr, users, versions, calls>>

Candidate == SeerrUser \cup {Missing}

Lookup == [member : Member, at : {"none", "sent", "read"}, user : Candidate \cup {Unknown},
           stale : BOOLEAN]    \* (history) the member was invalidated since it was sent
UnderWay(c) == lookups[c].at # "none"

CallType == [at : {"idle", "refused", "trying", "waiting", "confirming", "heard", "ready", "sent"},
             requester : BOOLEAN,            \* confirmRequester: the request is sent later
             attempt : {1, 2},
             version : Nat,
             on : Call \cup {NoLookup},      \* the lookup it waits for
             user : SeerrUser \cup {Unknown},
             says : BOOLEAN,                 \* what Seerr answered the confirmation
             fresh : BOOLEAN,                \* (history) not invalidated since the attempt began
             steady : BOOLEAN,               \* (history) not relinked since the call began
             untold : BOOLEAN]               \* (history) nor its version changed

Ended(m) == [member |-> m, at |-> "none", user |-> Unknown, stale |-> FALSE]
Idle == [at |-> "idle", requester |-> FALSE, attempt |-> 1, version |-> 0, on |-> NoLookup, user |-> Unknown,
         says |-> FALSE, fresh |-> TRUE, steady |-> TRUE, untold |-> TRUE]
Refused == [Idle EXCEPT !.at = "refused"]

Max2(a, b) == IF a > b THEN a ELSE b
Version(m) == Max2(stamps[m], floor)
UserOf(m) == IF \E s \in SeerrUser : linked[s] = m THEN CHOOSE s \in SeerrUser : linked[s] = m ELSE Missing

Init ==
  /\ linked = First /\ relinks = 0
  /\ cache = [m \in Member |-> Unknown]
  /\ pending = [m \in Member |-> NoLookup]
  /\ lookups = [c \in Call |-> Ended(MemberOf[c])]
  /\ stamps = [m \in Member |-> 0] /\ floor = 0 /\ counter = 0
  /\ calls = [c \in Call |-> Idle]

-----------------------------------------------------------------------------
(* Seerr *)

\* Its administrator links a user to another member, or unlinks it.
Relink(s, m) ==
  /\ relinks < MaxRelinks
  /\ linked[s] # m
  /\ linked' = [t \in SeerrUser |-> IF t = s THEN m ELSE IF linked[t] = m THEN Nobody ELSE linked[t]]
  /\ relinks' = relinks + 1
  /\ calls' = [c \in Call |-> IF calls[c].at \notin {"idle", "refused"} /\ MemberOf[c] \in {m, linked[s]}
                              THEN [calls[c] EXCEPT !.steady = FALSE] ELSE calls[c]]
  /\ UNCHANGED <<users, versions>>

LookupRead(c) ==
  /\ lookups[c].at = "sent"
  /\ lookups' = [lookups EXCEPT ![c].at = "read", ![c].user = UserOf(lookups[c].member)]
  /\ UNCHANGED <<seerr, cache, pending, versions, calls>>

Confirms(c) ==
  /\ calls[c].at = "confirming"
  /\ calls' = [calls EXCEPT ![c].at = "heard", ![c].says = (linked[calls[c].user] = MemberOf[c])]
  /\ UNCHANGED <<seerr, users, versions>>

-----------------------------------------------------------------------------
(* The map *)

\* Forgotten by age, or as the least recently used.
Expires(m) ==
  /\ cache[m] # Unknown
  /\ cache' = [cache EXCEPT ![m] = Unknown]
  /\ UNCHANGED <<seerr, pending, lookups, versions, calls>>

\* Mutant: the candidate is kept.
ForgetNothing(m, s) == cache

\* A newer answer is kept.
Forget(m, s) == IF cache[m] = s THEN [cache EXCEPT ![m] = Unknown] ELSE cache

\* Mutant: a stamp that is forgotten is gone.
FloorKept(evicted) == floor

\* The stamps forgotten are folded into the floor.
FloorOver(evicted) == IF evicted = {} THEN floor ELSE Max2(floor, CHOOSE n \in evicted : \A k \in evicted : k <= n)

\* What the calls and the lookups under way know of it, in the history only.
Told(ms, version) ==
  /\ lookups' = [c \in Call |-> IF UnderWay(c) /\ lookups[c].member \in ms
                                THEN [lookups[c] EXCEPT !.stale = TRUE] ELSE lookups[c]]
  /\ calls' = [c \in Call |->
       IF calls[c].at \in {"idle", "refused", "sent"} THEN calls[c]
       ELSE [calls[c] EXCEPT !.fresh = @ /\ MemberOf[c] \notin ms,
                             !.untold = @ /\ version[MemberOf[c]] = Version(MemberOf[c])]]

\* The oldest stamp is forgotten once there are too many.
Invalidate(m) ==
  LET stamped == [stamps EXCEPT ![m] = counter + 1]
      kept    == {k \in Member : stamped[k] # 0}
      oldest  == CHOOSE k \in kept : \A j \in kept : stamped[k] <= stamped[j]
      out     == IF Cardinality(kept) > MaxEntries THEN {oldest} ELSE {}
  IN  /\ counter < MaxInvalidations
      /\ counter' = counter + 1
      /\ cache' = [cache EXCEPT ![m] = Unknown]
      /\ pending' = [pending EXCEPT ![m] = NoLookup]
      /\ stamps' = [k \in Member |-> IF k \in out THEN 0 ELSE stamped[k]]
      /\ floor' = FloorOver({stamped[k] : k \in out})
      /\ Told({m}, [k \in Member |-> Max2(stamps'[k], floor')])
      /\ UNCHANGED seerr

Clear ==
  /\ counter < MaxInvalidations
  /\ counter' = counter + 1 /\ floor' = counter + 1
  /\ cache' = [m \in Member |-> Unknown]
  /\ pending' = [m \in Member |-> NoLookup]
  /\ stamps' = [m \in Member |-> 0]
  /\ Told(Member, [k \in Member |-> floor'])
  /\ UNCHANGED seerr

\* Only the lookup still registered may fill the cache.
Registered(c) == pending[lookups[c].member] = c

Waiting(c) == {d \in Call : calls[d].at = "waiting" /\ calls[d].on = c}

LookupAnswered(c) ==
  /\ lookups[c].at = "read"
  /\ LET m == lookups[c].member
         s == lookups[c].user
     IN  /\ cache' = IF Registered(c) THEN [cache EXCEPT ![m] = s] ELSE cache
         /\ pending' = IF pending[m] = c THEN [pending EXCEPT ![m] = NoLookup] ELSE pending
         /\ calls' = [d \in Call |->
              IF d \notin Waiting(c) THEN calls[d]
              ELSE IF s = Missing THEN Refused
              ELSE [calls[d] EXCEPT !.at = "confirming", !.on = NoLookup, !.user = s]]
  /\ lookups' = [lookups EXCEPT ![c] = Ended(MemberOf[c])]
  /\ UNCHANGED <<seerr, versions>>

\* Not remembered; whoever waits for it fails.
LookupFails(c) ==
  /\ UnderWay(c)
  /\ LET m == lookups[c].member
     IN  pending' = IF pending[m] = c THEN [pending EXCEPT ![m] = NoLookup] ELSE pending
  /\ calls' = [d \in Call |-> IF d \in Waiting(c) THEN Idle ELSE calls[d]]
  /\ lookups' = [lookups EXCEPT ![c] = Ended(MemberOf[c])]
  /\ UNCHANGED <<seerr, cache, versions>>

-----------------------------------------------------------------------------
(* A member's call *)

Begin(c, requester) ==
  /\ calls[c].at \in {"idle", "refused"}
  /\ calls' = [calls EXCEPT ![c] = [Idle EXCEPT !.at = "trying", !.requester = requester]]
  /\ UNCHANGED <<seerr, users, versions>>

Trying(c) == [calls[c] EXCEPT !.version = Version(MemberOf[c]), !.fresh = TRUE]

\* A candidate that is remembered.
TriesCached(c) ==
  LET s == cache[MemberOf[c]]
  IN  /\ calls[c].at = "trying"
      /\ s # Unknown
      /\ calls' = [calls EXCEPT ![c] = IF s = Missing THEN Refused ELSE [Trying(c) EXCEPT !.at = "confirming", !.user = s]]
      /\ UNCHANGED <<seerr, users, versions>>

JoinsLookup(c) ==
  LET m == MemberOf[c]
  IN  /\ calls[c].at = "trying"
      /\ cache[m] = Unknown /\ pending[m] # NoLookup
      /\ calls' = [calls EXCEPT ![c] = [Trying(c) EXCEPT !.at = "waiting", !.on = pending[m]]]
      /\ UNCHANGED <<seerr, users, versions>>

StartsLookup(c) ==
  LET m == MemberOf[c]
  IN  /\ calls[c].at = "trying"
      /\ cache[m] = Unknown /\ pending[m] = NoLookup
      /\ lookups' = [lookups EXCEPT ![c] = [member |-> m, at |-> "sent", user |-> Unknown, stale |-> FALSE]]
      /\ pending' = [pending EXCEPT ![m] = c]
      /\ calls' = [calls EXCEPT ![c] = [Trying(c) EXCEPT !.at = "waiting", !.on = c]]
      /\ UNCHANGED <<seerr, cache, versions>>

\* A stale candidate is replaced once.
Again(c) == IF calls[c].attempt = 2 THEN Refused ELSE [calls[c] EXCEPT !.at = "trying", !.attempt = 2, !.user = Unknown, !.says = FALSE]

Mismatch(c) ==
  /\ calls[c].at = "heard" /\ ~calls[c].says
  /\ cache' = Forget(MemberOf[c], calls[c].user)
  /\ calls' = [calls EXCEPT ![c] = Again(c)]
  /\ UNCHANGED <<seerr, pending, lookups, versions>>

SameVersion(c) == calls[c].version = Version(MemberOf[c])

Invalidated(c) ==
  /\ calls[c].at = "heard" /\ calls[c].says
  /\ ~SameVersion(c)
  /\ calls' = [calls EXCEPT ![c] = Again(c)]
  /\ UNCHANGED <<seerr, users, versions>>

\* Sent at once, or kept for the last step of "Get this".
Confirmed(c) ==
  /\ calls[c].at = "heard" /\ calls[c].says
  /\ SameVersion(c)
  /\ calls' = [calls EXCEPT ![c].at = IF calls[c].requester THEN "ready" ELSE "sent"]
  /\ UNCHANGED <<seerr, users, versions>>

SendKept(c) ==
  /\ calls[c].at = "ready"
  /\ calls' = [calls EXCEPT ![c] = IF SameVersion(c) THEN [calls[c] EXCEPT !.at = "sent"] ELSE Refused]
  /\ UNCHANGED <<seerr, users, versions>>

\* Answered, refused as the user it was made as, or failed.
Ends(c) ==
  /\ calls[c].at = "sent"
  /\ cache' \in {cache, Forget(MemberOf[c], calls[c].user)}
  /\ calls' = [calls EXCEPT ![c] = Idle]
  /\ UNCHANGED <<seerr, pending, lookups, versions>>

\* Seerr cannot be asked, or "Get this" gives up.
Fails(c) ==
  /\ calls[c].at \in {"confirming", "ready"}
  /\ calls' = [calls EXCEPT ![c] = Idle]
  /\ UNCHANGED <<seerr, users, versions>>

Next ==
  \/ \E s \in SeerrUser, m \in Member \cup {Nobody} : Relink(s, m)
  \/ \E m \in Member : Expires(m) \/ Invalidate(m)
  \/ Clear
  \/ \E c \in Call :
       \/ \E requester \in BOOLEAN : Begin(c, requester)
       \/ TriesCached(c) \/ JoinsLookup(c) \/ StartsLookup(c)
       \/ LookupRead(c) \/ LookupAnswered(c) \/ LookupFails(c)
       \/ Confirms(c) \/ Mismatch(c) \/ Invalidated(c) \/ Confirmed(c) \/ SendKept(c) \/ Ends(c) \/ Fails(c)

Spec == Init /\ [][Next]_vars

-----------------------------------------------------------------------------
(* Properties *)

TypeOK ==
  /\ linked \in [SeerrUser -> Member \cup {Nobody}]
  /\ cache \in [Member -> Candidate \cup {Unknown}]
  /\ pending \in [Member -> Call \cup {NoLookup}]
  /\ lookups \in [Call -> Lookup]
  /\ stamps \in [Member -> 0..counter] /\ floor \in 0..counter
  /\ calls \in [Call -> CallType]

\* A lookup that calls join, or wait for, is under way: nobody waits for an answer that came already.
WaitsForAnAnswer ==
  /\ \A m \in Member : pending[m] # NoLookup => UnderWay(pending[m]) /\ lookups[pending[m]].member = m
  /\ \A c \in Call : calls[c].at = "waiting" => UnderWay(calls[c].on) /\ lookups[calls[c].on].member = MemberOf[c]

\* A lookup from before an invalidation fills no cache and is joined by no later call, and no call is sent whose
\* confirmation began before one, however stamps are forgotten ("those can no longer fill the cache, and later
\* callers start a new lookup"; "a version read before an invalidation can never be read again after it").
Sends(c) == calls[c].at # "sent" /\ calls'[c].at = "sent"
Fills(c) == UnderWay(c) /\ ~UnderWay(c)' /\ cache'[lookups[c].member] # cache[lookups[c].member]
Joins(c) == calls[c].at = "trying" /\ calls'[c].at = "waiting"
StaleNeverUsed ==
  [][\A c \in Call : /\ Sends(c) => calls[c].fresh
                     /\ Fills(c) => ~lookups[c].stale
                     /\ Joins(c) => ~lookups'[calls'[c].on].stale]_vars

\* What is under way is awaited, and what an invalidation made stale is not used.
LookupsFollow == [](TypeOK /\ WaitsForAnAnswer) /\ StaleNeverUsed

\* A call is refused for want of a Seerr user only if the member was relinked or invalidated while it was made,
\* or Seerr was found to have nobody for them: whatever went stale before it costs one more lookup, never the call.
RefusedForCause ==
  [][\A c \in Call : calls[c] # Refused /\ calls'[c] = Refused =>
       \/ ~calls[c].steady \/ ~calls[c].untold
       \/ cache[MemberOf[c]] = Missing
       \/ calls[c].at = "waiting" /\ lookups[calls[c].on].user = Missing]_vars
================================================================================
