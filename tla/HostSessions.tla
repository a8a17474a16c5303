------------------------------ MODULE HostSessions ------------------------------
(***************************************************************************)
(* A household host's memory of Jellyfin tokens, and what uses it: the     *)
(* app API's verified sessions (src/src/app-api.ts), the gateway's cache   *)
(* of whom a token belongs to, sign-outs and WebSocket upgrades            *)
(* (src/src/household-gateway.ts).                                         *)
(*                                                                         *)
(* A credential is the sequence of tokens a request carries; Jellyfin      *)
(* reads the first.  Each asks Jellyfin GET /Users/Me, which reads the     *)
(* token at one moment and is heard at a later one.  A sign-out may be     *)
(* revoked before or after its answer, or after JellyPass stopped waiting. *)
(*                                                                         *)
(* Time: an entry may expire at any moment; the grace after a sign-out     *)
(* ends only once Jellyfin has done what it still had to do.  Revocations  *)
(* that go round the household hosts are left out.                         *)
(***************************************************************************)
EXTENDS Naturals, Sequences, FiniteSets, SequencesExt

CONSTANTS Request,           \* the requests there may be at once
          Token, Cred,       \* Jellyfin's tokens, and the credentials they make
          User, OwnerOf,     \* whose each token is
          Household, Members,
          MaxSignOuts,       \* signOutLimits.inFlight
          MaxSignOutsHere,   \* signOutLimits.inFlightPerHousehold
          MaxTracked,        \* signOutLimits.tracked
          MaxRevoked         \* bound: the tokens Jellyfin ever revokes

ASSUME RequestAssumption ==
  IsFiniteSet(Request) /\ Request \cap {"none", "ok", "refused", "failed"} = {}
ASSUME CredAssumption == Cred \subseteq Seq(Token) \ {<<>>}
ASSUME OwnerAssumption == OwnerOf \in [Token -> User] /\ Members \in [Household -> SUBSET User]
ASSUME SignOutLimitsAssumption == {MaxSignOuts, MaxSignOutsHere, MaxTracked, MaxRevoked} \subseteq Nat

VARIABLES
  valid,      \* Jellyfin: the tokens it accepts
  late,       \* Jellyfin: tokens of unanswered sign-outs it may still revoke
  kept,       \* the partitions' sessions: [home, cred]
  owners,     \* #tokenOwners, per credential: nothing, an answer, or the request that asks
  request,    \* the requests under way, each with its entry in #verifying, #ownerLookups or #webSockets
  signingOut, \* #signingOut: how many sign-outs at Jellyfin carry each token
  signedOut,  \* #signedOut: the tokens kept back, oldest first
  closing,    \* #closing, and whether closeWebSockets has resolved
  awaited,    \* the sockets closeWebSockets waits for
  missed,     \* history: tokens revoked after JellyPass stopped waiting
  dropped     \* history: tokens dropped from signedOut before their grace was over

vars == <<valid, late, kept, owners, request, signingOut, signedOut, closing, awaited, missed, dropped>>
memory == <<kept, owners, signingOut, signedOut, dropped>>
jellyfin == <<valid, late, missed>>
shutdown == <<closing, awaited>>

-----------------------------------------------------------------------------
(* Data *)

NoToken == <<>>  \* a request that carries no token

None == [kind |-> "none", at |-> "none", home |-> "none", cred |-> NoToken, asks |-> "none",
         read |-> "none", spoiled |-> FALSE, lookupSpoiled |-> FALSE, gone |-> FALSE,
         verified |-> {}]

Keys(c) == ToSet(c)
First(c) == c[1]
IsMember(h, c) == OwnerOf[First(c)] \in Members[h]

Sockets == {r \in Request : request[r].kind = "socket"}
SignOuts == {r \in Request : request[r].kind = "signOut" /\ request[r].at = "sent"}
Verifying == {r \in Request : request[r].kind = "app" /\ request[r].at = "asked"}
Carries(r, keys) == Keys(request[r].cred) \cap keys # {}

Init ==
  /\ valid = Token /\ late = {}
  /\ kept = {}
  /\ owners = [c \in Cred |-> "none"]
  /\ request = [r \in Request |-> None]
  /\ signingOut = [t \in Token |-> 0]
  /\ signedOut = <<>>
  /\ closing = "no" /\ awaited = {}
  /\ missed = {} /\ dropped = {}

-----------------------------------------------------------------------------
(* Whose a token is: #tokenIsMember, #rememberTokenOwner, #forgetTokenOwners *)

Arrives(r, kind, h, c) == [None EXCEPT !.kind = kind, !.home = h, !.cred = c]

\* A known owner answers at once, an asked one is shared, and any other is asked now.
AskOwner(r, q) ==
  LET c == q.cred
      state == owners[c]
  IN \/ /\ state \in {"ok", "refused"}
        /\ request' = [request EXCEPT ![r] = [q EXCEPT !.at = "told", !.read = state]]
        /\ UNCHANGED owners
     \/ /\ state \in Request
        /\ request' = [request EXCEPT ![r] = [q EXCEPT !.at = "asked", !.asks = state]]
        /\ UNCHANGED owners
     \/ /\ state = "none"
        /\ request' = [request EXCEPT ![r] = [q EXCEPT !.at = "asked", !.asks = r]]
        /\ owners' = [owners EXCEPT ![c] = r]

ForgetTokenOwners(keys) == [c \in Cred |-> IF Keys(c) \cap keys # {} THEN "none" ELSE owners[c]]

\* Jellyfin reads the token it was sent, for whoever waits on that question.
Reads(r) ==
  /\ request[r].at = "asked" /\ request[r].asks = r /\ request[r].read = "none"
  /\ request' = [request EXCEPT ![r].read = IF First(request[r].cred) \in valid THEN "ok" ELSE "refused"]
  /\ UNCHANGED <<valid, late, memory, shutdown, missed>>

Waiting(r) == {q \in Request : request[q].at = "asked" /\ request[q].asks = r}
Tell(r, answer) ==
  request' = [q \in Request |-> IF q \notin Waiting(r) THEN request[q]
                                ELSE IF request[q].gone THEN None
                                ELSE [request[q] EXCEPT !.at = "told", !.read = answer, !.asks = "none"]]

OwnerTold(r) ==
  /\ request[r].kind # "app" /\ request[r].at = "asked" /\ request[r].read # "none"
  /\ owners' = [c \in Cred |-> IF owners[c] = r THEN request[r].read ELSE owners[c]]
  /\ Tell(r, request[r].read)
  /\ UNCHANGED <<jellyfin, kept, signingOut, signedOut, dropped, shutdown>>

\* Jellyfin cannot be reached, or fails: that is not kept.
OwnerFails(r) ==
  /\ request[r].kind # "app" /\ request[r].at = "asked" /\ request[r].asks = r
  /\ owners' = [c \in Cred |-> IF owners[c] = r THEN "none" ELSE owners[c]]
  /\ Tell(r, "failed")
  /\ UNCHANGED <<jellyfin, kept, signingOut, signedOut, dropped, shutdown>>

\* A checked route that is relayed: nothing is kept of it but the answer.
Relay(r, h, c) ==
  /\ request[r] = None
  /\ AskOwner(r, Arrives(r, "relay", h, c))
  /\ UNCHANGED <<jellyfin, kept, signingOut, signedOut, dropped, shutdown>>

Relayed(r) ==
  /\ request[r].kind = "relay" /\ request[r].at = "told"
  /\ request' = [request EXCEPT ![r] = None]
  /\ UNCHANGED <<jellyfin, memory, shutdown>>

OwnerExpires(c) ==
  /\ owners[c] # "none"
  /\ owners' = [owners EXCEPT ![c] = "none"]
  /\ UNCHANGED <<jellyfin, kept, request, signingOut, signedOut, dropped, shutdown>>

-----------------------------------------------------------------------------
(* The app API: #caller *)

Session(h, c) == [home |-> h, cred |-> c]

\* A call whose session is kept asks nothing and changes nothing.
AppAsks(r, h, c) ==
  /\ request[r] = None /\ Session(h, c) \notin kept
  /\ request' = [request EXCEPT ![r] = [Arrives(r, "app", h, c) EXCEPT !.at = "asked", !.asks = r]]
  /\ UNCHANGED <<jellyfin, memory, shutdown>>

MayKeep(keys) == \A t \in keys : signingOut[t] = 0 /\ t \notin ToSet(signedOut)

\* Mutant: what a sign-out spoiled meanwhile is kept once nothing keeps its token back.
KeepsSpoiled(q) == q.read = "ok" /\ MayKeep(Keys(q.cred)) /\ IsMember(q.home, q.cred)

Keeps(q) == q.read = "ok" /\ ~q.spoiled /\ MayKeep(Keys(q.cred)) /\ IsMember(q.home, q.cred)

\* Mutant: an owner found before a sign-out is remembered after it.
RemembersSpoiled(q) == TRUE

Remembers(q) == ~q.lookupSpoiled

AppTold(r) ==
  LET q == request[r] IN
  /\ q.kind = "app" /\ q.at = "asked" /\ q.read # "none"
  /\ owners' = IF Remembers(q) THEN [owners EXCEPT ![q.cred] = q.read] ELSE owners
  /\ kept' = IF Keeps(q) THEN kept \cup {Session(q.home, q.cred)} ELSE kept
  /\ request' = [request EXCEPT ![r] = None]
  /\ UNCHANGED <<jellyfin, signingOut, signedOut, dropped, shutdown>>

AppFails(r) ==
  /\ request[r].kind = "app" /\ request[r].at = "asked"
  /\ request' = [request EXCEPT ![r] = None]
  /\ UNCHANGED <<jellyfin, memory, shutdown>>

SessionExpires(s) ==
  /\ kept' = kept \ {s}
  /\ UNCHANGED <<jellyfin, owners, request, signingOut, signedOut, dropped, shutdown>>

-----------------------------------------------------------------------------
(* Signing out: #proxySignOut, signingOut, #forget, #keepBack *)

SignOut(r, h, c) ==
  /\ request[r] = None
  /\ AskOwner(r, Arrives(r, "signOut", h, c))
  /\ UNCHANGED <<jellyfin, kept, signingOut, signedOut, dropped, shutdown>>

ForgetSessions(r, keys) == {s \in kept : Keys(s.cred) \cap keys = {}}

\* The tokens #forget found: verified, or being verified.
Found(keys) ==
  keys \cap UNION ({Keys(s.cred) : s \in kept} \cup {Keys(request[v].cred) : v \in Verifying})

Spoil(keys) ==
  [v \in Request |-> IF v \in Verifying /\ Carries(v, keys)
                     THEN [request[v] EXCEPT !.spoiled = TRUE, !.lookupSpoiled = TRUE]
                     ELSE request[v]]

Released(keys) == [t \in Token |-> IF t \in keys THEN signingOut[t] - 1 ELSE signingOut[t]]

Counted(keys) == [t \in Token |-> IF t \in keys THEN signingOut[t] + 1 ELSE signingOut[t]]

\* Jellyfin may still revoke the token, or what it said of it before is still to be heard.
Pending(t, revocable) ==
  \/ t \in revocable
  \/ t \in missed /\ \E v \in Verifying : First(request[v].cred) = t /\ request[v].read = "ok"

Before(s, t, u) == \E i, j \in DOMAIN s : i < j /\ s[i] = t /\ s[j] = u

\* A token kept back again goes last; the oldest are dropped to make room.
KeepBack(c, keys) ==
  LET held == ToSet(signedOut) \cup keys
      over == IF Cardinality(held) > MaxTracked THEN Cardinality(held) - MaxTracked ELSE 0
  IN \E all \in SetToSeqs(held) :
       /\ \A i, j \in DOMAIN all : i < j =>
            \/ all[i] \notin keys /\ all[j] \in keys
            \/ {all[i], all[j]} \subseteq keys /\ Before(c, all[i], all[j])
            \/ {all[i], all[j]} \cap keys = {} /\ Before(signedOut, all[i], all[j])
       /\ signedOut' = SubSeq(all, over + 1, Len(all))
       /\ dropped' = dropped \cup {t \in ToSet(SubSeq(all, 1, over)) : Pending(t, late')}

Room(h) ==
  /\ Cardinality(SignOuts) < MaxSignOuts
  /\ Cardinality({r \in SignOuts : request[r].home = h}) < MaxSignOutsHere

SignsOutMember(q) == q.read = "ok" /\ IsMember(q.home, q.cred)

Refused(r) ==
  /\ request[r].kind = "signOut" /\ request[r].at = "told" /\ request[r].read # "failed"
  /\ ~SignsOutMember(request[r])
  /\ request' = [request EXCEPT ![r] = None]
  /\ UNCHANGED <<jellyfin, memory, shutdown>>

\* Forgotten all the same, and not sent: too many are at Jellyfin already.
TooMany(r) ==
  LET q == request[r]
      keys == Keys(q.cred)
  IN /\ q.kind = "signOut" /\ q.at = "told"
     /\ q.read = "failed" \/ SignsOutMember(q)
     /\ ~Room(q.home)
     /\ owners' = ForgetTokenOwners(keys)
     /\ kept' = ForgetSessions(r, keys)
     /\ request' = [Spoil(keys) EXCEPT ![r] = None]
     /\ UNCHANGED <<jellyfin, signingOut, signedOut, dropped, shutdown>>

Send(r) ==
  LET q == request[r]
      keys == Keys(q.cred)
  IN /\ q.kind = "signOut" /\ q.at = "told" /\ SignsOutMember(q) /\ Room(q.home)
     /\ owners' = ForgetTokenOwners(keys)
     /\ kept' = ForgetSessions(r, keys)
     /\ signingOut' = Counted(keys)
     /\ request' = [Spoil(keys) EXCEPT ![r] = [q EXCEPT !.at = "sent", !.verified = Found(keys)]]
     /\ UNCHANGED <<jellyfin, signedOut, dropped, shutdown>>

\* Jellyfin cannot say whose the token is: forgotten and kept back, not sent.
NotSent(r) ==
  LET q == request[r]
      keys == Keys(q.cred)
  IN /\ q.kind = "signOut" /\ q.at = "told" /\ q.read = "failed" /\ Room(q.home)
     /\ owners' = ForgetTokenOwners(keys)
     /\ kept' = ForgetSessions(r, keys)
     /\ request' = [Spoil(keys) EXCEPT ![r] = None]
     /\ UNCHANGED jellyfin
     /\ KeepBack(q.cred, keys)
     /\ UNCHANGED <<signingOut, shutdown>>

\* Jellyfin ends the session of the token it reads first, any time before its answer.
Revokes(r) ==
  LET t == First(request[r].cred) IN
  /\ r \in SignOuts
  /\ Cardinality(Token \ valid) < MaxRevoked
  /\ t \in valid
  /\ valid' = valid \ {t}
  /\ UNCHANGED <<late, memory, request, shutdown, missed>>

RevokesLate(t) ==
  /\ t \in late /\ t \in valid
  /\ Cardinality(Token \ valid) < MaxRevoked
  /\ valid' = valid \ {t}
  /\ late' = late \ {t}
  /\ missed' = missed \cup {t}
  /\ UNCHANGED <<memory, request, shutdown>>

NeverRevokes(t) ==
  /\ t \in late
  /\ late' = late \ {t}
  /\ UNCHANGED <<valid, missed, memory, request, shutdown>>

KeptBack(q, answered, within, found) ==
  IF ~answered \/ within THEN Keys(q.cred) ELSE Keys(q.cred) \cap found

\* within: the client and the household had not used up their answered sign-outs when it began.
SignOutOver(r, answered, within) ==
  LET q == request[r]
      keys == Keys(q.cred)
  IN /\ r \in SignOuts
     /\ late' = IF answered \/ First(q.cred) \notin valid THEN late ELSE late \cup {First(q.cred)}
     /\ kept' = ForgetSessions(r, keys)
     /\ signingOut' = Released(keys)
     /\ KeepBack(q.cred, KeptBack(q, answered, within, q.verified \cup Found(keys)))
     /\ owners' = ForgetTokenOwners(keys)
     /\ request' = [Spoil(keys) EXCEPT ![r] = None]
     /\ UNCHANGED <<valid, missed, shutdown>>

\* The grace is long enough for what an unanswered sign-out may still do at Jellyfin, and for a
\* verification that read the token before that to be heard.
GraceOver ==
  /\ signedOut # <<>> /\ ~Pending(Head(signedOut), late)
  /\ signedOut' = Tail(signedOut)
  /\ UNCHANGED <<jellyfin, kept, owners, request, signingOut, dropped, shutdown>>

-----------------------------------------------------------------------------
(* WebSockets: handleUpgrade, #relayUpgrade, closeWebSockets *)

\* Refused while closing; without a token it is not checked.
Upgrade(r, h, c) ==
  LET q == Arrives(r, "socket", h, c) IN
  /\ request[r] = None /\ closing = "no"
  /\ \/ /\ c = NoToken
        /\ request' = [request EXCEPT ![r] = [q EXCEPT !.at = "upgrading"]]
        /\ UNCHANGED owners
     \/ c # NoToken /\ AskOwner(r, q)
  /\ UNCHANGED <<jellyfin, kept, signingOut, signedOut, dropped, shutdown>>

UpgradeTold(r) ==
  LET q == request[r] IN
  /\ q.kind = "socket" /\ q.at = "told"
  /\ request' = [request EXCEPT ![r] = IF closing = "no" /\ q.read = "ok" /\ IsMember(q.home, q.cred)
                                       THEN [q EXCEPT !.at = "upgrading"] ELSE None]
  /\ UNCHANGED <<jellyfin, memory, shutdown>>

\* Mutant: Jellyfin's answer is relayed whoever is still there.
OpensAnyway(r) == TRUE

Opens(r) == ~request[r].gone /\ closing = "no"

\* Jellyfin switches protocols, or answers otherwise.
Upgraded(r, switched) ==
  LET q == request[r] IN
  /\ q.kind = "socket" /\ q.at = "upgrading"
  /\ request' = [request EXCEPT ![r] = IF switched /\ Opens(r) THEN [q EXCEPT !.at = "open", !.gone = FALSE] ELSE None]
  /\ UNCHANGED <<jellyfin, memory, shutdown>>

\* Destroyed at once; a question to Jellyfin, and an upgrade on its way, end on their own.
Destroyed(q) == IF q.at \in {"asked", "upgrading"} THEN [q EXCEPT !.gone = TRUE] ELSE None

\* A client leaves, a peer goes quiet or resets, or the grace after FIN is over.
SocketCloses(r) ==
  /\ r \in Sockets /\ ~request[r].gone
  /\ request' = [request EXCEPT ![r] = Destroyed(request[r])]
  /\ awaited' = awaited \ {r}
  /\ UNCHANGED <<jellyfin, memory, closing>>

\* An open relay is ended both ways and lingers; every other is destroyed.
CloseWebSockets ==
  /\ closing = "no"
  /\ closing' = "closing"
  /\ awaited' = {r \in Sockets : request[r].at = "open"}
  /\ request' = [r \in Request |-> IF r \notin Sockets THEN request[r]
                                   ELSE IF request[r].at = "open" THEN [request[r] EXCEPT !.at = "ending"]
                                   ELSE Destroyed(request[r])]
  /\ UNCHANGED <<jellyfin, memory>>

WebSocketsClosed ==
  /\ closing = "closing" /\ awaited = {}
  /\ closing' = "closed"
  /\ UNCHANGED <<jellyfin, memory, request, awaited>>

-----------------------------------------------------------------------------
Next ==
  \/ \E r \in Request :
       \/ Reads(r) \/ OwnerTold(r) \/ OwnerFails(r) \/ Relayed(r)
       \/ AppTold(r) \/ AppFails(r)
       \/ Refused(r) \/ TooMany(r) \/ NotSent(r) \/ Revokes(r)
       \/ Send(r)
       \/ \E answered, within \in BOOLEAN : SignOutOver(r, answered, within)
       \/ \E switched \in BOOLEAN : Upgraded(r, switched)
       \/ UpgradeTold(r) \/ SocketCloses(r)
       \/ \E h \in Household, c \in Cred : AppAsks(r, h, c) \/ Relay(r, h, c) \/ SignOut(r, h, c)
       \/ \E h \in Household, c \in Cred \cup {NoToken} : Upgrade(r, h, c)
  \/ \E c \in Cred : OwnerExpires(c)
  \/ \E s \in kept : SessionExpires(s)
  \/ \E t \in Token : RevokesLate(t) \/ NeverRevokes(t)
  \/ GraceOver
  \/ CloseWebSockets \/ WebSocketsClosed

Spec == Init /\ [][Next]_vars

-----------------------------------------------------------------------------
(* Correctness *)

\* A session the app trusts is one Jellyfin still accepts: a sign-out through any household's host
\* ends its sessions in every household, whatever was being verified meanwhile, answered or not.
\* The exception is the one #keepBack names: a token dropped to make room while Jellyfin might still
\* revoke it, or what it said before was still to be heard.  And sign-outs at Jellyfin are counted,
\* so none ends another's.
RevokedNotTrusted ==
  /\ \A s \in kept : First(s.cred) \in valid \cup dropped
  /\ \A t \in Token : signingOut[t] = Cardinality({r \in SignOuts : t \in Keys(request[r].cred)})

\* What the gateway remembers of a token's owner never outlives the token, but while its sign-out is
\* at Jellyfin and for one Jellyfin revokes after JellyPass stopped waiting for it.
OwnersFollow ==
  \A c \in Cred : owners[c] = "ok" /\ First(c) \notin valid =>
    \/ First(c) \in missed
    \/ \E r \in SignOuts : First(c) \in Keys(request[r].cred)

\* Once the WebSockets are closed none is open and none opens, those still being checked or upgraded
\* when it began included.
SocketsStayClosed ==
  closing = "closed" => \A r \in Sockets : request[r].gone
================================================================================
