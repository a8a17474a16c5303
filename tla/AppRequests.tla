------------------------------ MODULE AppRequests ------------------------------
(***************************************************************************)
(* What the state file keeps for "Get this" (src/src/types.ts) for one     *)
(* movie, and the operations on it that decide who a request's grant       *)
(* serves: the write that ends a call, the rule a request is granted by,   *)
(* the join of a household and the settling of the records that follow a   *)
(* request.  Every operator takes the state `m` it works on and returns    *)
(* the next one.                                                           *)
(*                                                                         *)
(* A request is its Seerr ID.  Seerr's clock is kept as order: the `old`   *)
(* of an intent (and of a tombstone's `since`) are the requests made too   *)
(* long before it to be its own.                                           *)
(***************************************************************************)
EXTENDS Naturals, FiniteSets

CONSTANTS Member, Household,
          Homes,        \* the households of each member
          NoMember

ASSUME HomesAssumption == Homes \in [Member -> SUBSET Household]
ASSUME NoMemberAssumption == NoMember \notin Member

NoRequest == 0

Intent == [call : Nat, user : Member, home : Household, epoch : Nat, old : SUBSET Nat,
           status : {"submitting", "settling"}, req : Nat]
Record == [home : Household, user : Member, branch : {"request", "interest", "join"},
           status : {"pending", "completed", "declined"}, req : Nat,
           rule : BOOLEAN,       \* joinOnGrant: its grant follows the join rules
           awaiting : BOOLEAN,   \* awaitingGrant
           detached : BOOLEAN]
Tombstone == [reqs : SUBSET Nat, user : Member \cup {NoMember}, old : SUBSET Nat, exempt : SUBSET Nat]

\* The state, as far as one title's requests go.  `granted` are the requests its grant records (none: the title
\* is public) and `groups` the households on that grant.
State == [intents : SUBSET Intent, records : SUBSET Record, tombs : SUBSET Tombstone,
          deferred : SUBSET Nat, handled : SUBSET Nat, granted : SUBSET Nat,
          groups : SUBSET Household, epoch : [Household -> Nat]]

NewState == [intents |-> {}, records |-> {}, tombs |-> {}, deferred |-> {}, handled |-> {}, granted |-> {},
             groups |-> {}, epoch |-> [h \in Household |-> 1]]

\* What a call, or the recovery of its intent, writes at its end.
Outcome == [add : SUBSET Record, remove : SUBSET Nat, settle : SUBSET (Nat \X Nat), tombs : SUBSET Tombstone,
            exempt : SUBSET (Member \X Nat)]
NoOutcome == [add |-> {}, remove |-> {}, settle |-> {}, tombs |-> {}, exempt |-> {}]

-----------------------------------------------------------------------------
(* Writing records *)

Attributed(m, epoch, rec) == [rec EXCEPT !.detached = m.epoch[rec.home] # epoch]

Exempted(t, exempt) ==
  [t EXCEPT !.exempt = @ \cup {e[2] : e \in {x \in exempt : t.user = x[1] /\ x[2] \notin t.reqs}}]

Settling(i, settle) ==
  IF \E s \in settle : s[1] = i.call
  THEN [i EXCEPT !.status = "settling", !.req = (CHOOSE s \in settle : s[1] = i.call)[2]]
  ELSE i

Written(m, epoch, out) ==
  [m EXCEPT !.records = @ \cup {Attributed(m, epoch, rec) : rec \in out.add},
            !.tombs   = {Exempted(t, out.exempt) : t \in @ \cup out.tombs},
            !.intents = {Settling(i, out.settle) : i \in {j \in @ : j.call \notin out.remove}}]

-----------------------------------------------------------------------------
(* The join rules, and the records that follow a request *)

Joined(m, homes) == IF m.granted = {} THEN m ELSE [m EXCEPT !.groups = @ \cup homes]

Follows(rec, r) ==
  /\ ~rec.detached
  /\ rec.status = "pending"
  /\ rec.branch # "join"
  /\ rec.req = r \/ rec.awaiting \/ rec.branch = "interest"

MadeByItsRequest(rec) == rec.branch = "request" /\ ~rec.rule

\* Mutant: completed against a public title.
AfterJoinAtOnce(m, rec) == [rec EXCEPT !.status = "completed", !.awaiting = FALSE]

AfterJoin(m, rec) ==
  IF m.granted = {} THEN [rec EXCEPT !.awaiting = TRUE]
  ELSE [rec EXCEPT !.status = "completed", !.awaiting = FALSE]

RecordsSettled(m, r) ==
  LET following == {rec \in m.records : Follows(rec, r)}
      ready     == {rec \in following : MadeByItsRequest(rec)}
      joining   == following \ ready
      updated   == {[rec EXCEPT !.status = "completed"] : rec \in ready}
                     \cup {AfterJoin(m, rec) : rec \in joining}
  IN  [Joined(m, {rec.home : rec \in joining}) EXCEPT !.records = (@ \ following) \cup updated]

-----------------------------------------------------------------------------
(* How a request may be granted *)

GrantsAsJoin(m, r) == \E rec \in m.records : rec.branch = "request" /\ rec.req = r /\ rec.rule

NamedByTombstone(m, r) == \E t \in m.tombs : r \in t.reqs

MemberWide(m) == {t \in m.tombs : t.user # NoMember}

Covers(t, r, by) ==
  /\ t.user = by
  /\ r \notin t.exempt
  /\ r \notin t.old

\* What #grantRule answers before, and without, reading the request; "read" when it must.
RuleAtOnce(m, r) ==
  IF GrantsAsJoin(m, r) \/ NamedByTombstone(m, r) THEN "join"
  ELSE IF m.intents = {} /\ MemberWide(m) = {} THEN "grant"
  ELSE "read"

\* Mutant: an unresolved intent defers nothing.
RuleNeverDeferred(m, r, by, hadIntents, wide) == IF \E t \in wide : Covers(t, r, by) THEN "join" ELSE "grant"

\* And once it has been read: `hadIntents` and `wide` are from before the read, `m` from after it.
RuleAfterRead(m, r, by, hadIntents, wide) ==
  IF hadIntents /\ m.intents # {} THEN "defer"
  ELSE IF \E t \in wide : Covers(t, r, by) THEN "join"
  ELSE "grant"

\* With the read at once.
RuleNow(m, r, by) ==
  IF RuleAtOnce(m, r) = "read" THEN RuleAfterRead(m, r, by, m.intents # {}, MemberWide(m)) ELSE RuleAtOnce(m, r)

GrantedTo(m, r, homes) ==
  [m EXCEPT !.granted = @ \cup {r}, !.handled = @ \cup {r}, !.groups = @ \cup homes]

Handled(m, r) == [m EXCEPT !.handled = @ \cup {r}]

-----------------------------------------------------------------------------
(* Households *)

\* Mutant: the records of the household replaced stay with the one that takes its ID.
ReplacedKeepingRecords(m, h) == [m EXCEPT !.epoch[h] = @ + 1, !.groups = @ \ {h}]

Replaced(m, h) ==
  [m EXCEPT !.epoch[h] = @ + 1,
            !.groups = @ \ {h},
            !.records = {IF rec.home = h THEN [rec EXCEPT !.detached = TRUE] ELSE rec : rec \in @}]

\* The household asked for the title already and still waits.
Asked(m, h) ==
  \/ \E i \in m.intents : i.home = h
  \/ \E rec \in m.records : /\ rec.home = h /\ ~rec.detached /\ rec.status = "pending"
                            /\ rec.branch # "join" /\ ~rec.awaiting

GenuineRequests(m, u) ==
  {rec.req : rec \in {x \in m.records : x.branch = "request" /\ ~x.rule /\ x.user = u}} \ {NoRequest}

Protects(m, r, by, made) ==
  \/ \E i \in m.intents : i.call = made
  \/ GrantsAsJoin(m, r)
  \/ NamedByTombstone(m, r)
  \/ \E t \in MemberWide(m) : Covers(t, r, by)
  \/ r \in m.handled
=============================================================================
