---------------------------- MODULE MCGrantStore ----------------------------
(***************************************************************************)
(* GrantStore for TLC: a request, another user, a household, and two items *)
(* with any history; a third, and a second request, for splits only.       *)
(***************************************************************************)
EXTENDS GrantStore, FiniteSetsExt, TLC

CONSTANTS u1, u2, r1, r2, i1, i2, i3,
          MaxGiven,      \* manual users, group members and groups of grants at a time
          MaxTaken       \* removal marks, revocations and withdrawals at a time

MCRequester == r1 :> u1 @@ r2 :> u2

ItemSymmetry == Permutations({i1, i2})

\* Copies on several items count once: a move makes them.
Given == Cardinality(UNION {grants[i].manual : i \in Item})
           + Cardinality(UNION {grants[i].groups : i \in Item})
           + MapThenSumSet(LAMBDA g : Cardinality(members[g]), Group)
Taken ==
  MapThenSumSet(LAMBDA i : Cardinality(removedUsers[i]) + Cardinality(removedGroups[i]), Item)
    + MapThenSumSet(LAMBDA r : Cardinality(revoked[r]), Request)
Withdrawn == Cardinality({r \in Request : withdrawals[r] # NoWithdrawal})

\* On two items and one request: removals, revocations and a withdrawal, empty grants,
\* orphans that are kept and requests handled as joins.
Histories ==
  /\ grants[i3] = Absent /\ i3 \notin DOMAIN moving.moves
  /\ removedUsers[i3] = {} /\ removedGroups[i3] = {}
  /\ r2 \notin handled \cup cancelling /\ withdrawals[r2] = NoWithdrawal /\ revoked[r2] = {}
  /\ Given < MaxGiven /\ Taken + Withdrawn <= MaxTaken

\* On three and two requests, the grant of i3 split between the others or moved to one of them:
\* nothing taken off before, and the requests granted in turn.
Splits ==
  /\ Given <= MaxGiven /\ Taken = 0 /\ Withdrawn = 0 /\ cancelling = {}
  /\ \A i \in Item : grants[i].stored => Active(i) /\ grants[i].place \in {"live", "split"}
  /\ \A r \in handled : RecordedIn(grants, r)
  /\ r2 \in handled => r1 \in handled
  /\ moving.from \in {NoItem, i3}
  /\ grants[i3].stored /\ moving = NoMove =>
       \A i \in {i1, i2} : grants[i].stored => grants[i3].place = "split" /\ grants[i].requests # {}

Explored == Histories \/ Splits
=============================================================================
