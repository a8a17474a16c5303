----------------------------- MODULE GrantStore -----------------------------
(***************************************************************************)
(* Who may see what: the grants, households, removal marks, revocations    *)
(* and withdrawals of src/src/store.ts, and the changes AccessService      *)
(* (src/src/access-service.ts) makes to them.  Every change is one         *)
(* synchronous mutation, so an action is a whole mutator; a move of a      *)
(* grant to other items is several, run in AccessService's queue with      *)
(* Jellyfin calls between them.                                            *)
(*                                                                         *)
(* Left out: library join history and timestamps (an audit trail), media   *)
(* types, sync attempts (AccessReconcile) and how the file is written      *)
(* (StateFile).                                                            *)
(***************************************************************************)
EXTENDS Naturals, FiniteSets

CONSTANTS Item, User, Group, Request,
          Requester,   \* the Jellyfin user each Seerr request was made by
          NoItem       \* what a request resolves to when Jellyfin has no item

ASSUME RequesterAssumption == Requester \in [Request -> User]
ASSUME NoItemAssumption == NoItem \notin Item

VARIABLES grants,         \* #state.grants
          existing,       \* the groups in #state.groups
          members,        \* their userIds
          handled,        \* #state.handledRequestIds
          revoked,        \* #state.revokedRequests
          removedUsers,   \* #state.removedAccess[item].userIds
          removedGroups,  \* #state.removedAccess[item].groupIds
          withdrawals,    \* #state.appWithdrawals
          cancelling,     \* requests a member's cancel is deleting in Seerr
          moving          \* the move AccessService's queue is in the middle of

marks == <<removedUsers, removedGroups>>
households == <<existing, members>>
vars == <<grants, households, handled, revoked, marks, withdrawals, cancelling, moving>>

-----------------------------------------------------------------------------
(* Data *)

\* "orphaned": the sync state of a grant left on a deleted item.  "split" and
\* "reappeared": its remap note (which outlives the sync state).
Place == {"live", "orphaned", "split", "reappeared"}

Grant == [stored : BOOLEAN, requests : SUBSET Request, manual : SUBSET User,
          groups : SUBSET Group, owners : SUBSET User, place : Place]

\* No grant: what the code reads as `previous?.requests ?? {}`.
Absent == [stored |-> FALSE, requests |-> {}, manual |-> {}, groups |-> {},
           owners |-> {}, place |-> "live"]

\* Who withdrew from a request, and whether it is a title hold (seerrGoneAt).
Withdrawal == [groups : SUBSET Group, requester : BOOLEAN, gone : BOOLEAN]
NoWithdrawal == [groups |-> {}, requester |-> FALSE, gone |-> FALSE]

Audience == [requests : SUBSET Request, manual : SUBSET User, groups : SUBSET Group]
Nobody == [requests |-> {}, manual |-> {}, groups |-> {}]

\* A move in progress: the deleted item, what goes where, and what stays.
NoMove == [from |-> NoItem, moves |-> [i \in {} |-> Nobody], leftover |-> Nobody]

AudienceOf(g) == [requests |-> g.requests, manual |-> g.manual, groups |-> g.groups]
ActiveAudience(a) == a.requests # {} \/ a.manual # {} \/ a.groups # {}
Active(i) == grants[i].stored /\ ActiveAudience(grants[i])

Init ==
  /\ grants = [i \in Item |-> Absent]
  /\ existing = {}
  /\ members = [g \in Group |-> {}]
  /\ handled = {}
  /\ revoked = [r \in Request |-> {}]
  /\ removedUsers = [i \in Item |-> {}]
  /\ removedGroups = [i \in Item |-> {}]
  /\ withdrawals = [r \in Request |-> NoWithdrawal]
  /\ cancelling = {}
  /\ moving = NoMove

-----------------------------------------------------------------------------
(* What the mutators are built from *)

\* The requesters who have not withdrawn, the manual users and the members of
\* the groups, by the memberships `membersNow`.
OwnersBy(membersNow, a) ==
  {Requester[r] : r \in {x \in a.requests : ~withdrawals[x].requester}}
    \cup a.manual
    \cup UNION {membersNow[g] : g \in a.groups}

ResolveOwners(a) == OwnersBy(members, a)

ListGroupIdsForUser(u) == {g \in existing : u \in members[g]}

\* A grant is built anew with its remap note kept and its sync pending.
MakeGrant(previous, requests, manual, groups) ==
  [stored |-> TRUE, requests |-> requests, manual |-> manual, groups |-> groups,
   owners |-> ResolveOwners([requests |-> requests, manual |-> manual, groups |-> groups]),
   place |-> IF previous.place = "orphaned" THEN "live" ELSE previous.place]

\* Whether a grant other than those in `gs` names the request.
RecordedIn(gs, r) == \E i \in Item : r \in gs[i].requests

\* Withdrawals of handled requests are kept only while they take a requester
\* off a grant that records the request.
PruneWithdrawals(ws, gs, handledNow) ==
  [r \in Request |->
     IF r \notin handledNow \/ (ws[r].requester /\ RecordedIn(gs, r))
     THEN ws[r] ELSE NoWithdrawal]

\* The marks an administrator's change of an item's manual users and groups
\* leaves: what it took off is marked, what it assigned is unmarked.
MarkedGroups(i, groups) == (removedGroups[i] \cup grants[i].groups) \ groups
MarkedUsers(i, manual, groups) ==
  LET before == grants[i]
      after == ResolveOwners([requests |-> before.requests, manual |-> manual, groups |-> groups])
      lost == ResolveOwners(before) \ after
      assigned == manual \cup UNION {members[g] : g \in groups \ before.groups}
  IN  (removedUsers[i] \cup before.manual \cup lost) \ assigned

RecordAdministratorChange(i, manual, groups) ==
  /\ removedGroups' = [removedGroups EXCEPT ![i] = MarkedGroups(i, groups)]
  /\ removedUsers' = [removedUsers EXCEPT ![i] = MarkedUsers(i, manual, groups)]

-----------------------------------------------------------------------------
(* Requests *)

Queue == moving = NoMove

\* The households a new grant adds: its requester's, less any that withdrew;
\* none when the requester withdrew.
GrantGroups(r) ==
  IF withdrawals[r].requester THEN {}
  ELSE ListGroupIdsForUser(Requester[r]) \ withdrawals[r].groups

\* Mutant: withdrawals are pruned before the grant is stored.
GrantedPrunedFirst(i, r) ==
  LET previous == grants[i]
      requests == IF i \in revoked[r] THEN previous.requests ELSE previous.requests \cup {r}
  IN  /\ handled' = handled \cup {r}
      /\ withdrawals' = PruneWithdrawals(withdrawals, grants, handled')
      /\ grants' = [grants EXCEPT ![i] =
                      MakeGrant(previous, requests, previous.manual,
                                previous.groups \cup GrantGroups(r))]
      /\ UNCHANGED <<households, revoked, marks, cancelling, moving>>

\* store.grant: a request an administrator revoked from the item is not recorded
\* on it again, but is handled all the same.
Granted(i, r) ==
  LET previous == grants[i]
      requests == IF i \in revoked[r] THEN previous.requests ELSE previous.requests \cup {r}
  IN  /\ grants' = [grants EXCEPT ![i] =
                      MakeGrant(previous, requests, previous.manual,
                                previous.groups \cup GrantGroups(r))]
      /\ handled' = handled \cup {r}
      /\ withdrawals' = PruneWithdrawals(withdrawals, grants', handled')
      /\ UNCHANGED <<households, revoked, marks, cancelling, moving>>

\* Mutant: handled requests are granted again.
GrantRequestAgain(i, r) == Queue /\ Granted(i, r)

\* A webhook (its replays and deferrals included) or the backfill.
GrantRequest(i, r) ==
  /\ Queue
  /\ r \notin handled
  /\ Granted(i, r)

\* A request granted as a join is handled and no grant records it.
MarkRequestHandled(r) ==
  /\ Queue
  /\ r \notin handled
  /\ handled' = handled \cup {r}
  /\ UNCHANGED <<grants, households, revoked, marks, withdrawals, cancelling, moving>>

RevokeRequest(i, r) ==
  LET previous == grants[i]
      requests == previous.requests \ {r}
      u == Requester[r]
      keeps == u \in previous.manual \/ \E x \in requests : Requester[x] = u
  IN  /\ Queue
      /\ r \in previous.requests
      /\ grants' = [grants EXCEPT ![i] =
                      MakeGrant(previous, requests, previous.manual, previous.groups)]
      /\ revoked' = [revoked EXCEPT ![r] = @ \cup {i}]
      /\ removedUsers' = [removedUsers EXCEPT ![i] = IF keeps THEN @ ELSE @ \cup {u}]
      /\ withdrawals' = PruneWithdrawals(withdrawals, grants', handled)
      /\ UNCHANGED <<households, handled, removedGroups, cancelling, moving>>

-----------------------------------------------------------------------------
(* What administrators set *)

SetGrantGroups(i, groups) ==
  /\ Queue
  /\ grants[i].stored
  /\ groups \subseteq existing
  /\ grants' = [grants EXCEPT ![i] =
                  MakeGrant(grants[i], grants[i].requests, grants[i].manual, groups)]
  /\ RecordAdministratorChange(i, grants[i].manual, groups)
  /\ UNCHANGED <<households, handled, revoked, withdrawals, cancelling, moving>>

\* AccessService refuses an empty audience and unknown groups.
SetManualAccess(i, manual, groups) ==
  /\ Queue
  /\ manual \cup groups # {}
  /\ groups \subseteq existing
  /\ grants' = [grants EXCEPT ![i] =
                  MakeGrant(grants[i], grants[i].requests, manual, groups)]
  /\ RecordAdministratorChange(i, manual, groups)
  /\ UNCHANGED <<households, handled, revoked, withdrawals, cancelling, moving>>

\* Grants that name the group get their owners again; nothing is marked.
UpsertGroup(g, users) ==
  LET membersNow == [members EXCEPT ![g] = users]
  IN  /\ Queue
      /\ existing' = existing \cup {g}
      /\ members' = membersNow
      /\ grants' = [i \in Item |->
           IF g \in grants[i].groups
           THEN [grants[i] EXCEPT !.owners = OwnersBy(membersNow, grants[i]),
                                  !.place = IF @ = "orphaned" THEN "live" ELSE @]
           ELSE grants[i]]
      /\ UNCHANGED <<handled, revoked, marks, withdrawals, cancelling, moving>>

\* Mutant: the group's marks are left.
DeleteGroupOnly(g) ==
  LET left(i) == [grants[i] EXCEPT !.groups = @ \ {g}]
      membersNow == [members EXCEPT ![g] = {}]
  IN  /\ Queue
      /\ g \in existing
      /\ existing' = existing \ {g}
      /\ members' = membersNow
      /\ grants' = [i \in Item |-> [left(i) EXCEPT !.owners = OwnersBy(membersNow, left(i))]]
      /\ UNCHANGED <<handled, revoked, marks, withdrawals, cancelling, moving>>

\* A group created later under the same ID is a different household: the
\* group's marks go with it, and so does its place on every grant.
DeleteGroup(g) ==
  LET left(i) == [grants[i] EXCEPT !.groups = @ \ {g}]
      membersNow == [members EXCEPT ![g] = {}]
  IN  /\ Queue
      /\ g \in existing
      /\ existing' = existing \ {g}
      /\ members' = membersNow
      /\ removedGroups' = [i \in Item |-> removedGroups[i] \ {g}]
      /\ grants' = [i \in Item |->
           IF g \in grants[i].groups
           THEN [left(i) EXCEPT !.owners = OwnersBy(membersNow, left(i)),
                                !.place = IF @ = "orphaned" THEN "live" ELSE @]
           ELSE grants[i]]
      /\ UNCHANGED <<handled, revoked, removedUsers, withdrawals, cancelling, moving>>

-----------------------------------------------------------------------------
(* Household joins ("Get this") *)

\* Mutant: marked households join again.
PlanJoinMarked(i, u, g) ==
  /\ Active(i)
  /\ grants[i].requests # {}
  /\ grants[i].place = "live"
  /\ u \notin removedUsers[i]
  /\ g \in existing \ grants[i].groups

\* Only an active grant with a request, not one left on a deleted item, is
\* joined, never by a marked caller and never for a marked household.
PlanJoin(i, u, g) ==
  /\ Active(i)
  /\ grants[i].requests # {}
  /\ grants[i].place = "live"
  /\ u \notin removedUsers[i]
  /\ g \in existing
  /\ g \notin grants[i].groups \cup removedGroups[i]

\* The caller may have left the household since the call or record was made.
JoinGrant(i, u, g) ==
  /\ Queue
  /\ PlanJoin(i, u, g)
  /\ grants' = [grants EXCEPT ![i] =
                  MakeGrant(grants[i], grants[i].requests, grants[i].manual,
                            grants[i].groups \cup {g})]
  /\ UNCHANGED <<households, handled, revoked, marks, withdrawals, cancelling, moving>>

-----------------------------------------------------------------------------
(* Cancels *)

\* A member's or an administrator's cancel withdraws households, and perhaps the
\* requester, from a request whose grant is still to come.  A requester's own
\* cancel then deletes the request in Seerr, outside AccessService's queue.
Withdraw(r, groups, byRequester, deletes) ==
  /\ Queue
  /\ r \notin handled
  /\ groups # {}
  /\ deletes => byRequester
  /\ withdrawals' = [withdrawals EXCEPT ![r].groups = @ \cup groups,
                                        ![r].requester = @ \/ byRequester]
  /\ cancelling' = IF deletes THEN cancelling \cup {r} ELSE cancelling
  /\ UNCHANGED <<grants, households, handled, revoked, marks, moving>>

\* Seerr deleted the request: its withdrawal is forgotten, back in the queue.
ForgetWithdrawal(r) ==
  /\ Queue
  /\ r \in cancelling
  /\ cancelling' = cancelling \ {r}
  /\ withdrawals' = PruneWithdrawals([withdrawals EXCEPT ![r] = NoWithdrawal], grants, handled)
  /\ UNCHANGED <<grants, households, handled, revoked, marks, moving>>

\* Seerr refused, failed, or was not asked: the withdrawal decides the grant.
KeepCancelled(r) ==
  /\ r \in cancelling
  /\ cancelling' = cancelling \ {r}
  /\ UNCHANGED <<grants, households, handled, revoked, marks, withdrawals, moving>>

\* The refresh finds that Seerr no longer has a withdrawn request: a title hold if
\* its requester withdrew a genuine request, otherwise (or once its retention is
\* over) forgotten.
RequestGone(r, holds) ==
  /\ Queue
  /\ r \notin handled
  /\ withdrawals[r].groups # {}
  /\ holds => withdrawals[r].requester
  /\ withdrawals' = [withdrawals EXCEPT ![r] = IF holds THEN [@ EXCEPT !.gone = TRUE] ELSE NoWithdrawal]
  /\ UNCHANGED <<grants, households, handled, revoked, marks, cancelling, moving>>

TitleHold(r) ==
  /\ withdrawals[r].gone
  /\ r \notin handled \/ RecordedIn(grants, r)

\* A hold is granted on each item of its title no active grant holds yet.
HoldItem(i, r) ==
  /\ Queue
  /\ TitleHold(r)
  /\ ~Active(i)
  /\ i \notin revoked[r]
  /\ Granted(i, r)

\* Every item of the title is held: a hold on a grant stays a withdrawal.
DropTitleHold(r) ==
  /\ Queue
  /\ TitleHold(r)
  /\ \E i \in Item : Active(i) \/ i \in revoked[r]
  /\ LET dropped == IF r \in handled THEN [withdrawals[r] EXCEPT !.gone = FALSE] ELSE NoWithdrawal
     IN  withdrawals' = PruneWithdrawals([withdrawals EXCEPT ![r] = dropped], grants, handled)
  /\ UNCHANGED <<grants, households, handled, revoked, marks, cancelling, moving>>

-----------------------------------------------------------------------------
(* Moves: the grant of a deleted item goes to the items its requests resolve to *)

\* The households of the requesters, of those the grant already has.
Households(i, requests) ==
  {g \in grants[i].groups : \E r \in requests : Requester[r] \in members[g]}

\* #partitionMove.  `resolves` is what Seerr and Jellyfin answer now: the existing
\* item each request resolves to, one it was revoked from included.
PartitionMove(i, resolves) ==
  LET source == grants[i]
      landed(t) == {r \in source.requests : resolves[r] = t /\ t \notin revoked[r]}
      targets == {t \in Item : landed(t) # {}}
      unresolved == {r \in source.requests : resolves[r] = NoItem}
      dropped == {r \in source.requests : resolves[r] \in revoked[r]}
      whole == /\ Cardinality(targets) = 1
               /\ unresolved \cup dropped = {}
               /\ source.place # "split"
      moves == [t \in targets |->
                  IF whole THEN AudienceOf(source)
                  ELSE [requests |-> landed(t), manual |-> {}, groups |-> Households(i, landed(t))]]
      moved == UNION {moves[t].groups : t \in targets}
  IN  [from |-> i, moves |-> moves,
       leftover |-> IF whole THEN Nobody
                    ELSE [requests |-> unresolved, manual |-> source.manual,
                          groups |-> (source.groups \ moved) \cup Households(i, unresolved)]]

\* Mutant: a moved request is recorded though it was revoked from the target.
MergedMoveRevoked(t, move) ==
  LET previous == grants[t]
  IN  MakeGrant(previous, previous.requests \cup move.requests,
                previous.manual \cup (move.manual \ removedUsers[t]),
                previous.groups \cup ((move.groups \cap existing) \ removedGroups[t]))

\* Mutant: the marks are applied to the target's own groups too.
MergedMoveFiltered(t, move) ==
  LET previous == grants[t]
  IN  MakeGrant(previous,
                previous.requests \cup {r \in move.requests : t \notin revoked[r]},
                previous.manual \cup (move.manual \ removedUsers[t]),
                (previous.groups \cup (move.groups \cap existing)) \ removedGroups[t])

\* #mergedMove: what the target's grant becomes.
MergedMove(t, move) ==
  LET previous == grants[t]
  IN  MakeGrant(previous,
                previous.requests \cup {r \in move.requests : t \notin revoked[r]},
                previous.manual \cup (move.manual \ removedUsers[t]),
                previous.groups \cup ((move.groups \cap existing) \ removedGroups[t]))

\* Mutant: every mark follows the grant.
CarriedUsersAll(i, t) == removedUsers[t] \cup removedUsers[i]

\* #carryRemovals: the source's marks and revocations follow the grant, except
\* for what the target's grant before the move gave access to on its own.
CarriedUsers(i, t) == removedUsers[t] \cup (removedUsers[i] \ ResolveOwners(grants[t]))
CarriedGroups(i, t) == removedGroups[t] \cup (removedGroups[i] \ grants[t].groups)
CarriedRevocations(i, targets, r) ==
  IF i \in revoked[r] THEN revoked[r] \cup {t \in targets : r \notin grants[t].requests}
  ELSE revoked[r]

\* mergeGrants, the first step of a move: the source stays as it is.
MergeGrants(move) ==
  LET targets == DOMAIN move.moves
      merged(old, new) == [t \in Item |-> IF t \in targets THEN new[t] ELSE old[t]]
  IN  /\ moving' = move
      /\ grants' = merged(grants, [t \in targets |-> MergedMove(t, move.moves[t])])
      /\ removedUsers' = merged(removedUsers, [t \in targets |-> CarriedUsers(move.from, t)])
      /\ removedGroups' = merged(removedGroups, [t \in targets |-> CarriedGroups(move.from, t)])
      /\ revoked' = [r \in Request |-> CarriedRevocations(move.from, targets, r)]
      /\ UNCHANGED <<households, handled, withdrawals, cancelling>>

\* #recoverMissingItem: a reconciliation found the item of an active grant deleted.
RecoverMissingItem(i, resolves) ==
  /\ Queue
  /\ Active(i)
  /\ \E r \in grants[i].requests : resolves[r] # NoItem
  /\ MergeGrants(PartitionMove(i, resolves))

\* Nothing resolves: the grant stays, for an administrator.
MarkOrphaned(i) ==
  /\ Queue
  /\ Active(i)
  /\ grants[i].place = "live"
  /\ grants' = [grants EXCEPT ![i].place = "orphaned"]
  /\ UNCHANGED <<households, handled, revoked, marks, withdrawals, cancelling, moving>>

\* Mutant: the grant is moved onto its own item.
RemapGrantAnywhere(i, t) ==
  /\ Queue
  /\ grants[i].stored
  /\ MergeGrants([from |-> i, moves |-> [x \in {t} |-> AudienceOf(grants[i])],
                  leftover |-> Nobody])

\* An administrator moves the whole grant of a deleted item.
RemapGrant(i, t) ==
  /\ Queue
  /\ grants[i].stored
  /\ i # t
  /\ MergeGrants([from |-> i, moves |-> [x \in {t} |-> AudienceOf(grants[i])],
                  leftover |-> Nobody])

\* Mutant: what could not be moved is dropped.
RetireWholeGrant ==
  /\ ~Queue
  /\ grants' = [grants EXCEPT ![moving.from] = Absent]
  /\ moving' = NoMove
  /\ UNCHANGED <<households, handled, revoked, marks, withdrawals, cancelling>>

\* The last step, once the targets are applied and Jellyfin still has no source
\* item: the source goes, or keeps what could not be moved.
RetireMovedGrant ==
  LET i == moving.from
      rest == moving.leftover
  IN  /\ ~Queue
      /\ grants' = [grants EXCEPT ![i] =
           IF ActiveAudience(rest)
           THEN [MakeGrant(@, rest.requests, rest.manual, rest.groups \cap existing)
                   EXCEPT !.place = "split"]
           ELSE Absent]
      /\ moving' = NoMove
      /\ UNCHANGED <<households, handled, revoked, marks, withdrawals, cancelling>>

\* The source item exists again: its grant is kept with its restrictions.
KeepReappearedSource ==
  /\ ~Queue
  /\ grants' = [grants EXCEPT ![moving.from].place = IF @ = "split" THEN @ ELSE "reappeared"]
  /\ moving' = NoMove
  /\ UNCHANGED <<households, handled, revoked, marks, withdrawals, cancelling>>

\* A call to Jellyfin failed: the source is kept, and a recovery, which records the
\* failure on it, is tried again later.
FailMove(recovery) ==
  /\ ~Queue
  /\ grants' = IF recovery /\ grants[moving.from].place = "orphaned"
               THEN [grants EXCEPT ![moving.from].place = "live"] ELSE grants
  /\ moving' = NoMove
  /\ UNCHANGED <<households, handled, revoked, marks, withdrawals, cancelling>>

-----------------------------------------------------------------------------
(* Reconciliation and restarts *)

\* An outcome recorded for a grant (its item is back, or could not be read)
\* replaces the orphaned state.
MarkSync(i) ==
  /\ Queue
  /\ grants[i].place = "orphaned"
  /\ grants' = [grants EXCEPT ![i].place = "live"]
  /\ UNCHANGED <<households, handled, revoked, marks, withdrawals, cancelling, moving>>

\* A grant with no audience left goes once it is applied, a move's target too.
PurgeInactive(i) ==
  /\ Queue \/ i \in DOMAIN moving.moves
  /\ grants[i].stored
  /\ ~Active(i)
  /\ grants' = [grants EXCEPT ![i] = Absent]
  /\ UNCHANGED <<households, handled, revoked, marks, withdrawals, cancelling, moving>>

\* A crash or a shutdown: what is under way is forgotten.
Restart ==
  /\ moving # NoMove \/ cancelling # {}
  /\ moving' = NoMove
  /\ cancelling' = {}
  /\ UNCHANGED <<grants, households, handled, revoked, marks, withdrawals>>

Requests ==
  \/ \E i \in Item, r \in Request : GrantRequest(i, r) \/ RevokeRequest(i, r) \/ HoldItem(i, r)
  \/ \E r \in Request : MarkRequestHandled(r)
Administrators ==
  \/ \E i \in Item, gs \in SUBSET Group :
       SetGrantGroups(i, gs) \/ \E us \in SUBSET User : SetManualAccess(i, us, gs)
  \/ \E g \in Group : DeleteGroup(g) \/ \E us \in SUBSET User : UpsertGroup(g, us)
Joins == \E i \in Item, u \in User, g \in Group : JoinGrant(i, u, g)
Cancels == \E r \in Request :
  \/ \E gs \in SUBSET Group, byRequester, deletes \in BOOLEAN : Withdraw(r, gs, byRequester, deletes)
  \/ ForgetWithdrawal(r) \/ KeepCancelled(r)
  \/ \E holds \in BOOLEAN : RequestGone(r, holds)
  \/ DropTitleHold(r)
Moves ==
  \/ \E i \in Item : MarkOrphaned(i) \/ \E t \in Item : RemapGrant(i, t)
  \/ \E i \in Item : \E resolves \in [grants[i].requests -> (Item \ {i}) \cup {NoItem}] :
       RecoverMissingItem(i, resolves)
  \/ RetireMovedGrant \/ KeepReappearedSource \/ \E recovery \in BOOLEAN : FailMove(recovery)
Reconciliation == Restart \/ \E i \in Item : MarkSync(i) \/ PurgeInactive(i)

Next == Requests \/ Administrators \/ Joins \/ Cancels \/ Moves \/ Reconciliation

Spec == Init /\ [][Next]_vars

-----------------------------------------------------------------------------
(* Properties *)

MovingOK ==
  /\ moving.from \in Item /\ grants[moving.from].stored
  /\ DOMAIN moving.moves \subseteq Item \ {moving.from}
  /\ \A t \in DOMAIN moving.moves : moving.moves[t] \in Audience
  /\ moving.leftover \in Audience

\* Every variable has its type; a move's source is a stored grant and none of its
\* own targets (mergeGrants' "grant move targets are invalid").
TypeOK ==
  /\ grants \in [Item -> Grant]
  /\ \A i \in Item : grants[i].stored \/ grants[i] = Absent
  /\ existing \subseteq Group
  /\ members \in [Group -> SUBSET User]
  /\ handled \subseteq Request
  /\ revoked \in [Request -> SUBSET Item]
  /\ removedUsers \in [Item -> SUBSET User]
  /\ removedGroups \in [Item -> SUBSET Group]
  /\ withdrawals \in [Request -> Withdrawal]
  /\ cancelling \subseteq Request
  /\ moving = NoMove \/ MovingOK

\* No grant records a request an administrator revoked from its item, whatever
\* copies of it moves, recoveries and replays bring back (GrantState.revokedRequests).
RevokedStaysOff == \A i \in Item, r \in Request : i \in revoked[r] => r \notin grants[i].requests

\* Grants and removal marks name only groups that exist, so a group created again
\* under a deleted ID inherits neither access nor a mark (deleteGroup).
NoDanglingGroups == \A i \in Item : grants[i].groups \cup removedGroups[i] \subseteq existing

\* The owners stored with a grant (what the admin readout and Jellyfin show) name
\* nobody its audience does not, and leave out no manual user or household member,
\* though memberships change after the grant is stored (upsertGroup, deleteGroup).
OwnersFresh == \A i \in Item :
  /\ grants[i].owners \subseteq ResolveOwners(grants[i])
  /\ ResolveOwners([grants[i] EXCEPT !.requests = {}]) \subseteq grants[i].owners

\* Nobody is both a manual user of an item and marked as removed from it, through
\* every order of assignments, removals, revocations and moves (#carryRemovals
\* leaves out the owners of the target).
ManualUnmarked == \A i \in Item : grants[i].manual \cap removedUsers[i] = {}

\* A recovery cut short by a crash merges the same move again: that changes neither
\* a target's audience nor the marks on it (mergeGrants: "merging the same move
\* again changes nothing").
MergeIdempotent == \A t \in DOMAIN moving.moves :
  Active(t) =>
    /\ AudienceOf(MergedMove(t, moving.moves[t])) = AudienceOf(grants[t])
    /\ CarriedUsers(moving.from, t) = removedUsers[t]
    /\ CarriedGroups(moving.from, t) = removedGroups[t]
    /\ \A r \in Request : t \in CarriedRevocations(moving.from, {t}, r) => t \in revoked[r]

\* What was computed once, the owners stored with a grant and a merge already made, is what computing
\* it again would give, whatever changed in between.
RecomputedAlike == OwnersFresh /\ MergeIdempotent

\* A handled request no grant records any more never comes back: a replay, the
\* backfill or a hold never grants again what an administrator revoked everywhere.
NoResurrection ==
  [][\A r \in handled : ~RecordedIn(grants, r) => ~RecordedIn(grants', r)]_vars

\* A group marked as removed from an item returns to its grant only with the mark
\* cleared (an administrator, a deleted group) or by a request granted just then,
\* and a marked user returns as a manual user only with the mark cleared.
NoQuietReturn == [][\A i \in Item :
  /\ removedGroups[i] \cap removedGroups'[i] \cap (grants'[i].groups \ grants[i].groups) # {}
       => handled' # handled
  /\ removedUsers[i] \cap removedUsers'[i] \cap (grants'[i].manual \ grants[i].manual) = {}]_vars

\* A move gives an item's users nobody the source grant did not have: a requester's
\* households an administrator took off the source do not come back with it.
GainsNobody == moving = NoMove /\ moving' # NoMove =>
  \A t \in Item : ResolveOwners(grants[t])'
    \subseteq ResolveOwners(grants[t]) \cup ResolveOwners(grants[moving'.from])

\* Whom an administrator had already taken off a target, or off a request's item.
TakenFromTargets(u) ==
  \/ \E t \in DOMAIN moving.moves :
       u \in removedUsers[t] \/ \E g \in removedGroups[t] : u \in members[g]
  \/ \E r \in grants[moving.from].requests :
       Requester[r] = u /\ revoked[r] \ {moving.from} # {}

\* And it loses nobody an administrator had not removed: whoever the source gave
\* access to has it on a target or on what stays behind when the source is retired.
LosesNobody == moving # NoMove /\ moving' = NoMove =>
  \A u \in ResolveOwners(grants[moving.from]) :
    \/ \E i \in DOMAIN moving.moves \cup {moving.from} : u \in ResolveOwners(grants[i])'
    \/ TakenFromTargets(u)

\* A move, whole or split, at once or in steps, keeps the audience it found.
MovesKeepAudience == [][GainsNobody /\ LosesNobody]_vars

\* A request its requester withdrew before the grant gives nobody access when it is
\* granted, neither the requester nor their households: the title is held.
WithdrawnGivesNobody == [][\A i \in Item, r \in Request :
  /\ withdrawals[r].requester /\ r \notin handled
  /\ r \in grants'[i].requests
  => ResolveOwners(grants[i])' \subseteq ResolveOwners(grants[i])]_vars
=============================================================================
