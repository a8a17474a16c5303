--------------------------- MODULE AccessReconcile ---------------------------
(***************************************************************************)
(* How AccessService (src/src/access-service.ts) makes Jellyfin show what  *)
(* the store says: a private title carries a tag, and every user who is    *)
(* not one of its owners has the tag in BlockedTags.  One queue            *)
(* (#exclusive) runs the jobs: an administrator's change, a webhook, a     *)
(* bulk change, a move, a scheduled run.  Each reads Jellyfin, then writes *)
(* the item and whole user policies one call at a time, while Jellyfin's   *)
(* own users and items change, calls fail and JellyPass may stop.          *)
(*                                                                         *)
(* Who the owners of a grant are is GrantStore's subject: here a grant is  *)
(* its owners, whether it is active and its sync state.  Left out:         *)
(* administrators (never blocked), trailers (written like their item,      *)
(* right after it) and dry runs.                                           *)
(***************************************************************************)
EXTENDS Naturals

CONSTANTS Item, User,
          NoItem,
          MaxChanges,   \* bounds the changes administrators and requests make
          MaxEdits,     \* bounds what others change in Jellyfin
          MaxFailures   \* bounds the Jellyfin calls that fail and the restarts

ASSUME BoundsAssumption == {MaxChanges, MaxEdits, MaxFailures} \subseteq Nat
ASSUME NoItemAssumption == NoItem \notin Item

VARIABLES grants,    \* #state.grants: who owns each item, and its sync state
          exists,    \* Jellyfin: the items there are
          tagged,    \* Jellyfin: the items carrying their access tag
          users,     \* Jellyfin: the users there are
          blocked,   \* Jellyfin: each user's BlockedTags, as the items meant
          job,       \* the kind of operation whose turn it is in #queue
          todo,      \* the grants it has still to reconcile
          plan,      \* what it has still to write for the grant it is on
          move,      \* the move it is in the middle of
          drifted,   \* items others changed since JellyPass last applied them
          budget     \* how many changes, edits and failures there have been

vars == <<grants, exists, tagged, users, blocked, job, todo, plan, move, drifted, budget>>
store == grants
jellyfin == <<exists, tagged, users, blocked>>
queue == <<job, todo, plan, move>>

-----------------------------------------------------------------------------
(* Data *)

\* SyncStatus.state; "none": no grant is stored; "error": failed, not due again yet
\* (nextRetryAt); "retry": failed and due.
Status == {"none", "pending", "synced", "error", "retry", "orphaned"}
Grant == [status : Status, active : BOOLEAN, owners : SUBSET User]
NoGrant == [status |-> "none", active |-> FALSE, owners |-> {}]

Job == {"idle", "change", "bulk", "remap", "full", "scheduled"}

\* Items to write the tags of, then users to write the policies of; "stale" are the
\* plan's items others changed since it was read.
PlanKind == {"none", "grant", "bulk", "retire", "purge"}
NoPlan == [kind |-> "none", items |-> {}, active |-> FALSE, tags |-> {},
           policies |-> [u \in {} |-> {}], stale |-> {}]

\* "rest": who stays on the source of a partial move, which then is orphaned.
NoMove == [from |-> NoItem, to |-> NoItem, applied |-> FALSE, whole |-> TRUE, rest |-> {}]

Stored(i) == grants[i].status # "none"

Init ==
  /\ grants = [i \in Item |-> NoGrant]
  /\ exists \in SUBSET Item
  /\ tagged = {}
  /\ users \in SUBSET User
  /\ blocked = [u \in User |-> {}]
  /\ job = "idle" /\ todo = {} /\ plan = NoPlan /\ move = NoMove
  /\ drifted = {}
  /\ budget = [changes |-> 0, edits |-> 0, failures |-> 0]

Spend(what, max) ==
  /\ budget[what] < max
  /\ budget' = [budget EXCEPT ![what] = @ + 1]

-----------------------------------------------------------------------------
(* Plans *)

\* #buildPlanContext for several items at once (one but in a bulk change): which
\* items' tags to write and which whole policies, from what Jellyfin has now.
\* `gs` are the grants to apply; a grant being retired is applied as inactive.
PlanContext(kind, items, gs) ==
  LET hidden(i, u) == gs[i].active /\ u \notin gs[i].owners
      after(u) == (blocked[u] \ items) \cup {i \in items : hidden(i, u)}
      written == {u \in users : after(u) # blocked[u]}
  IN  [kind |-> kind, items |-> items,
       active |-> \E i \in items : gs[i].active,
       tags |-> {i \in items \cap exists : (i \in tagged) # gs[i].active},
       policies |-> [u \in written |-> after(u)],
       stale |-> {}]

\* What a grant's plan is refused for: an owner Jellyfin does not have.
OwnersKnown(g) == g.active => g.owners \subseteq users

Inactive(i) == [grants EXCEPT ![i].active = FALSE]

\* Mutant: grants synced before are not due again.
IsDueUnlessSynced(g) == g.status \in {"pending", "retry"}

\* isDue: synced grants are, so every scheduled run looks at them again.
IsDue(g) == g.status \in {"pending", "synced", "retry"}

\* The kinds of jobs that move the grant of a deleted item.
Recovers == {"full", "scheduled"}

-----------------------------------------------------------------------------
(* The queue's turns *)

Idle == job = "idle"

\* Mutant: the change does not wait for its turn in the queue.
ChangeAtOnce(is, owners, active, kind) ==
  /\ kind = "change" /\ active
  /\ Spend("changes", MaxChanges)
  /\ grants' = [i \in Item |-> IF i \notin is THEN grants[i]
                               ELSE [status |-> "pending", active |-> active, owners |-> owners]]
  /\ job' = IF Idle THEN kind ELSE job
  /\ todo' = todo \cup is
  /\ UNCHANGED <<jellyfin, plan, move, drifted>>

\* A mutation of the store and the reconciliation of the grants it names: an
\* administrator's change or a join ("change"), or a webhook ("full").
Change(is, owners, active, kind) ==
  /\ Idle
  /\ \A i \in is : Stored(i) \/ active
  /\ active \/ owners = {}
  /\ kind = "full" => active /\ \A i, j \in is : i = j
  /\ Spend("changes", MaxChanges)
  /\ grants' = [i \in Item |-> IF i \notin is THEN grants[i]
                               ELSE [status |-> "pending", active |-> active, owners |-> owners]]
  /\ job' = kind
  /\ todo' = is
  /\ UNCHANGED <<jellyfin, plan, move, drifted>>

\* setBulkManualAccess plans from what it read first, then stores and applies all.
BulkChange(is, owners) ==
  LET gs == [i \in Item |-> IF i \notin is THEN grants[i]
                            ELSE [status |-> "pending", active |-> TRUE, owners |-> owners]]
  IN  /\ Idle
      /\ is \subseteq exists
      /\ owners \subseteq users
      /\ Spend("changes", MaxChanges)
      /\ grants' = gs
      /\ job' = "bulk"
      /\ plan' = PlanContext("bulk", is, gs)
      /\ UNCHANGED <<jellyfin, todo, move, drifted>>

\* createUserInGroup: the user is new to Jellyfin, the grants of its household get it
\* as an owner and are reconciled, and no other private title is blocked for it yet.
CreateMember(u, is) ==
  /\ Idle
  /\ u \notin users
  /\ \A i \in is : Stored(i) /\ grants[i].active
  /\ Spend("changes", MaxChanges)
  /\ users' = users \cup {u}
  /\ blocked' = [blocked EXCEPT ![u] = {}]
  /\ grants' = [i \in Item |-> IF i \notin is THEN grants[i]
                               ELSE [grants[i] EXCEPT !.status = "pending", !.owners = @ \cup {u}]]
  /\ job' = "change"
  /\ todo' = is
  /\ drifted' = Item
  /\ UNCHANGED <<exists, tagged, plan, move>>

\* reconcileAll: the timer's run of what is due.
Scheduled ==
  /\ Idle
  /\ \E i \in Item : Stored(i)
  /\ job' = "scheduled"
  /\ todo' = {i \in Item : Stored(i)}
  /\ UNCHANGED <<store, jellyfin, plan, move, drifted, budget>>

\* reconcileAll: an administrator's run of everything.
Full ==
  /\ Idle
  /\ Spend("changes", MaxChanges)
  /\ job' = "full"
  /\ todo' = {i \in Item : Stored(i)}
  /\ UNCHANGED <<store, jellyfin, plan, move, drifted>>

Finish ==
  /\ ~Idle /\ todo = {} /\ plan = NoPlan /\ move = NoMove
  /\ job' = "idle"
  /\ UNCHANGED <<store, jellyfin, todo, plan, move, drifted, budget>>

-----------------------------------------------------------------------------
(* One grant's turn *)

Missing(i) == i \notin exists /\ grants[i].active

\* The grant of the run's list the queue is on.
Current(i) == IF move = NoMove THEN i ELSE move.from

\* A step on grants `is` throws, while the list is at `i`: they are marked, and a
\* change stops there while a run goes on with the next grant.
Failed(is, i) ==
  /\ grants' = [g \in Item |-> IF g \in is /\ Stored(g)
                               THEN [grants[g] EXCEPT !.status = "error"] ELSE grants[g]]
  /\ todo' = IF job \in Recovers THEN todo \ {i} ELSE {}
  /\ plan' = NoPlan
  /\ move' = NoMove
  /\ UNCHANGED <<job, drifted>>

\* A recovery marks the source too, an administrator's move does not.
MovedFrom == IF job \in Recovers /\ move # NoMove THEN {move.from} ELSE {}

\* Gone since the run started, or not due.
Skip(i) ==
  /\ plan = NoPlan /\ move = NoMove
  /\ i \in todo
  /\ ~Stored(i) \/ (job = "scheduled" /\ ~IsDue(grants[i]))
  /\ todo' = todo \ {i}
  /\ UNCHANGED <<store, jellyfin, job, plan, move, drifted, budget>>

\* The grant to reconcile next: one of the list, or a move's target.
Turn(i) ==
  /\ plan = NoPlan
  /\ Stored(i)
  /\ \/ move = NoMove /\ i \in todo /\ (job = "scheduled" => IsDue(grants[i]))
     \/ move.to = i /\ ~move.applied

Recoverable(i) == Missing(i) /\ job \in Recovers /\ move = NoMove

\* #buildPlan
BuildPlan(i) ==
  /\ Turn(i)
  /\ ~Missing(i) /\ OwnersKnown(grants[i])
  /\ plan' = PlanContext("grant", {i}, grants)
  /\ UNCHANGED <<store, jellyfin, job, todo, move, drifted, budget>>

\* #buildPlan throws: an owner is unknown to Jellyfin, or the item is gone.
RefusePlan(i) ==
  /\ Turn(i)
  /\ Missing(i) \/ ~OwnersKnown(grants[i])
  /\ ~Recoverable(i)
  /\ Failed({i} \cup MovedFrom, Current(i))
  /\ UNCHANGED <<jellyfin, budget>>

\* #applyPlan and #applyBatch: the item's tag first, then the users one by one.
WriteTag(i) ==
  /\ i \in plan.tags /\ i \in exists
  /\ tagged' = IF plan.active THEN tagged \cup {i} ELSE tagged \ {i}
  /\ plan' = [plan EXCEPT !.tags = @ \ {i}]
  /\ UNCHANGED <<store, exists, users, blocked, job, todo, move, drifted, budget>>

\* The whole policy is written, with the BlockedTags planned from what was read.
WritePolicy(u) ==
  /\ plan.tags = {}
  /\ u \in DOMAIN plan.policies /\ u \in users
  /\ blocked' = [blocked EXCEPT ![u] = plan.policies[u]]
  /\ plan' = [plan EXCEPT !.policies = [x \in DOMAIN @ \ {u} |-> @[x]]]
  /\ UNCHANGED <<store, exists, tagged, users, job, todo, move, drifted, budget>>

\* What a failing call leaves behind: a move's source keeps its grant.
FailPlan ==
  \E i \in plan.items : Failed(
    CASE plan.kind = "bulk" -> plan.items
      [] plan.kind = "grant" -> {i} \cup MovedFrom
      [] OTHER -> MovedFrom, Current(i))

\* The item or user to write is gone: Jellyfin answers 404.
WriteMissing ==
  /\ \/ \E i \in plan.tags : i \notin exists
     \/ plan.tags = {} /\ \E u \in DOMAIN plan.policies : u \notin users
  /\ FailPlan
  /\ UNCHANGED <<jellyfin, budget>>

\* A read fails: of the item and the users, of Seerr, or of the source of a move.
ReadFails ==
  /\ Spend("failures", MaxFailures)
  /\ \/ \E i \in Item : Turn(i) /\ Failed({i} \cup MovedFrom, Current(i))
     \/ plan = NoPlan /\ move.applied /\ Failed(MovedFrom, move.from)
  /\ UNCHANGED jellyfin

\* A write fails (a timeout, a 5xx) and may have been applied all the same.
WriteFails ==
  /\ plan.kind \notin {"none", "purge"}
  /\ Spend("failures", MaxFailures)
  /\ \/ UNCHANGED jellyfin
     \/ \E i \in plan.tags \cap exists :
          /\ tagged' = IF plan.active THEN tagged \cup {i} ELSE tagged \ {i}
          /\ UNCHANGED <<exists, users, blocked>>
     \/ /\ plan.tags = {}
        /\ \E u \in DOMAIN plan.policies \cap users :
             blocked' = [blocked EXCEPT ![u] = plan.policies[u]]
        /\ UNCHANGED <<exists, tagged, users>>
  /\ FailPlan

Written == plan.tags = {} /\ plan.policies = NoPlan.policies

\* markSyncSuccess; a grant that gives nobody access is purged next.
MarkSyncSuccess ==
  /\ plan.kind \in {"grant", "bulk"} /\ Written
  /\ grants' = [i \in Item |-> IF i \in plan.items
                               THEN [grants[i] EXCEPT !.status = "synced"] ELSE grants[i]]
  /\ drifted' = drifted \ (plan.items \ plan.stale)
  /\ IF ~plan.active
     THEN plan' = [plan EXCEPT !.kind = "purge"] /\ UNCHANGED <<todo, move>>
     ELSE /\ plan' = NoPlan
          /\ todo' = IF move = NoMove THEN todo \ plan.items ELSE todo
          /\ move' = IF move = NoMove THEN move ELSE [move EXCEPT !.applied = TRUE]
  /\ UNCHANGED <<jellyfin, job, budget>>

Purge ==
  /\ plan.kind = "purge"
  /\ grants' = [i \in Item |-> IF i \in plan.items THEN NoGrant ELSE grants[i]]
  /\ todo' = todo \ plan.items
  /\ plan' = NoPlan
  /\ UNCHANGED <<jellyfin, job, move, drifted, budget>>

-----------------------------------------------------------------------------
(* Moves *)

\* mergeGrants: `carried` arrive on the target and wait to be applied there.
Merge(i, t, carried, whole, rest) ==
  /\ move' = [from |-> i, to |-> t, applied |-> FALSE, whole |-> whole, rest |-> rest]
  /\ grants' = [grants EXCEPT ![t] = [status |-> "pending", active |-> TRUE,
                                      owners |-> @.owners \cup carried]]
  /\ UNCHANGED <<jellyfin, plan, drifted>>

\* #recoverMissingItem: the requests of a deleted item resolve to another item, for
\* the whole audience or a part of it (of several targets, one is modelled).
RecoverMissingItem(i, t, carried, whole) ==
  /\ Turn(i) /\ Recoverable(i)
  /\ t \in exists /\ t # i
  /\ carried \subseteq grants[i].owners
  /\ Merge(i, t, carried, whole, grants[i].owners \ carried)
  /\ UNCHANGED <<job, todo, budget>>

\* #recoverMissingItem: nothing resolves.
MarkOrphaned(i) ==
  /\ Turn(i) /\ Recoverable(i)
  /\ grants' = [grants EXCEPT ![i].status = "orphaned"]
  /\ todo' = todo \ {i}
  /\ UNCHANGED <<jellyfin, job, plan, move, drifted, budget>>

\* remapGrant: an administrator moves a deleted item's whole grant.
RemapGrant(i, t, carried) ==
  /\ Idle
  /\ Stored(i) /\ i \notin exists /\ t \in exists
  /\ carried \subseteq grants[i].owners
  /\ Spend("changes", MaxChanges)
  /\ job' = "remap"
  /\ Merge(i, t, carried, TRUE, {})
  /\ UNCHANGED todo

\* Mutant: the source is retired whether the target was applied or not.
RetiringUnapplied == plan = NoPlan /\ move # NoMove

Retiring == plan = NoPlan /\ move # NoMove /\ move.applied

\* #retirementPlan: the item exists again, and its grant is kept.
KeepReappearedSource ==
  /\ Retiring /\ move.from \in exists
  /\ grants' = [grants EXCEPT ![move.from].status = "pending"]
  /\ todo' = todo \ {move.from}
  /\ move' = NoMove
  /\ UNCHANGED <<jellyfin, job, plan, drifted, budget>>

\* Nothing stays: the deleted item's tag is cleared from the policies first.
ClearPolicies ==
  /\ Retiring /\ move.from \notin exists /\ move.whole
  /\ plan' = PlanContext("retire", {move.from}, Inactive(move.from))
  /\ UNCHANGED <<store, jellyfin, job, todo, move, drifted, budget>>

\* retireMovedGrant: the source goes, or keeps who could not be moved.
RetireMovedGrant ==
  /\ \/ plan.kind = "retire" /\ Written
     \/ Retiring /\ move.from \notin exists /\ ~move.whole
  /\ grants' = [grants EXCEPT ![move.from] =
       IF move.whole THEN NoGrant
       ELSE [status |-> "orphaned", active |-> TRUE, owners |-> move.rest]]
  /\ drifted' = IF move.whole THEN drifted \ ({move.from} \ plan.stale) ELSE drifted
  /\ todo' = todo \ {move.from}
  /\ plan' = NoPlan
  /\ move' = NoMove
  /\ UNCHANGED <<jellyfin, job, budget>>

-----------------------------------------------------------------------------
(* Time, restarts and everybody else *)

\* nextRetryAt passes.
RetryDue(i) ==
  /\ grants[i].status = "error"
  /\ grants' = [grants EXCEPT ![i].status = "retry"]
  /\ UNCHANGED <<jellyfin, queue, drifted, budget>>

\* A crash, or a shutdown's abort: no further call or write; the store is kept.
Restart ==
  /\ ~Idle
  /\ Spend("failures", MaxFailures)
  /\ job' = "idle" /\ todo' = {} /\ plan' = NoPlan /\ move' = NoMove
  /\ UNCHANGED <<store, jellyfin, drifted>>

\* Somebody else changed what the items `is` look like in Jellyfin.
Edited(is) ==
  /\ Spend("edits", MaxEdits)
  /\ drifted' = drifted \cup is
  /\ plan' = [plan EXCEPT !.stale = @ \cup (is \cap plan.items)]
  /\ UNCHANGED <<store, job, todo, move>>

UserCreated(u) ==
  /\ u \notin users
  /\ users' = users \cup {u}
  /\ blocked' = [blocked EXCEPT ![u] = {}]
  /\ Edited(Item)
  /\ UNCHANGED <<exists, tagged>>

UserDeleted(u) ==
  /\ u \in users
  /\ users' = users \ {u}
  /\ blocked' = [blocked EXCEPT ![u] = {}]
  /\ Edited({})
  /\ UNCHANGED <<exists, tagged>>

PolicyEdited(u, i) ==
  /\ u \in users
  /\ blocked' = [blocked EXCEPT ![u] = IF i \in @ THEN @ \ {i} ELSE @ \cup {i}]
  /\ Edited({i})
  /\ UNCHANGED <<exists, tagged, users>>

ItemDeleted(i) ==
  /\ i \in exists
  /\ exists' = exists \ {i}
  /\ tagged' = tagged \ {i}
  /\ Edited({})
  /\ UNCHANGED <<users, blocked>>

\* A deleted item is scanned again under its ID, without its tags.
ItemReappears(i) ==
  /\ i \notin exists
  /\ exists' = exists \cup {i}
  /\ Edited({i})
  /\ UNCHANGED <<tagged, users, blocked>>

Turns ==
  \/ \E is \in SUBSET Item \ {{}}, owners \in SUBSET User :
       \/ \E active \in BOOLEAN, kind \in {"change", "full"} : Change(is, owners, active, kind)
       \/ BulkChange(is, owners)
  \/ \E u \in User, is \in SUBSET Item : CreateMember(u, is)
  \/ \E i, t \in Item : \E carried \in SUBSET grants[i].owners : RemapGrant(i, t, carried)
  \/ Full
Plans == \/ \E i \in Item : Skip(i) \/ BuildPlan(i) \/ RefusePlan(i) \/ MarkOrphaned(i)
         \/ \E i, t \in Item, whole \in BOOLEAN : \E carried \in SUBSET grants[i].owners :
              RecoverMissingItem(i, t, carried, whole)
Writes == \/ \E i \in Item : WriteTag(i)
          \/ \E u \in User : WritePolicy(u)
          \/ WriteMissing
Outcomes == MarkSyncSuccess \/ Purge \/ KeepReappearedSource \/ ClearPolicies
              \/ RetireMovedGrant \/ Finish

\* What the queue does next while every call is answered.
Work == Plans \/ Writes \/ Outcomes
Others == \/ \E u \in User : UserCreated(u) \/ UserDeleted(u) \/ \E i \in Item : PolicyEdited(u, i)
          \/ \E i \in Item : ItemDeleted(i) \/ ItemReappears(i)

Next == Turns \/ Scheduled \/ Work \/ (\E i \in Item : RetryDue(i)) \/ ReadFails \/ WriteFails \/ Restart \/ Others

Spec == Init /\ [][Next]_vars

\* The timer fires again and again, a retry comes due, and the queue's job goes on:
\* every call has a timeout, so each is answered or fails.
Fairness ==
  /\ WF_vars(Scheduled)
  /\ WF_vars(Work)
  /\ \A i \in Item : WF_vars(RetryDue(i))

FairSpec == Spec /\ Fairness

-----------------------------------------------------------------------------
(* Properties *)

TypeOK ==
  /\ grants \in [Item -> Grant]
  /\ exists \subseteq Item /\ tagged \subseteq exists
  /\ users \subseteq User
  /\ blocked \in [User -> SUBSET Item]
  /\ job \in Job
  /\ todo \subseteq Item
  /\ plan.kind \in PlanKind /\ plan.items \subseteq Item
  /\ plan.tags \subseteq plan.items /\ DOMAIN plan.policies \subseteq User
  /\ \A u \in DOMAIN plan.policies : plan.policies[u] \subseteq Item
  /\ move = NoMove \/ (move.from \in Item /\ move.to \in Item /\ move.from # move.to)
  /\ drifted \subseteq Item
  /\ budget \in [{"changes", "edits", "failures"} -> Nat]

\* Jellyfin shows the item to its owners and to no other user.
Enforced(i) ==
  /\ i \in tagged
  /\ \A u \in users : i \in blocked[u] <=> u \notin grants[i].owners

\* Jellyfin keeps nothing of a private title.
Cleared(i) == i \notin tagged /\ \A u \in users : i \notin blocked[u]

\* A grant shown as synced is in force, whatever calls failed before, whatever jobs and
\* crashes came between, unless somebody else changed Jellyfin since.
SyncedIsEnforced == \A i \in Item :
  grants[i].status = "synced" /\ grants[i].active /\ i \in exists \ drifted => Enforced(i)

\* A tag does not outlive its grant: a title whose grant is gone is blocked for nobody.
NoLeftTags == \A i \in Item : ~Stored(i) /\ i \notin drifted => Cleared(i)

\* What the grants say is in force is in force in Jellyfin, and what is gone left nothing there.
JellyfinAgrees == TypeOK /\ SyncedIsEnforced /\ NoLeftTags

\* JellyPass takes a title's tag off a user's policy only for an owner, a title that is
\* no longer private or one that moved, though it writes whole policies read earlier.
UnblocksOwnersOnly == [][budget'.edits = budget.edits /\ users' = users =>
  \A u \in users : \A i \in (blocked[u] \ blocked'[u]) \ drifted :
    u \in grants[i].owners \/ ~grants[i].active \/ move.from = i]_vars

\* A moved grant leaves its source only when the target that has its owners now is
\* in force (remapGrant: "removed only after the merged grant has been stored and applied").
MovedWhenApplied == [][\A i \in Item :
  Stored(i) /\ grants[i].active /\ ~Stored(i)' =>
    /\ move.from = i
    /\ move.to \in exists \ drifted => Enforced(move.to)]_vars

\* What is private stays private while grants are applied, moved and cleared, call by call.
StaysPrivate == UnblocksOwnersOnly /\ MovedWhenApplied

\* While nobody else interferes any more, scheduled runs repair every grant that could be
\* (server-reference.md: "Reconciliation restores JellyPass-owned blocked tags").
Repairable(i) == i \in exists /\ grants[i].status # "orphaned" /\ grants[i].owners \subseteq users
Repaired(i) == grants[i].active /\ Repairable(i) => Enforced(i)

\* And a grant that gives nobody access any more is cleared from Jellyfin and purged.
Converges == \A i \in Item : <>[](Repaired(i) /\ (Stored(i) => grants[i].active))
=============================================================================
