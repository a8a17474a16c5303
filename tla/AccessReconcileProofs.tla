------------------------- MODULE AccessReconcileProofs -------------------------
(***************************************************************************)
(* AccessReconcile's safety for any items and users, and any number of     *)
(* changes, edits and failures.                                            *)
(***************************************************************************)
EXTENDS AccessReconcile, TLAPS

-----------------------------------------------------------------------------
(* The inductive invariant *)

PlanType ==
  [kind : PlanKind, items : SUBSET Item, active : BOOLEAN, tags : SUBSET Item,
   policies : UNION {[D -> SUBSET Item] : D \in SUBSET User}, stale : SUBSET Item]

MoveType ==
  [from : Item \cup {NoItem}, to : Item \cup {NoItem}, applied : BOOLEAN, whole : BOOLEAN, rest : SUBSET User]

TypeInv ==
  /\ grants \in [Item -> Grant]
  /\ exists \subseteq Item /\ tagged \subseteq exists
  /\ users \subseteq User
  /\ blocked \in [User -> SUBSET Item]
  /\ job \in Job /\ todo \subseteq Item
  /\ plan \in PlanType /\ plan.tags \subseteq plan.items
  /\ move \in MoveType
  /\ drifted \subseteq Item
  /\ budget \in [{"changes", "edits", "failures"} -> Nat]

Planning == plan.kind \in {"grant", "bulk", "retire"}

\* What the plan makes of its items: a grant that is retired is applied as inactive.
Shown(i) == plan.kind # "retire" /\ grants[i].active
Hidden(i, u) == Shown(i) /\ u \notin grants[i].owners

\* Nothing runs between the queue's jobs, and nothing is left to write when there is no plan.
QueueInv ==
  /\ Idle => plan.kind = "none" /\ move = NoMove /\ todo = {}
  /\ plan.kind = "none" => plan.items = {} /\ plan.tags = {}
  /\ ~Planning => DOMAIN plan.policies = {} /\ plan.tags = {}
  /\ plan.kind \in {"grant", "bulk"} => \A i \in plan.items : Stored(i)
  /\ plan.kind = "retire" => plan.items = {move.from} /\ move # NoMove /\ move.whole /\ move.applied /\ plan.tags = {}

\* An item nobody else changed since its plan was made: its tag is right or still to be written,
\* and so is each user's policy.
Planned(i) ==
  /\ i \in exists /\ i \notin plan.tags => (i \in tagged <=> Shown(i))
  /\ \A u \in users \ DOMAIN plan.policies : i \in blocked[u] <=> Hidden(i, u)
  /\ \A u \in users \cap DOMAIN plan.policies : i \in plan.policies[u] <=> Hidden(i, u)

PlanInv ==
  /\ plan.stale \subseteq drifted
  /\ Planning => \A i \in plan.items : (plan.active <=> Shown(i)) /\ (i \notin plan.stale => Planned(i))
  /\ \A u \in users \cap DOMAIN plan.policies : \A j \in Item \ (plan.items \cup drifted) :
       j \in plan.policies[u] <=> j \in blocked[u]
  /\ plan.kind = "purge" => \A i \in plan.items : ~grants[i].active /\ (i \notin drifted => Cleared(i))
  /\ plan.kind = "retire" => \A i \in plan.items : i \in exists => i \in drifted

\* A move's target waits to be applied, or is in force; its source is kept until then.
MoveInv == move # NoMove =>
  /\ move.from \in Item /\ move.to \in Item /\ move.from # move.to
  /\ Stored(move.from) /\ Stored(move.to) /\ grants[move.to].active
  /\ plan.kind \in {"none", "grant", "retire"}
  /\ plan.kind = "grant" => plan.items = {move.to} /\ ~move.applied
  /\ move.applied => grants[move.to].status = "synced"

\* One item of JellyfinAgrees.
Agrees(i) ==
  /\ grants[i].status = "synced" /\ grants[i].active /\ i \in exists \ drifted => Enforced(i)
  /\ ~Stored(i) /\ i \notin drifted => Cleared(i)

AgreeInv == \A i \in Item : Agrees(i)

IInv == TypeInv /\ QueueInv /\ PlanInv /\ MoveInv /\ AgreeInv

-----------------------------------------------------------------------------
(* Data *)

\* No plan is a plan, with nothing in it.
LEMMA NoPlanType ==
  /\ NoPlan \in PlanType
  /\ NoPlan.kind = "none" /\ NoPlan.items = {} /\ NoPlan.tags = {} /\ DOMAIN NoPlan.policies = {} /\ NoPlan.stale = {}
<1> DEFINE none == [u \in {} |-> {}]
<1>1. DOMAIN none = {} /\ none \in [{} -> SUBSET Item]
  OBVIOUS
<1>2. none \in UNION {[D -> SUBSET Item] : D \in SUBSET User}
  BY <1>1
<1>3. NoPlan = [kind |-> "none", items |-> {}, active |-> FALSE, tags |-> {}, policies |-> none, stale |-> {}]
  BY DEF NoPlan
<1>. HIDE DEF none
<1>. QED
  BY <1>1, <1>2, <1>3 DEF PlanType, PlanKind

\* No move is a move, from and to no item.
LEMMA NoMoveType ==
  NoMove \in MoveType /\ NoMove.from \notin Item /\ NoMove.to \notin Item /\ ~NoMove.applied
<1>. QED
  BY NoItemAssumption DEF NoMove, MoveType

\* No grant is a grant, inactive and without a status.
LEMMA NoGrantType == NoGrant \in Grant /\ NoGrant.status = "none" /\ ~NoGrant.active
<1>. QED
  BY DEF NoGrant, Grant, Status

\* The status of a grant alone changes.
LEMMA StatusChanges ==
  ASSUME NEW g \in Grant, NEW s \in Status
  PROVE  /\ [g EXCEPT !.status = s] \in Grant
         /\ [g EXCEPT !.status = s].status = s
         /\ [g EXCEPT !.status = s].active = g.active
         /\ [g EXCEPT !.status = s].owners = g.owners
<1>. QED
  BY DEF Grant

\* The policies of a plan are sets of items for some users.
LEMMA PoliciesType ==
  ASSUME NEW p \in PlanType
  PROVE  /\ DOMAIN p.policies \subseteq User /\ p.policies \in [DOMAIN p.policies -> SUBSET Item]
         /\ \A u \in DOMAIN p.policies : p.policies[u] \subseteq Item
<1>1. p.policies \in UNION {[D -> SUBSET Item] : D \in SUBSET User}
  BY DEF PlanType
<1>2. PICK D \in SUBSET User : p.policies \in [D -> SUBSET Item]
  BY <1>1
<1>. QED
  BY <1>2

\* One field of a plan changes.
OnePlanField(p, q, field) ==
  /\ q \in PlanType
  /\ field # "kind" => q.kind = p.kind
  /\ field # "tags" => q.tags = p.tags
  /\ field # "policies" => q.policies = p.policies
  /\ field # "stale" => q.stale = p.stale
  /\ q.items = p.items /\ q.active = p.active

\* A plan changed in one field is a plan that differs in that field only.
LEMMA PlanChanges ==
  ASSUME NEW p \in PlanType
  PROVE  /\ \A s \in SUBSET Item : OnePlanField(p, [p EXCEPT !.tags = s], "tags") /\ [p EXCEPT !.tags = s].tags = s
         /\ \A s \in SUBSET Item : OnePlanField(p, [p EXCEPT !.stale = s], "stale") /\ [p EXCEPT !.stale = s].stale = s
         /\ \A k \in PlanKind : OnePlanField(p, [p EXCEPT !.kind = k], "kind") /\ [p EXCEPT !.kind = k].kind = k
         /\ \A f \in UNION {[D -> SUBSET Item] : D \in SUBSET User} :
              OnePlanField(p, [p EXCEPT !.policies = f], "policies") /\ [p EXCEPT !.policies = f].policies = f
<1>. HIDE DEF PlanKind
<1>1. \A s \in SUBSET Item : OnePlanField(p, [p EXCEPT !.tags = s], "tags") /\ [p EXCEPT !.tags = s].tags = s
  BY DEF OnePlanField, PlanType
<1>2. \A s \in SUBSET Item : OnePlanField(p, [p EXCEPT !.stale = s], "stale") /\ [p EXCEPT !.stale = s].stale = s
  BY DEF OnePlanField, PlanType
<1>3. \A k \in PlanKind : OnePlanField(p, [p EXCEPT !.kind = k], "kind") /\ [p EXCEPT !.kind = k].kind = k
  BY DEF OnePlanField, PlanType
<1>4. \A f \in UNION {[D -> SUBSET Item] : D \in SUBSET User} :
        OnePlanField(p, [p EXCEPT !.policies = f], "policies") /\ [p EXCEPT !.policies = f].policies = f
  BY DEF OnePlanField, PlanType
<1>. QED
  BY <1>1, <1>2, <1>3, <1>4

\* What a plan made of these grants says, now.
Says(p, kind, items, gs) ==
  /\ p.kind = kind /\ p.items = items /\ p.stale = {}
  /\ p.active <=> \E i \in items : gs[i].active
  /\ p.tags = {i \in items \cap exists : (i \in tagged) # gs[i].active}
  /\ DOMAIN p.policies \subseteq users
  /\ \A u \in DOMAIN p.policies : \A j \in Item :
       j \in p.policies[u] <=> IF j \in items THEN gs[j].active /\ u \notin gs[j].owners ELSE j \in blocked[u]
  /\ \A u \in users \ DOMAIN p.policies : \A i \in items :
       i \in blocked[u] <=> gs[i].active /\ u \notin gs[i].owners

\* What a new plan says of items and policies is what the code computes for them.
LEMMA PlanContextSays ==
  ASSUME TypeInv, NEW kind \in PlanKind, NEW items \in SUBSET Item, NEW gs
  PROVE  LET p == PlanContext(kind, items, gs) IN p \in PlanType /\ Says(p, kind, items, gs)
<1> DEFINE after(u) == (blocked[u] \ items) \cup {i \in items : gs[i].active /\ u \notin gs[i].owners}
           written == {u \in users : after(u) # blocked[u]}
           policies == [u \in written |-> after(u)]
           active == \E i \in items : gs[i].active
           tags == {i \in items \cap exists : (i \in tagged) # gs[i].active}
           p == PlanContext(kind, items, gs)
<1>1. p = [kind |-> kind, items |-> items, active |-> active, tags |-> tags, policies |-> policies, stale |-> {}]
  BY DEF PlanContext
<1>2. \A u \in users : after(u) \in SUBSET Item
  BY DEF TypeInv
<1>3. DOMAIN policies = written /\ written \subseteq users /\ users \subseteq User
  BY DEF TypeInv
<1>4. policies \in [written -> SUBSET Item] /\ \A u \in written : policies[u] = after(u)
  BY <1>2
<1>5. policies \in UNION {[D -> SUBSET Item] : D \in SUBSET User}
  BY <1>3, <1>4
<1>6. \A u \in written : \A j \in Item :
        j \in policies[u] <=> IF j \in items THEN gs[j].active /\ u \notin gs[j].owners ELSE j \in blocked[u]
  BY <1>4
<1>7. \A u \in users \ written : \A i \in items : i \in blocked[u] <=> gs[i].active /\ u \notin gs[i].owners
  OBVIOUS
<1>8. tags \in SUBSET Item /\ active \in BOOLEAN
  OBVIOUS
<1>. HIDE DEF policies, active, written, tags, PlanKind
<1>9. p \in PlanType
  BY <1>1, <1>5, <1>8 DEF PlanType
<1>10. /\ p.kind = kind /\ p.items = items /\ p.stale = {} /\ p.policies = policies /\ p.tags = tags
       /\ p.active = active
  BY <1>1
<1>11. Says(p, kind, items, gs)
  <2>. HIDE DEF p
  <2>1. p.active <=> \E i \in items : gs[i].active
    BY <1>10 DEF active
  <2>2. p.tags = {i \in items \cap exists : (i \in tagged) # gs[i].active}
    BY <1>10 DEF tags
  <2>3. DOMAIN p.policies \subseteq users
    BY <1>3, <1>10
  <2>. QED
    BY <1>3, <1>6, <1>7, <1>10, <2>1, <2>2, <2>3 DEF Says
<1>. QED
  BY <1>9, <1>11

-----------------------------------------------------------------------------
(* What Jellyfin shows *)

\* The grants as they are agree with what Jellyfin shows next.
StillAgrees(i) ==
  /\ grants[i].status = "synced" /\ grants[i].active /\ i \in exists' \ drifted' =>
       i \in tagged' /\ \A u \in users' : i \in blocked'[u] <=> u \notin grants[i].owners
  /\ ~Stored(i) /\ i \notin drifted' => Cleared(i)'

\* Where neither Jellyfin nor what others changed moves, items that agreed agree still.
LEMMA AgreesStill == AgreeInv /\ UNCHANGED <<jellyfin, drifted>> => \A i \in Item : StillAgrees(i)
<1>. QED
  BY DEF AgreeInv, Agrees, Enforced, Cleared, StillAgrees, jellyfin

\* No grant is newly synced, and none is newly gone.
NoneSynced(i) ==
  /\ grants'[i].status = "synced" /\ grants'[i].active =>
       grants[i].status = "synced" /\ grants[i].active /\ grants'[i].owners = grants[i].owners
  /\ Stored(i) => Stored(i)'

\* Synced grants stay in force when no grant becomes synced and items that agreed agree still.
LEMMA AgreeStays ==
  ASSUME \A i \in Item : StillAgrees(i) /\ NoneSynced(i)
  PROVE  AgreeInv'
<1> SUFFICES ASSUME NEW i \in Item PROVE Agrees(i)'
  BY DEF AgreeInv
<1>1. StillAgrees(i) /\ NoneSynced(i)
  OBVIOUS
<1>. QED
  BY <1>1 DEF Agrees, Enforced, StillAgrees, NoneSynced, Stored

-----------------------------------------------------------------------------
(* Plans *)

\* Without a plan there is nothing to keep of one.
LEMMA NoPlanLeft ==
  ASSUME plan' = NoPlan
  PROVE  /\ PlanInv' /\ plan' \in PlanType /\ plan'.tags \subseteq plan'.items /\ plan'.kind = "none"
         /\ plan'.items = {} /\ plan'.tags = {} /\ DOMAIN plan'.policies = {}
<1>1. /\ plan' \in PlanType /\ plan'.kind = "none" /\ plan'.items = {} /\ plan'.tags = {}
      /\ DOMAIN plan'.policies = {} /\ plan'.stale = {}
  BY NoPlanType
<1>2. PlanInv'
  BY <1>1 DEF PlanInv, Planning
<1>. QED
  BY <1>1, <1>2

\* A plan just made is right about what it read.
LEMMA FreshPlan ==
  ASSUME TypeInv, NEW kind \in {"grant", "bulk", "retire"}, NEW items \in SUBSET Item, NEW gs,
         plan' = PlanContext(kind, items, gs), UNCHANGED <<jellyfin, drifted>>,
         \A i \in items : /\ gs[i].active <=> kind # "retire" /\ grants'[i].active
                          /\ gs[i].owners = grants'[i].owners,
         \A i, j \in items : gs[i].active <=> gs[j].active,
         kind = "retire" => items \cap exists = {}
  PROVE  /\ PlanInv' /\ plan' \in PlanType /\ plan'.tags \subseteq plan'.items
         /\ plan'.kind = kind /\ plan'.items = items
         /\ kind = "retire" => plan'.tags = {}
<1>1. kind \in PlanKind
  BY DEF PlanKind
<1>2. plan' \in PlanType /\ Says(plan', kind, items, gs)
  BY <1>1, PlanContextSays
<1>3. /\ plan'.kind = kind /\ plan'.items = items /\ plan'.stale = {}
      /\ plan'.tags = {i \in items \cap exists : (i \in tagged) # gs[i].active}
  BY <1>2 DEF Says
<1>4. \A i \in items : plan'.active <=> gs[i].active
  BY <1>2 DEF Says
<1>5. exists' = exists /\ tagged' = tagged /\ users' = users /\ blocked' = blocked /\ drifted' = drifted
  BY DEF jellyfin
<1>6. ASSUME NEW i \in items
      PROVE  /\ Shown(i)' <=> gs[i].active
             /\ \A u \in users : Hidden(i, u)' <=> gs[i].active /\ u \notin gs[i].owners
  BY <1>3 DEF Shown, Hidden
<1>7. ASSUME NEW i \in items PROVE Planned(i)'
  <2>1. i \in exists /\ i \notin plan'.tags => (i \in tagged <=> Shown(i)')
    BY <1>3, <1>6
  <2>2. i \in Item
    OBVIOUS
  <2>3. \A u \in users \ DOMAIN plan'.policies : i \in blocked[u] <=> Hidden(i, u)'
    BY <1>2, <1>6 DEF Says
  <2>4. \A u \in users \cap DOMAIN plan'.policies : i \in plan'.policies[u] <=> Hidden(i, u)'
    BY <1>2, <1>6, <2>2 DEF Says
  <2>. QED
    BY <1>5, <2>1, <2>3, <2>4 DEF Planned
<1>8. ASSUME NEW u \in users \cap DOMAIN plan'.policies, NEW j \in Item \ (items \cup drifted)
      PROVE  j \in plan'.policies[u] <=> j \in blocked[u]
  BY <1>2 DEF Says
<1>9. \A i \in items : kind = "retire" => i \notin exists
  OBVIOUS
<1>10. PlanInv'
  BY <1>3, <1>4, <1>5, <1>6, <1>7, <1>8, <1>9 DEF PlanInv, Planning
<1>. QED
  BY <1>2, <1>3, <1>10

-----------------------------------------------------------------------------
(* Writes *)

\* A planned tag is written.
TagWritten(i) == tagged' = IF plan.active THEN tagged \cup {i} ELSE tagged \ {i}

\* Writing a planned tag takes nothing from the agreement of any item.
LEMMA TagAgrees ==
  ASSUME IInv, NEW i \in Item, i \in plan.tags, i \in exists, TagWritten(i), UNCHANGED <<exists, users, blocked, drifted>>
  PROVE  \A j \in Item : StillAgrees(j)
<1>1. Planning /\ i \in plan.items /\ plan.kind # "retire"
  BY DEF IInv, QueueInv, TypeInv
<1>2. plan.active <=> grants[i].active
  BY <1>1 DEF IInv, PlanInv, Shown
<1>3. Stored(i)
  BY <1>1 DEF IInv, QueueInv, Planning
<1> SUFFICES ASSUME NEW j \in Item PROVE StillAgrees(j)
  OBVIOUS
<1>4. Agrees(j)
  BY DEF IInv, AgreeInv
<1>5. CASE j = i
  BY <1>2, <1>3, <1>4, <1>5 DEF TagWritten, StillAgrees, Agrees, Enforced
<1>6. CASE j # i
  BY <1>4, <1>6 DEF TagWritten, StillAgrees, Agrees, Enforced, Cleared
<1>. QED
  BY <1>5, <1>6

\* A planned policy is written.
PolicyWritten(u) == blocked' = [blocked EXCEPT ![u] = plan.policies[u]]

\* Writing a planned policy takes nothing from the agreement of any item.
LEMMA PolicyAgrees ==
  ASSUME IInv, NEW u \in User, u \in DOMAIN plan.policies \cap users, PolicyWritten(u),
         UNCHANGED <<exists, tagged, users, drifted>>
  PROVE  \A j \in Item : StillAgrees(j)
<1>1. Planning
  BY DEF IInv, QueueInv
<1>2. blocked'[u] = plan.policies[u] /\ \A x \in User \ {u} : blocked'[x] = blocked[x]
  BY DEF PolicyWritten, IInv, TypeInv
<1> SUFFICES ASSUME NEW j \in Item PROVE StillAgrees(j)
  OBVIOUS
<1>3. Agrees(j) /\ users \subseteq User
  BY DEF IInv, AgreeInv, TypeInv
<1>4. CASE j \in drifted
  BY <1>4 DEF StillAgrees
<1>5. CASE j \notin drifted /\ j \notin plan.items
  <2>1. j \in plan.policies[u] <=> j \in blocked[u]
    BY <1>5 DEF IInv, PlanInv
  <2>2. \A x \in users : j \in blocked'[x] <=> j \in blocked[x]
    BY <1>2, <1>3, <2>1
  <2>. QED
    BY <1>3, <2>2 DEF StillAgrees, Agrees, Enforced, Cleared
<1>6. CASE j \notin drifted /\ j \in plan.items
  <2>1. Planned(j)
    BY <1>1, <1>6 DEF IInv, PlanInv
  <2>2. j \in plan.policies[u] <=> Hidden(j, u)
    BY <2>1 DEF Planned
  <2>3. CASE plan.kind = "retire"
    <3>1. Stored(j) /\ j \notin exists
      BY <1>6, <2>3 DEF IInv, QueueInv, MoveInv, PlanInv
    <3>. QED
      BY <3>1 DEF StillAgrees
  <2>4. CASE plan.kind # "retire"
    <3>1. Stored(j)
      BY <1>1, <1>6, <2>4 DEF IInv, QueueInv, Planning
    <3>2. grants[j].active => (j \in plan.policies[u] <=> u \notin grants[j].owners)
      BY <2>2, <2>4 DEF Hidden, Shown
    <3>3. \A x \in users : x = u \/ blocked'[x] = blocked[x]
      BY <1>2, <1>3
    <3>. QED
      BY <1>2, <1>3, <3>1, <3>2, <3>3 DEF StillAgrees, Agrees, Enforced
  <2>. QED
    BY <2>3, <2>4
<1>. QED
  BY <1>4, <1>5, <1>6

\* The write of a tag keeps the invariant.
LEMMA WriteTagKeeps == ASSUME IInv, NEW i \in Item, WriteTag(i) PROVE IInv'
<1>1. /\ i \in plan.tags /\ i \in exists /\ TagWritten(i)
      /\ plan' = [plan EXCEPT !.tags = plan.tags \ {i}]
      /\ UNCHANGED <<grants, exists, users, blocked, job, todo, move, drifted, budget>>
  BY DEF WriteTag, TagWritten, store
<1>2. plan \in PlanType /\ plan.tags \ {i} \in SUBSET Item
  BY DEF IInv, TypeInv, PlanType
<1>3. OnePlanField(plan, plan', "tags") /\ plan'.tags = plan.tags \ {i}
  BY <1>1, <1>2, PlanChanges
<1>4. /\ plan' \in PlanType /\ plan'.kind = plan.kind /\ plan'.items = plan.items /\ plan'.active = plan.active
      /\ plan'.policies = plan.policies /\ plan'.stale = plan.stale
  BY <1>3 DEF OnePlanField
<1>5. AgreeInv'
  <2>1. \A j \in Item : NoneSynced(j)
    BY <1>1 DEF NoneSynced, Stored
  <2>. QED
    BY <2>1, <1>1, TagAgrees, AgreeStays
<1>6. TypeInv'
  BY <1>1, <1>3, <1>4 DEF IInv, TypeInv, TagWritten
<1>7. QueueInv'
  BY <1>1, <1>3, <1>4 DEF IInv, QueueInv, Planning, Idle, Stored
<1>8. MoveInv'
  BY <1>1, <1>4 DEF IInv, MoveInv, Stored
<1>9. Planning /\ i \in plan.items /\ (plan.active <=> Shown(i))
  BY <1>1 DEF IInv, QueueInv, PlanInv, TypeInv
<1>10. \A j \in Item : (Shown(j)' <=> Shown(j)) /\ \A u \in User : Hidden(j, u)' <=> Hidden(j, u)
  BY <1>1, <1>4 DEF Shown, Hidden
<1>11. ASSUME NEW j \in Item, Planned(j), j \in plan.items PROVE Planned(j)'
  <2>1. j \in exists' /\ j \notin plan'.tags => (j \in tagged' <=> Shown(j)')
    <3>1. CASE j = i
      BY <3>1, <1>1, <1>9, <1>10 DEF TagWritten
    <3>2. CASE j # i
      BY <3>2, <1>1, <1>3, <1>10, <1>11 DEF TagWritten, Planned
    <3>. QED
      BY <3>1, <3>2
  <2>2. users \subseteq User
    BY DEF IInv, TypeInv
  <2>. QED
    BY <2>1, <2>2, <1>1, <1>4, <1>10, <1>11 DEF Planned
<1>12. PlanInv'
  <2>1. plan.items \subseteq Item
    BY DEF IInv, TypeInv, PlanType
  <2>2. \A j \in plan.items : (plan'.active <=> Shown(j)') /\ (j \notin plan'.stale => Planned(j)')
    BY <2>1, <1>4, <1>9, <1>10, <1>11 DEF IInv, PlanInv
  <2>. QED
    BY <2>2, <1>1, <1>4, <1>9 DEF IInv, PlanInv, Planning
<1>. QED
  BY <1>5, <1>6, <1>7, <1>8, <1>12 DEF IInv

\* The write of a policy keeps the invariant.
LEMMA WritePolicyKeeps == ASSUME IInv, NEW u \in User, WritePolicy(u) PROVE IInv'
<1> DEFINE left == [x \in DOMAIN plan.policies \ {u} |-> plan.policies[x]]
<1>1. /\ u \in DOMAIN plan.policies /\ u \in users /\ PolicyWritten(u)
      /\ plan' = [plan EXCEPT !.policies = left]
      /\ UNCHANGED <<grants, exists, tagged, users, job, todo, move, drifted, budget>>
  BY DEF WritePolicy, PolicyWritten, store
<1>2. plan \in PlanType
  BY DEF IInv, TypeInv
<1>3. /\ DOMAIN plan.policies \subseteq User
      /\ \A x \in DOMAIN plan.policies : plan.policies[x] \subseteq Item
  BY <1>2, PoliciesType
<1>4. /\ DOMAIN left = DOMAIN plan.policies \ {u}
      /\ \A x \in DOMAIN left : left[x] = plan.policies[x]
      /\ left \in [DOMAIN plan.policies \ {u} -> SUBSET Item]
  BY <1>3
<1>5. left \in UNION {[D -> SUBSET Item] : D \in SUBSET User}
  BY <1>3, <1>4
<1>. HIDE DEF left
<1>6. OnePlanField(plan, plan', "policies") /\ plan'.policies = left
  BY <1>1, <1>2, <1>5, PlanChanges
<1>7. /\ plan' \in PlanType /\ plan'.kind = plan.kind /\ plan'.items = plan.items /\ plan'.active = plan.active
      /\ plan'.tags = plan.tags /\ plan'.stale = plan.stale
  BY <1>6 DEF OnePlanField
<1>8. AgreeInv'
  <2>1. \A j \in Item : NoneSynced(j)
    BY <1>1 DEF NoneSynced, Stored
  <2>. QED
    BY <2>1, <1>1, PolicyAgrees, AgreeStays
<1>9. Planning /\ users \subseteq User
  BY <1>1 DEF IInv, QueueInv, TypeInv
<1>10. blocked'[u] = plan.policies[u] /\ \A x \in User \ {u} : blocked'[x] = blocked[x]
  BY <1>1 DEF PolicyWritten, IInv, TypeInv
<1>11. blocked' \in [User -> SUBSET Item]
  BY <1>1, <1>3 DEF PolicyWritten, IInv, TypeInv
<1>12. TypeInv'
  BY <1>1, <1>7, <1>11 DEF IInv, TypeInv
<1>13. QueueInv'
  BY <1>1, <1>7, <1>9 DEF IInv, QueueInv, Planning, Idle, Stored
<1>14. MoveInv'
  BY <1>1, <1>7 DEF IInv, MoveInv, Stored
<1>15. \A j \in Item : (Shown(j)' <=> Shown(j)) /\ \A x \in User : Hidden(j, x)' <=> Hidden(j, x)
  BY <1>1, <1>7 DEF Shown, Hidden
<1>16. ASSUME NEW j \in Item, Planned(j) PROVE Planned(j)'
  <2>1. ASSUME NEW x \in users, x \notin DOMAIN plan'.policies PROVE j \in blocked'[x] <=> Hidden(j, x)'
    <3>1. CASE x = u
      BY <3>1, <1>1, <1>10, <1>15, <1>16 DEF Planned
    <3>2. CASE x # u
      BY <3>2, <2>1, <1>4, <1>6, <1>9, <1>10, <1>15, <1>16 DEF Planned
    <3>. QED
      BY <3>1, <3>2
  <2>2. ASSUME NEW x \in users, x \in DOMAIN plan'.policies PROVE j \in plan'.policies[x] <=> Hidden(j, x)'
    BY <2>2, <1>4, <1>6, <1>9, <1>15, <1>16 DEF Planned
  <2>. QED
    BY <2>1, <2>2, <1>1, <1>7, <1>15, <1>16 DEF Planned
<1>17. ASSUME NEW x \in users' \cap DOMAIN plan'.policies, NEW j \in Item \ (plan'.items \cup drifted')
       PROVE  j \in plan'.policies[x] <=> j \in blocked'[x]
  BY <1>1, <1>4, <1>6, <1>7, <1>9, <1>10 DEF IInv, PlanInv
<1>18. PlanInv'
  <2>1. plan.items \subseteq Item
    BY <1>2 DEF PlanType
  <2>2. \A j \in plan.items : (plan'.active <=> Shown(j)') /\ (j \notin plan'.stale => Planned(j)')
    BY <2>1, <1>7, <1>9, <1>15, <1>16 DEF IInv, PlanInv
  <2>. QED
    BY <2>2, <1>1, <1>7, <1>9, <1>17 DEF IInv, PlanInv, Planning
<1>. QED
  BY <1>8, <1>12, <1>13, <1>14, <1>18 DEF IInv

-----------------------------------------------------------------------------
(* A step that throws *)

\* A failed job, whatever it left in Jellyfin, keeps the invariant as long as items that agreed agree
\* still.
LEMMA FailedKeeps ==
  ASSUME IInv, NEW is, NEW i, Failed(is, i), \A j \in Item : StillAgrees(j),
         exists' \subseteq Item, tagged' \subseteq exists', users' \subseteq User,
         blocked' \in [User -> SUBSET Item], budget' \in [{"changes", "edits", "failures"} -> Nat]
  PROVE  IInv'
<1>1. plan' = NoPlan /\ move' = NoMove /\ UNCHANGED <<job, drifted>> /\ todo' \subseteq todo
  BY DEF Failed
<1>2. ASSUME NEW g \in Item
      PROVE  \/ grants'[g] = grants[g]
             \/ /\ grants'[g] \in Grant /\ grants'[g].status = "error"
  <2>1. grants[g] \in Grant /\ "error" \in Status
    BY DEF IInv, TypeInv, Status
  <2>2. [grants[g] EXCEPT !.status = "error"] \in Grant /\ [grants[g] EXCEPT !.status = "error"].status = "error"
    BY <2>1, StatusChanges
  <2>. QED
    BY <2>2 DEF Failed
<1>3. grants' \in [Item -> Grant]
  <2>1. \A g \in Item : grants'[g] \in Grant
    BY <1>2 DEF IInv, TypeInv
  <2>. QED
    BY <2>1 DEF Failed
<1>4. \A g \in Item : NoneSynced(g)
  BY <1>2 DEF NoneSynced, Stored
<1>5. AgreeInv'
  BY <1>4, AgreeStays
<1>6. TypeInv'
  BY <1>1, <1>3, NoPlanLeft, NoMoveType DEF IInv, TypeInv
<1>7. QueueInv' /\ MoveInv' /\ PlanInv'
  BY <1>1, NoPlanLeft DEF IInv, QueueInv, MoveInv, Idle, Planning
<1>. QED
  BY <1>5, <1>6, <1>7 DEF IInv

\* Jellyfin as it is, when a call is refused or a read fails.
LEMMA ThrownKeeps ==
  ASSUME IInv, NEW is, NEW i, Failed(is, i), UNCHANGED jellyfin,
         budget' \in [{"changes", "edits", "failures"} -> Nat]
  PROVE  IInv'
<1>1. \A j \in Item : StillAgrees(j)
  BY AgreesStill DEF IInv, Failed
<1>2. exists' \subseteq Item /\ tagged' \subseteq exists' /\ users' \subseteq User /\ blocked' \in [User -> SUBSET Item]
  BY DEF IInv, TypeInv, jellyfin
<1>. QED
  BY <1>1, <1>2, FailedKeeps

\* Spending one of a budget leaves it a number.
LEMMA Spending ==
  ASSUME TypeInv, NEW what \in {"changes", "edits", "failures"}, NEW max, Spend(what, max)
  PROVE  budget' \in [{"changes", "edits", "failures"} -> Nat] /\ budget'[what] = budget[what] + 1
<1>. QED
  BY DEF Spend, TypeInv

\* Reads and writes that fail keep the invariant.
LEMMA FailuresKeep ==
  ASSUME IInv, \/ \E i \in Item : RefusePlan(i)
               \/ WriteMissing \/ ReadFails \/ WriteFails
  PROVE  IInv'
<1>1. ASSUME NEW i \in Item, RefusePlan(i) PROVE IInv'
  <2>1. budget' \in [{"changes", "edits", "failures"} -> Nat]
    BY <1>1 DEF RefusePlan, IInv, TypeInv
  <2>. QED
    BY <1>1, <2>1, ThrownKeeps DEF RefusePlan
<1>2. ASSUME FailPlan PROVE \E is, i : Failed(is, i)
  BY <1>2 DEF FailPlan
<1>3. CASE WriteMissing
  <2>1. budget' \in [{"changes", "edits", "failures"} -> Nat]
    BY <1>3 DEF WriteMissing, IInv, TypeInv
  <2>. QED
    BY <1>2, <1>3, <2>1, ThrownKeeps DEF WriteMissing
<1>4. CASE ReadFails
  <2>1. budget' \in [{"changes", "edits", "failures"} -> Nat]
    BY <1>4, Spending DEF ReadFails, IInv
  <2>2. \E is, i : Failed(is, i)
    BY <1>4 DEF ReadFails
  <2>. QED
    BY <1>4, <2>1, <2>2, ThrownKeeps DEF ReadFails
<1>5. CASE WriteFails
  <2>1. budget' \in [{"changes", "edits", "failures"} -> Nat]
    BY <1>5, Spending DEF WriteFails, IInv
  <2>2. PICK is, i : Failed(is, i)
    BY <1>2, <1>5 DEF WriteFails
  <2>3. CASE UNCHANGED jellyfin
    BY <2>1, <2>2, <2>3, ThrownKeeps
  <2>4. ASSUME NEW j \in plan.tags \cap exists, TagWritten(j), UNCHANGED <<exists, users, blocked>> PROVE IInv'
    <3>1. j \in Item /\ exists' \subseteq Item /\ tagged' \subseteq exists' /\ users' \subseteq User
          /\ blocked' \in [User -> SUBSET Item]
      BY <2>4 DEF IInv, TypeInv, TagWritten
    <3>2. drifted' = drifted
      BY <2>2 DEF Failed
    <3>. QED
      BY <2>1, <2>2, <2>4, <3>1, <3>2, TagAgrees, FailedKeeps
  <2>5. ASSUME NEW u \in DOMAIN plan.policies \cap users, PolicyWritten(u), UNCHANGED <<exists, tagged, users>>
        PROVE  IInv'
    <3>1. plan.policies[u] \subseteq Item /\ u \in User
      BY PoliciesType DEF IInv, TypeInv
    <3>2. exists' \subseteq Item /\ tagged' \subseteq exists' /\ users' \subseteq User
          /\ blocked' \in [User -> SUBSET Item]
      BY <2>5, <3>1 DEF IInv, TypeInv, PolicyWritten
    <3>3. drifted' = drifted
      BY <2>2 DEF Failed
    <3>. QED
      BY <2>1, <2>2, <2>5, <3>1, <3>2, <3>3, PolicyAgrees, FailedKeeps
  <2>. QED
    BY <1>5, <2>3, <2>4, <2>5 DEF WriteFails, TagWritten, PolicyWritten
<1>. QED
  BY <1>1, <1>3, <1>4, <1>5

-----------------------------------------------------------------------------
(* The queue's turns *)

\* A job begins or goes on with no plan, and Jellyfin as it is.
LEMMA StoreStep ==
  ASSUME IInv, plan.kind = "none", UNCHANGED <<jellyfin, plan, drifted>>,
         \A i \in Item : grants'[i] \in Grant /\ NoneSynced(i), grants' = [i \in Item |-> grants'[i]],
         job' \in Job, todo' \subseteq Item, move' \in MoveType, MoveInv',
         job' = "idle" => move' = NoMove /\ todo' = {},
         budget' \in [{"changes", "edits", "failures"} -> Nat]
  PROVE  IInv'
<1>1. grants' \in [Item -> Grant]
  OBVIOUS
<1>2. TypeInv'
  BY <1>1 DEF IInv, TypeInv, jellyfin
<1>3. QueueInv'
  BY DEF IInv, QueueInv, Idle, Planning
<1>4. PlanInv'
  BY DEF IInv, PlanInv, QueueInv, Planning
<1>5. AgreeInv'
  BY AgreesStill, AgreeStays DEF IInv
<1>. QED
  BY <1>2, <1>3, <1>4, <1>5 DEF IInv

\* Grants that are written anew wait to be applied.
Renewed(is, owners, active) ==
  grants' = [i \in Item |-> IF i \notin is THEN grants[i]
                            ELSE [status |-> "pending", active |-> active, owners |-> owners]]

\* Grants given new owners are grants, none of them synced.
LEMMA RenewedGrants ==
  ASSUME TypeInv, NEW is, NEW owners \in SUBSET User, NEW active \in BOOLEAN, Renewed(is, owners, active)
  PROVE  /\ \A i \in Item : grants'[i] \in Grant /\ NoneSynced(i)
         /\ grants' = [i \in Item |-> grants'[i]] /\ grants' \in [Item -> Grant]
         /\ \A i \in Item \cap is : grants'[i].active = active /\ grants'[i].owners = owners /\ Stored(i)'
         /\ \A i \in Item \ is : grants'[i] = grants[i]
<1> DEFINE g == [status |-> "pending", active |-> active, owners |-> owners]
<1>1. g \in Grant /\ g.status = "pending" /\ g.active = active /\ g.owners = owners
  BY DEF Grant, Status
<1>2. \A i \in Item : grants'[i] = IF i \notin is THEN grants[i] ELSE g
  BY DEF Renewed
<1>3. grants' = [i \in Item |-> grants'[i]]
  BY DEF Renewed
<1>. HIDE DEF g
<1>4. \A i \in Item : grants'[i] \in Grant /\ NoneSynced(i)
  BY <1>1, <1>2 DEF TypeInv, NoneSynced, Stored
<1>5. \A i \in Item \cap is : grants'[i].active = active /\ grants'[i].owners = owners /\ Stored(i)'
  BY <1>1, <1>2 DEF Stored
<1>6. \A i \in Item \ is : grants'[i] = grants[i]
  BY <1>2
<1>7. grants' \in [Item -> Grant]
  BY <1>3, <1>4
<1>. QED
  BY <1>3, <1>4, <1>5, <1>6, <1>7

\* A change of grants by an administrator, a join or a webhook keeps the invariant.
LEMMA ChangeKeeps ==
  ASSUME IInv, NEW is \in SUBSET Item, NEW owners \in SUBSET User, NEW active \in BOOLEAN,
         NEW kind \in {"change", "full"}, Change(is, owners, active, kind)
  PROVE  IInv'
<1>1. plan.kind = "none" /\ move = NoMove /\ Renewed(is, owners, active)
      /\ job' = kind /\ todo' = is /\ UNCHANGED <<jellyfin, plan, move, drifted>>
  BY DEF Change, Renewed, IInv, QueueInv
<1>2. /\ \A i \in Item : grants'[i] \in Grant /\ NoneSynced(i)
      /\ grants' = [i \in Item |-> grants'[i]]
  BY <1>1, RenewedGrants DEF IInv
<1>3. budget' \in [{"changes", "edits", "failures"} -> Nat]
  BY Spending DEF Change, IInv
<1>4. MoveInv' /\ move' \in MoveType /\ job' \in Job /\ job' # "idle" /\ todo' \subseteq Item
  BY <1>1 DEF MoveInv, IInv, TypeInv, Job
<1>. QED
  BY <1>1, <1>2, <1>3, <1>4, StoreStep

\* A bulk change keeps the invariant.
LEMMA BulkChangeKeeps ==
  ASSUME IInv, NEW is \in SUBSET Item, NEW owners \in SUBSET User, BulkChange(is, owners)
  PROVE  IInv'
<1>1. /\ plan.kind = "none" /\ move = NoMove /\ Renewed(is, owners, TRUE)
      /\ job' = "bulk" /\ UNCHANGED <<jellyfin, todo, move, drifted>>
      /\ plan' = PlanContext("bulk", is, grants')
  BY DEF BulkChange, Renewed, IInv, QueueInv
<1>2. /\ \A i \in Item : grants'[i] \in Grant /\ NoneSynced(i)
      /\ grants' \in [Item -> Grant]
      /\ \A i \in is : grants'[i].active = TRUE /\ Stored(i)'
  BY <1>1, RenewedGrants DEF IInv
<1>3. budget' \in [{"changes", "edits", "failures"} -> Nat]
  BY Spending DEF BulkChange, IInv
<1>4. PICK gs : gs = grants'
  OBVIOUS
<1>5. plan' = PlanContext("bulk", is, gs)
  BY <1>1, <1>4
<1>6. \A i \in is : /\ gs[i].active <=> "bulk" # "retire" /\ grants'[i].active
                    /\ gs[i].owners = grants'[i].owners
  BY <1>4
<1>7. \A i, j \in is : gs[i].active <=> gs[j].active
  BY <1>2, <1>4
<1>8. PlanInv' /\ plan' \in PlanType /\ plan'.tags \subseteq plan'.items /\ plan'.kind = "bulk" /\ plan'.items = is
  BY <1>1, <1>5, <1>6, <1>7, FreshPlan DEF IInv
<1>9. AgreeInv'
  BY <1>1, <1>2, AgreesStill, AgreeStays DEF IInv
<1>10. TypeInv'
  BY <1>1, <1>2, <1>3, <1>8 DEF IInv, TypeInv, jellyfin, Job
<1>11. QueueInv' /\ MoveInv'
  BY <1>1, <1>2, <1>8 DEF QueueInv, MoveInv, Idle, Planning
<1>. QED
  BY <1>8, <1>9, <1>10, <1>11 DEF IInv

\* Creating a member, who gets what the household has, keeps the invariant.
LEMMA CreateMemberKeeps ==
  ASSUME IInv, NEW u \in User, NEW is \in SUBSET Item, CreateMember(u, is)
  PROVE  IInv'
<1>1. /\ plan.kind = "none" /\ move = NoMove /\ users' = users \cup {u} /\ blocked' = [blocked EXCEPT ![u] = {}]
      /\ grants' = [i \in Item |-> IF i \notin is THEN grants[i]
                                   ELSE [grants[i] EXCEPT !.status = "pending", !.owners = grants[i].owners \cup {u}]]
      /\ job' = "change" /\ todo' = is /\ drifted' = Item /\ UNCHANGED <<exists, tagged, plan, move>>
  BY DEF CreateMember, IInv, QueueInv
<1>2. ASSUME NEW i \in Item PROVE grants'[i] \in Grant
  <2> DEFINE g == [grants[i] EXCEPT !.status = "pending", !.owners = grants[i].owners \cup {u}]
  <2>1. grants[i] \in Grant
    BY DEF IInv, TypeInv
  <2>2. g \in Grant
    BY <2>1 DEF Grant, Status
  <2>3. grants'[i] = IF i \notin is THEN grants[i] ELSE g
    BY <1>1
  <2>. HIDE DEF g
  <2>. QED
    BY <2>1, <2>2, <2>3
<1>3. grants' \in [Item -> Grant]
  BY <1>1, <1>2
<1>4. budget' \in [{"changes", "edits", "failures"} -> Nat]
  BY Spending DEF CreateMember, IInv
<1>5. blocked' \in [User -> SUBSET Item]
  BY <1>1 DEF IInv, TypeInv
<1>6. TypeInv'
  BY <1>1, <1>3, <1>4, <1>5 DEF IInv, TypeInv, Job
<1>7. QueueInv' /\ MoveInv'
  BY <1>1 DEF IInv, QueueInv, MoveInv, Idle, Planning
<1>8. PlanInv'
  <2>1. plan.stale \subseteq Item
    BY DEF IInv, TypeInv, PlanType
  <2>. QED
    BY <1>1, <2>1 DEF IInv, PlanInv, QueueInv, Planning
<1>9. AgreeInv'
  BY <1>1 DEF AgreeInv, Agrees
<1>. QED
  BY <1>6, <1>7, <1>8, <1>9 DEF IInv

\* Nothing is stored: a run begins or ends, a grant is passed over, or everything stops.
LEMMA QueueKeeps ==
  ASSUME IInv, Scheduled \/ Full \/ Finish \/ \E i \in Item : Skip(i)
  PROVE  IInv'
<1>1. /\ plan.kind = "none" /\ UNCHANGED <<grants, jellyfin, plan, move, drifted>>
      /\ todo' \subseteq Item /\ job' \in Job /\ (job' = "idle" => move' = NoMove /\ todo' = {})
  BY NoPlanType DEF Scheduled, Full, Finish, Skip, IInv, QueueInv, TypeInv, Job, Idle, store
<1>2. budget' \in [{"changes", "edits", "failures"} -> Nat]
  BY Spending DEF Scheduled, Full, Finish, Skip, IInv, TypeInv
<1>3. \A i \in Item : grants'[i] \in Grant /\ NoneSynced(i)
  BY <1>1 DEF IInv, TypeInv, NoneSynced, Stored
<1>4. MoveInv' /\ move' \in MoveType /\ grants' = [i \in Item |-> grants'[i]]
  BY <1>1 DEF IInv, TypeInv, MoveInv, Stored
<1>. QED
  BY <1>1, <1>2, <1>3, <1>4, StoreStep

\* A restart, which loses the job and its plan, keeps the invariant.
LEMMA RestartKeeps == ASSUME IInv, Restart PROVE IInv'
<1>1. /\ job' = "idle" /\ todo' = {} /\ plan' = NoPlan /\ move' = NoMove
      /\ UNCHANGED <<grants, jellyfin, drifted>>
  BY DEF Restart, store
<1>2. budget' \in [{"changes", "edits", "failures"} -> Nat]
  BY Spending DEF Restart, IInv
<1>3. AgreeInv'
  BY <1>1 DEF IInv, AgreeInv, Agrees, Enforced, Cleared, Stored, jellyfin
<1>4. TypeInv'
  BY <1>1, <1>2, NoPlanLeft, NoMoveType DEF IInv, TypeInv, jellyfin, Job
<1>5. QueueInv' /\ MoveInv' /\ PlanInv'
  BY <1>1, NoPlanLeft DEF QueueInv, MoveInv, Planning
<1>. QED
  BY <1>3, <1>4, <1>5 DEF IInv

\* Planning keeps the invariant.
LEMMA BuildPlanKeeps == ASSUME IInv, NEW i \in Item, BuildPlan(i) PROVE IInv'
<1>1. /\ Turn(i) /\ plan' = PlanContext("grant", {i}, grants)
      /\ UNCHANGED <<grants, jellyfin, job, todo, move, drifted, budget>>
  BY DEF BuildPlan, store
<1>2. PlanInv' /\ plan' \in PlanType /\ plan'.tags \subseteq plan'.items /\ plan'.kind = "grant" /\ plan'.items = {i}
  <2>1. PICK gs : gs = grants
    OBVIOUS
  <2>2. \A j \in {i} : /\ gs[j].active <=> "grant" # "retire" /\ grants'[j].active
                       /\ gs[j].owners = grants'[j].owners
    BY <1>1, <2>1
  <2>3. \A j, k \in {i} : gs[j].active <=> gs[k].active
    OBVIOUS
  <2>4. plan' = PlanContext("grant", {i}, gs) /\ {i} \in SUBSET Item
    BY <1>1, <2>1
  <2>. QED
    BY <1>1, <2>2, <2>3, <2>4, FreshPlan DEF IInv
<1>3. Stored(i) /\ ~Idle /\ (move # NoMove => move.to = i /\ ~move.applied)
  BY <1>1, NoMoveType DEF Turn, IInv, QueueInv
<1>4. AgreeInv'
  <2>1. \A j \in Item : NoneSynced(j)
    BY <1>1 DEF NoneSynced, Stored
  <2>. QED
    BY <1>1, <2>1, AgreesStill, AgreeStays DEF IInv
<1>5. TypeInv'
  BY <1>1, <1>2 DEF IInv, TypeInv, jellyfin
<1>6. QueueInv'
  BY <1>1, <1>2, <1>3 DEF IInv, QueueInv, Idle, Planning, Stored
<1>7. MoveInv'
  BY <1>1, <1>2, <1>3 DEF IInv, MoveInv, Stored
<1>. QED
  BY <1>2, <1>4, <1>5, <1>6, <1>7 DEF IInv

\* One grant's status alone changes, while nothing is planned.
OneStatus(i, status) == grants' = [grants EXCEPT ![i].status = status]

\* A new status for one grant changes nothing else of any grant.
LEMMA OneStatusChanges ==
  ASSUME TypeInv, NEW i \in Item, NEW status \in Status \ {"none", "synced"}, OneStatus(i, status)
  PROVE  /\ \A j \in Item : grants'[j] \in Grant /\ NoneSynced(j)
         /\ grants' = [j \in Item |-> grants'[j]]
         /\ grants'[i].status = status
         /\ \A j \in Item : grants'[j].active = grants[j].active /\ grants'[j].owners = grants[j].owners
         /\ \A j \in Item \ {i} : grants'[j] = grants[j]
<1> DEFINE g == [grants[i] EXCEPT !.status = status]
<1>1. grants[i] \in Grant
  BY DEF TypeInv
<1>2. g \in Grant /\ g.status = status /\ g.active = grants[i].active /\ g.owners = grants[i].owners
  BY <1>1, StatusChanges
<1>3. grants' = [grants EXCEPT ![i] = g]
  BY DEF OneStatus
<1>. HIDE DEF g
<1>4. grants'[i] = g /\ \A j \in Item \ {i} : grants'[j] = grants[j]
  BY <1>3 DEF TypeInv
<1>5. grants' = [j \in Item |-> grants'[j]]
  BY <1>3 DEF TypeInv
<1>6. status \notin {"none", "synced"}
  OBVIOUS
<1>7. \A j \in Item : grants'[j] \in Grant /\ NoneSynced(j)
  BY <1>2, <1>4, <1>6 DEF TypeInv, NoneSynced, Stored
<1>8. \A j \in Item : grants'[j].active = grants[j].active /\ grants'[j].owners = grants[j].owners
  BY <1>2, <1>4
<1>. QED
  BY <1>2, <1>4, <1>5, <1>7, <1>8

\* Marking a grant whose item is gone keeps the invariant.
LEMMA MarkOrphanedKeeps == ASSUME IInv, NEW i \in Item, MarkOrphaned(i) PROVE IInv'
<1>1. /\ plan.kind = "none" /\ move = NoMove /\ OneStatus(i, "orphaned") /\ job # "idle"
      /\ todo' \subseteq Item /\ UNCHANGED <<jellyfin, job, plan, move, drifted, budget>>
  BY NoPlanType DEF MarkOrphaned, Turn, Recoverable, Recovers, OneStatus, IInv, TypeInv
<1>2. "orphaned" \in Status \ {"none", "synced"}
  BY DEF Status
<1>3. /\ \A j \in Item : grants'[j] \in Grant /\ NoneSynced(j)
      /\ grants' = [j \in Item |-> grants'[j]]
  BY <1>1, <1>2, OneStatusChanges DEF IInv
<1>4. MoveInv' /\ move' \in MoveType /\ job' \in Job
      /\ budget' \in [{"changes", "edits", "failures"} -> Nat]
  BY <1>1 DEF MoveInv, IInv, TypeInv
<1>. QED
  BY <1>1, <1>3, <1>4, StoreStep

\* Keeping the source of a move whose item is back keeps the invariant.
LEMMA KeepReappearedKeeps == ASSUME IInv, KeepReappearedSource PROVE IInv'
<1>1. /\ plan.kind = "none" /\ move # NoMove /\ OneStatus(move.from, "pending") /\ move' = NoMove
      /\ todo' \subseteq Item /\ UNCHANGED <<jellyfin, job, plan, drifted, budget>>
  BY NoPlanType DEF KeepReappearedSource, Retiring, OneStatus, IInv, TypeInv
<1>2. "pending" \in Status \ {"none", "synced"} /\ move.from \in Item /\ job # "idle"
  BY <1>1 DEF Status, IInv, MoveInv, QueueInv, Idle
<1>3. /\ \A j \in Item : grants'[j] \in Grant /\ NoneSynced(j)
      /\ grants' = [j \in Item |-> grants'[j]]
  BY <1>1, <1>2, OneStatusChanges DEF IInv
<1>4. MoveInv' /\ move' \in MoveType /\ job' \in Job
      /\ budget' \in [{"changes", "edits", "failures"} -> Nat]
  BY <1>1, NoMoveType DEF MoveInv, IInv, TypeInv
<1>. QED
  BY <1>1, <1>2, <1>3, <1>4, StoreStep

\* A retry time that comes keeps the invariant.
LEMMA RetryDueKeeps == ASSUME IInv, NEW i \in Item, RetryDue(i) PROVE IInv'
<1>1. /\ grants[i].status = "error" /\ OneStatus(i, "retry")
      /\ UNCHANGED <<jellyfin, job, todo, plan, move, drifted, budget>>
  BY DEF RetryDue, OneStatus, queue
<1>2. "retry" \in Status \ {"none", "synced"}
  BY DEF Status
<1>3. /\ \A j \in Item : grants'[j] \in Grant /\ NoneSynced(j)
      /\ grants' = [j \in Item |-> grants'[j]]
      /\ \A j \in Item : grants'[j].active = grants[j].active /\ grants'[j].owners = grants[j].owners
      /\ \A j \in Item \ {i} : grants'[j] = grants[j]
  BY <1>1, <1>2, OneStatusChanges DEF IInv
<1>4. grants' \in [Item -> Grant]
  BY <1>3
<1>5. AgreeInv'
  BY <1>1, <1>3, AgreesStill, AgreeStays DEF IInv
<1>6. \A j \in Item : Stored(j) => Stored(j)'
  BY <1>3 DEF NoneSynced
<1>7. TypeInv'
  BY <1>1, <1>4 DEF IInv, TypeInv, jellyfin
<1>8. plan.items \subseteq Item
  BY DEF IInv, TypeInv, PlanType
<1>9. QueueInv'
  BY <1>1, <1>6, <1>8 DEF IInv, QueueInv, Idle, Planning
<1>10. MoveInv'
  BY <1>1, <1>3, <1>6 DEF IInv, MoveInv
<1>11. \A j \in Item : (Shown(j)' <=> Shown(j)) /\ \A u \in User : Hidden(j, u)' <=> Hidden(j, u)
  BY <1>1, <1>3 DEF Shown, Hidden
<1>12. users \subseteq User
  BY DEF IInv, TypeInv
<1>13. \A j \in Item : Planned(j) => Planned(j)'
  BY <1>1, <1>11, <1>12 DEF Planned, jellyfin
<1>14. PlanInv'
  BY <1>1, <1>3, <1>8, <1>11, <1>13 DEF IInv, PlanInv, Planning, Cleared, jellyfin
<1>. QED
  BY <1>5, <1>7, <1>9, <1>10, <1>14 DEF IInv

-----------------------------------------------------------------------------
(* Moves *)

\* Merging a source's owners into its target, whole or in part, keeps the invariant.
LEMMA MergeKeeps ==
  ASSUME IInv, plan.kind = "none", NEW i \in Item, NEW t \in Item, t # i, Stored(i),
         NEW carried \in SUBSET User, NEW whole \in BOOLEAN, NEW rest \in SUBSET User,
         Merge(i, t, carried, whole, rest), job' \in Job, job' # "idle", todo' \subseteq Item,
         budget' \in [{"changes", "edits", "failures"} -> Nat]
  PROVE  IInv'
<1> DEFINE g == [status |-> "pending", active |-> TRUE, owners |-> grants[t].owners \cup carried]
           m == [from |-> i, to |-> t, applied |-> FALSE, whole |-> whole, rest |-> rest]
<1>1. grants[t].owners \subseteq User
  BY DEF IInv, TypeInv, Grant
<1>2. g \in Grant /\ g.status = "pending" /\ g.active = TRUE
  BY <1>1 DEF Grant, Status
<1>3. m \in MoveType /\ m.from = i /\ m.to = t /\ m.applied = FALSE
  BY DEF MoveType
<1>4. move' = m /\ grants' = [grants EXCEPT ![t] = g] /\ UNCHANGED <<jellyfin, plan, drifted>>
  BY DEF Merge
<1>. HIDE DEF g, m
<1>5. /\ grants' = [j \in Item |-> grants'[j]] /\ grants'[t] = g
      /\ \A j \in Item \ {t} : grants'[j] = grants[j]
  BY <1>4 DEF IInv, TypeInv
<1>6. \A j \in Item : grants'[j] \in Grant /\ NoneSynced(j)
  BY <1>2, <1>5 DEF IInv, TypeInv, NoneSynced, Stored
<1>7. MoveInv'
  BY <1>2, <1>3, <1>4, <1>5 DEF MoveInv, Stored
<1>. QED
  BY <1>3, <1>4, <1>5, <1>6, <1>7, StoreStep

\* Administrators' remaps and recoveries of missing items keep the invariant.
LEMMA MovesKeep ==
  ASSUME IInv, NEW i \in Item, NEW t \in Item, NEW carried \in SUBSET grants[i].owners,
         RemapGrant(i, t, carried) \/ \E whole \in BOOLEAN : RecoverMissingItem(i, t, carried, whole)
  PROVE  IInv'
<1>1. carried \subseteq User /\ grants[i].owners \subseteq User
  BY DEF IInv, TypeInv, Grant
<1>2. CASE RemapGrant(i, t, carried)
  <2>1. /\ plan.kind = "none" /\ t # i /\ Stored(i) /\ job' \in Job /\ job' # "idle" /\ todo' \subseteq Item
        /\ Merge(i, t, carried, TRUE, {})
    BY <1>2 DEF RemapGrant, IInv, QueueInv, TypeInv, Job
  <2>2. budget' \in [{"changes", "edits", "failures"} -> Nat]
    BY <1>2, Spending DEF RemapGrant, IInv
  <2>3. PICK whole \in BOOLEAN, rest \in SUBSET User : Merge(i, t, carried, whole, rest)
    BY <2>1
  <2>. QED
    BY <1>1, <2>1, <2>2, <2>3, MergeKeeps
<1>3. ASSUME NEW whole \in BOOLEAN, RecoverMissingItem(i, t, carried, whole) PROVE IInv'
  <2>1. /\ plan.kind = "none" /\ t # i /\ Stored(i) /\ job' \in Job /\ job' # "idle" /\ todo' \subseteq Item
        /\ Merge(i, t, carried, whole, grants[i].owners \ carried)
        /\ budget' \in [{"changes", "edits", "failures"} -> Nat]
    BY <1>3, NoPlanType DEF RecoverMissingItem, Turn, Recoverable, Recovers, IInv, TypeInv
  <2>. QED
    BY <1>1, <2>1, MergeKeeps
<1>. QED
  BY <1>2, <1>3

\* Clearing the policies of a grant that gives nobody access keeps the invariant.
LEMMA ClearPoliciesKeeps == ASSUME IInv, ClearPolicies PROVE IInv'
<1> DEFINE i == move.from
<1>1. /\ plan.kind = "none" /\ move # NoMove /\ move.applied /\ move.whole /\ i \notin exists
      /\ plan' = PlanContext("retire", {i}, Inactive(i))
      /\ UNCHANGED <<grants, jellyfin, job, todo, move, drifted, budget>>
  BY NoPlanType DEF ClearPolicies, Retiring, store
<1>2. i \in Item
  BY <1>1 DEF IInv, MoveInv
<1>. HIDE DEF i
<1>3. PICK gs : gs = Inactive(i)
  OBVIOUS
<1>4. gs[i].active = FALSE /\ gs[i].owners = grants[i].owners
  <2> DEFINE g == [grants[i] EXCEPT !.active = FALSE]
  <2>1. grants[i] \in Grant
    BY <1>2 DEF IInv, TypeInv
  <2>2. g.active = FALSE /\ g.owners = grants[i].owners
    BY <2>1 DEF Grant
  <2>3. gs[i] = g
    BY <1>2, <1>3 DEF Inactive, IInv, TypeInv
  <2>. HIDE DEF g
  <2>. QED
    BY <2>2, <2>3
<1>5. /\ PlanInv' /\ plan' \in PlanType /\ plan'.tags \subseteq plan'.items /\ plan'.kind = "retire"
      /\ plan'.items = {i} /\ plan'.tags = {}
  <2>1. \A j \in {i} : /\ gs[j].active <=> "retire" # "retire" /\ grants'[j].active
                       /\ gs[j].owners = grants'[j].owners
    BY <1>1, <1>4
  <2>2. \A j, k \in {i} : gs[j].active <=> gs[k].active
    OBVIOUS
  <2>3. plan' = PlanContext("retire", {i}, gs) /\ {i} \in SUBSET Item /\ {i} \cap exists = {}
    BY <1>1, <1>2, <1>3
  <2>. QED
    BY <1>1, <2>1, <2>2, <2>3, FreshPlan DEF IInv
<1>6. AgreeInv'
  <2>1. \A j \in Item : NoneSynced(j)
    BY <1>1 DEF NoneSynced, Stored
  <2>. QED
    BY <1>1, <2>1, AgreesStill, AgreeStays DEF IInv
<1>7. TypeInv'
  BY <1>1, <1>5 DEF IInv, TypeInv, jellyfin
<1>8. QueueInv'
  BY <1>1, <1>5 DEF IInv, QueueInv, Idle, Planning, i
<1>9. MoveInv'
  BY <1>1, <1>5 DEF IInv, MoveInv, Stored
<1>. QED
  BY <1>5, <1>6, <1>7, <1>8, <1>9 DEF IInv

\* What is written of a plan, nobody else having changed it, is what Jellyfin shows.
LEMMA WrittenShown ==
  ASSUME IInv, Planning, Written, NEW i \in plan.items, i \notin plan.stale
  PROVE  /\ i \in exists => (i \in tagged <=> Shown(i))
         /\ \A u \in users : i \in blocked[u] <=> Hidden(i, u)
<1>1. plan.tags = {} /\ DOMAIN plan.policies = {}
  BY NoPlanType DEF Written
<1>. QED
  BY <1>1 DEF IInv, PlanInv, Planned

\* Retiring the source of a move keeps the invariant.
LEMMA RetireKeeps == ASSUME IInv, RetireMovedGrant PROVE IInv'
<1> DEFINE i == move.from
           kept == [status |-> "orphaned", active |-> TRUE, owners |-> move.rest]
<1>1. /\ move # NoMove /\ plan' = NoPlan /\ move' = NoMove /\ todo' \subseteq Item
      /\ grants' = [grants EXCEPT ![i] = IF move.whole THEN NoGrant ELSE kept]
      /\ drifted' = IF move.whole THEN drifted \ ({i} \ plan.stale) ELSE drifted
      /\ UNCHANGED <<jellyfin, job, budget>>
  BY DEF RetireMovedGrant, Retiring, IInv, QueueInv, TypeInv
<1>2. i \in Item /\ Stored(i) /\ job # "idle"
  BY <1>1 DEF IInv, MoveInv, QueueInv, Idle
<1>3. kept \in Grant /\ kept.status = "orphaned"
  <2>1. move.rest \subseteq User
    BY DEF IInv, TypeInv, MoveType
  <2>. QED
    BY <2>1 DEF Grant, Status
<1>. HIDE DEF kept
<1>4. /\ grants'[i] = IF move.whole THEN NoGrant ELSE kept
      /\ \A j \in Item \ {i} : grants'[j] = grants[j]
  BY <1>1, <1>2 DEF IInv, TypeInv
<1>5. grants' \in [Item -> Grant]
  BY <1>1, <1>3, NoGrantType DEF IInv, TypeInv
<1>6. drifted' \subseteq drifted
  BY <1>1
<1>7. TypeInv'
  BY <1>1, <1>5, <1>6, NoPlanLeft, NoMoveType DEF IInv, TypeInv, jellyfin
<1>8. QueueInv' /\ MoveInv' /\ PlanInv'
  BY <1>1, <1>2, NoPlanLeft DEF QueueInv, MoveInv, Idle, Planning
<1>9. ASSUME move.whole, i \notin drifted' PROVE Cleared(i)
  <2>1. plan.kind = "retire" /\ Written
    BY <1>9 DEF RetireMovedGrant
  <2>2. i \in plan.items
    BY <2>1 DEF IInv, QueueInv
  <2>3. i \notin plan.stale
    BY <1>1, <1>9 DEF IInv, PlanInv
  <2>4. /\ i \in exists => (i \in tagged <=> Shown(i))
        /\ \A u \in users : i \in blocked[u] <=> Hidden(i, u)
    BY <2>1, <2>2, <2>3, WrittenShown DEF Planning
  <2>. QED
    BY <2>1, <2>4 DEF Cleared, Shown, Hidden, IInv, TypeInv
<1>10. AgreeInv'
  <2> SUFFICES ASSUME NEW j \in Item PROVE Agrees(j)'
    BY DEF AgreeInv
  <2>1. CASE j # i
    <3>1. grants'[j] = grants[j] /\ (j \in drifted' <=> j \in drifted)
      BY <2>1, <1>1, <1>4
    <3>. QED
      BY <3>1, <1>1 DEF IInv, AgreeInv, Agrees, Enforced, Cleared, Stored, jellyfin
  <2>2. CASE j = i /\ ~move.whole
    BY <2>2, <1>3, <1>4 DEF Agrees, Stored
  <2>3. CASE j = i /\ move.whole
    BY <2>3, <1>1, <1>4, <1>9, NoGrantType DEF Agrees, Cleared, jellyfin
  <2>. QED
    BY <2>1, <2>2, <2>3
<1>. QED
  BY <1>7, <1>8, <1>10 DEF IInv

-----------------------------------------------------------------------------
(* A plan that is done *)

\* Purging an empty grant keeps the invariant: its tag and policies were cleared.
LEMMA PurgeKeeps == ASSUME IInv, Purge PROVE IInv'
<1>1. /\ plan.kind = "purge" /\ plan' = NoPlan /\ todo' \subseteq Item
      /\ grants' = [i \in Item |-> IF i \in plan.items THEN NoGrant ELSE grants[i]]
      /\ UNCHANGED <<jellyfin, job, move, drifted, budget>>
  BY DEF Purge, IInv, TypeInv
<1>2. move = NoMove /\ job # "idle"
  BY <1>1 DEF IInv, MoveInv, QueueInv, Idle
<1>3. grants' \in [Item -> Grant]
  BY <1>1, NoGrantType DEF IInv, TypeInv
<1>4. TypeInv'
  BY <1>1, <1>3, NoPlanLeft DEF IInv, TypeInv, jellyfin
<1>5. QueueInv' /\ MoveInv' /\ PlanInv'
  BY <1>1, <1>2, NoPlanLeft DEF QueueInv, MoveInv, Idle, Planning
<1>6. AgreeInv'
  <2> SUFFICES ASSUME NEW j \in Item PROVE Agrees(j)'
    BY DEF AgreeInv
  <2>1. CASE j \in plan.items
    <3>1. grants'[j] = NoGrant /\ (j \notin drifted => Cleared(j))
      BY <2>1, <1>1 DEF IInv, PlanInv
    <3>. QED
      BY <3>1, <1>1, NoGrantType DEF Agrees, Cleared, jellyfin
  <2>2. CASE j \notin plan.items
    <3>1. grants'[j] = grants[j]
      BY <2>2, <1>1
    <3>. QED
      BY <3>1, <1>1 DEF IInv, AgreeInv, Agrees, Enforced, Cleared, Stored, jellyfin
  <2>. QED
    BY <2>1, <2>2
<1>. QED
  BY <1>4, <1>5, <1>6 DEF IInv

\* Marking a grant as synced keeps the invariant: its whole plan was written.
LEMMA MarkSyncSuccessKeeps == ASSUME IInv, MarkSyncSuccess PROVE IInv'
<1>1. /\ plan.kind \in {"grant", "bulk"} /\ Written
      /\ drifted' = drifted \ (plan.items \ plan.stale)
      /\ UNCHANGED <<jellyfin, job, budget>>
  BY DEF MarkSyncSuccess
<1>2. Planning /\ plan.items \subseteq Item /\ job # "idle"
  BY <1>1 DEF Planning, IInv, TypeInv, PlanType, QueueInv, Idle
<1>3. ASSUME NEW i \in Item
      PROVE  /\ grants'[i] \in Grant /\ grants'[i].active = grants[i].active /\ grants'[i].owners = grants[i].owners
             /\ i \in plan.items => grants'[i].status = "synced"
             /\ i \notin plan.items => grants'[i] = grants[i]
             /\ Stored(i) => Stored(i)'
  <2> DEFINE g == [grants[i] EXCEPT !.status = "synced"]
  <2>1. grants[i] \in Grant /\ "synced" \in Status
    BY DEF IInv, TypeInv, Status
  <2>2. g \in Grant /\ g.status = "synced" /\ g.active = grants[i].active /\ g.owners = grants[i].owners
    BY <2>1, StatusChanges
  <2>3. grants'[i] = IF i \in plan.items THEN g ELSE grants[i]
    BY DEF MarkSyncSuccess
  <2>. HIDE DEF g
  <2>. QED
    BY <2>1, <2>2, <2>3 DEF Stored
<1>4. grants' \in [Item -> Grant]
  <2>1. \A i \in Item : grants'[i] \in Grant
    BY <1>3
  <2>. QED
    BY <2>1 DEF MarkSyncSuccess
<1>5. ASSUME NEW i \in plan.items
      PROVE  /\ Stored(i) /\ (plan.active <=> grants[i].active)
             /\ i \notin drifted' => /\ i \in exists => (i \in tagged <=> grants[i].active)
                                     /\ \A u \in users : i \in blocked[u] <=> grants[i].active /\ u \notin grants[i].owners
  <2>1. Stored(i) /\ (plan.active <=> grants[i].active)
    BY <1>1, <1>2 DEF IInv, QueueInv, PlanInv, Shown
  <2>2. ASSUME i \notin drifted'
        PROVE  /\ i \in exists => (i \in tagged <=> grants[i].active)
               /\ \A u \in users : i \in blocked[u] <=> grants[i].active /\ u \notin grants[i].owners
    <3>1. i \notin plan.stale
      BY <1>1, <2>2 DEF IInv, PlanInv
    <3>. QED
      BY <1>1, <1>2, <3>1, WrittenShown DEF Shown, Hidden
  <2>. QED
    BY <2>1, <2>2
<1>6. AgreeInv'
  <2> SUFFICES ASSUME NEW j \in Item PROVE Agrees(j)'
    BY DEF AgreeInv
  <2>1. CASE j \in plan.items
    <3>1. Stored(j)' /\ grants'[j].active = grants[j].active /\ grants'[j].owners = grants[j].owners
      BY <2>1, <1>3, <1>5
    <3>. QED
      BY <2>1, <3>1, <1>1, <1>5 DEF Agrees, Enforced, jellyfin
  <2>2. CASE j \notin plan.items
    <3>1. grants'[j] = grants[j] /\ (j \in drifted' <=> j \in drifted)
      BY <2>2, <1>1, <1>3
    <3>. QED
      BY <3>1, <1>1 DEF IInv, AgreeInv, Agrees, Enforced, Cleared, Stored, jellyfin
  <2>. QED
    BY <2>1, <2>2
<1>7. CASE plan.active
  <2>1. /\ plan' = NoPlan /\ todo' \subseteq Item
        /\ move' = IF move = NoMove THEN move ELSE [move EXCEPT !.applied = TRUE]
    BY <1>7 DEF MarkSyncSuccess, IInv, TypeInv
  <2>2. /\ move' \in MoveType /\ (move = NoMove => move' = NoMove)
        /\ move'.from = move.from /\ move'.to = move.to
    <3> DEFINE m == [move EXCEPT !.applied = TRUE]
    <3>1. m \in MoveType /\ m.from = move.from /\ m.to = move.to
      BY DEF IInv, TypeInv, MoveType
    <3>. HIDE DEF m
    <3>2. move' = IF move = NoMove THEN move ELSE m
      BY <2>1 DEF m
    <3>. QED
      BY <3>1, <3>2 DEF IInv, TypeInv
  <2>3. TypeInv'
    BY <1>1, <1>4, <2>1, <2>2, NoPlanLeft DEF IInv, TypeInv, jellyfin
  <2>4. QueueInv' /\ PlanInv'
    BY <1>1, <1>2, <2>1, NoPlanLeft DEF QueueInv, Idle, Planning
  <2>5. ASSUME move # NoMove
        PROVE  /\ move.from \in Item /\ move.to \in Item /\ move.from # move.to
               /\ grants'[move.from].status # "none" /\ grants'[move.to].status # "none"
               /\ grants'[move.to].active /\ grants'[move.to].status = "synced"
    <3>1. /\ move.from \in Item /\ move.to \in Item /\ move.from # move.to /\ Stored(move.from) /\ Stored(move.to)
          /\ grants[move.to].active /\ plan.items = {move.to}
      BY <1>1, <2>5 DEF IInv, MoveInv
    <3>2. PICK from \in Item, to \in Item : from = move.from /\ to = move.to
      BY <3>1
    <3>3. Stored(from)' /\ Stored(to)' /\ grants'[to].active = grants[to].active /\ grants'[to].status = "synced"
      BY <3>1, <3>2, <1>3
    <3>. QED
      BY <3>1, <3>2, <3>3 DEF Stored
  <2>6. MoveInv'
    <3> SUFFICES ASSUME move' # NoMove
                 PROVE  /\ move'.from \in Item /\ move'.to \in Item /\ move'.from # move'.to
                        /\ grants'[move'.from].status # "none" /\ grants'[move'.to].status # "none"
                        /\ grants'[move'.to].active /\ plan'.kind = "none" /\ grants'[move'.to].status = "synced"
      BY DEF MoveInv, Stored
    <3>1. move # NoMove
      BY <2>2
    <3>. QED
      BY <3>1, <2>1, <2>2, <2>5, NoPlanType DEF Stored
  <2>. QED
    BY <1>6, <2>3, <2>4, <2>6 DEF IInv
<1>8. CASE ~plan.active
  <2>1. plan' = [plan EXCEPT !.kind = "purge"] /\ UNCHANGED <<todo, move>>
    BY <1>8 DEF MarkSyncSuccess
  <2>2. OnePlanField(plan, plan', "kind") /\ plan'.kind = "purge"
    <3>1. "purge" \in PlanKind /\ plan \in PlanType
      BY DEF PlanKind, IInv, TypeInv
    <3>. QED
      BY <2>1, <3>1, PlanChanges
  <2>3. /\ plan' \in PlanType /\ plan'.tags = {} /\ plan'.items = plan.items /\ DOMAIN plan'.policies = {}
        /\ plan'.stale = plan.stale
    BY <1>1, <2>2, NoPlanType DEF OnePlanField, Written
  <2>4. move = NoMove
    <3> SUFFICES ASSUME move # NoMove PROVE FALSE
      OBVIOUS
    <3>1. plan.items = {move.to} /\ grants[move.to].active
      BY <1>1 DEF IInv, MoveInv
    <3>. QED
      BY <1>5, <1>8, <3>1
  <2>5. TypeInv'
    BY <1>1, <1>4, <2>1, <2>3 DEF IInv, TypeInv, jellyfin
  <2>6. QueueInv' /\ MoveInv'
    BY <1>1, <1>2, <2>1, <2>2, <2>3, <2>4 DEF QueueInv, MoveInv, Idle, Planning
  <2>7. PlanInv'
    <3>1. plan.stale \subseteq drifted'
      BY <1>1 DEF IInv, PlanInv
    <3>2. \A i \in plan.items : ~grants'[i].active /\ (i \notin drifted' => Cleared(i))
      <4> SUFFICES ASSUME NEW i \in plan.items PROVE ~grants'[i].active /\ (i \notin drifted' => Cleared(i))
        OBVIOUS
      <4>1. ~grants[i].active /\ i \in Item
        BY <1>2, <1>5, <1>8
      <4>2. i \notin drifted' => Cleared(i)
        BY <1>5, <4>1 DEF Cleared, IInv, TypeInv
      <4>. QED
        BY <4>1, <4>2, <1>3
    <3>. QED
      BY <3>1, <3>2, <1>1, <2>2, <2>3 DEF PlanInv, Planning, Cleared, jellyfin
  <2>. QED
    BY <1>6, <2>5, <2>6, <2>7 DEF IInv
<1>. QED
  BY <1>7, <1>8

-----------------------------------------------------------------------------
(* Everybody else *)

\* Items that are not `is` look in Jellyfin as they did, or are gone, as users may be.
LooksAlike(is) ==
  /\ exists' \subseteq Item /\ tagged' \subseteq exists' /\ users' \subseteq User /\ blocked' \in [User -> SUBSET Item]
  /\ \A i \in Item \ is :
       /\ i \in exists' => i \in exists
       /\ i \in exists' => (i \in tagged' <=> i \in tagged)
       /\ \A u \in users' : u \in users /\ (i \in blocked'[u] <=> i \in blocked[u])

\* An edit by others keeps the invariant, as what they touched is known to have drifted.
LEMMA EditedKeeps ==
  ASSUME IInv, NEW is \in SUBSET Item, Edited(is), LooksAlike(is)
  PROVE  IInv'
<1>1. drifted' = drifted \cup is /\ UNCHANGED <<grants, job, todo, move>>
  BY DEF Edited, store
<1>2. budget' \in [{"changes", "edits", "failures"} -> Nat]
  BY Spending DEF Edited, IInv
<1>3. plan \in PlanType /\ plan.stale \cup (is \cap plan.items) \in SUBSET Item
  BY DEF IInv, TypeInv, PlanType
<1>4. /\ OnePlanField(plan, plan', "stale") /\ plan'.stale = plan.stale \cup (is \cap plan.items)
  <2>1. plan' = [plan EXCEPT !.stale = plan.stale \cup (is \cap plan.items)]
    BY DEF Edited
  <2>. QED
    BY <1>3, <2>1, PlanChanges
<1>5. /\ plan' \in PlanType /\ plan'.kind = plan.kind /\ plan'.items = plan.items /\ plan'.active = plan.active
      /\ plan'.tags = plan.tags /\ plan'.policies = plan.policies
  BY <1>4 DEF OnePlanField
<1>6. TypeInv'
  BY <1>1, <1>2, <1>5 DEF IInv, TypeInv, LooksAlike
<1>7. QueueInv'
  BY <1>1, <1>5 DEF IInv, QueueInv, Idle, Planning, Stored
<1>8. MoveInv'
  BY <1>1, <1>5 DEF IInv, MoveInv, Stored
<1>9. ASSUME NEW i \in Item, i \notin is
      PROVE  /\ i \in exists' => i \in exists /\ (i \in tagged' <=> i \in tagged)
             /\ \A u \in users' : u \in users /\ (i \in blocked'[u] <=> i \in blocked[u])
             /\ Cleared(i) => Cleared(i)'
  <2>1. /\ i \in exists' => i \in exists /\ (i \in tagged' <=> i \in tagged)
        /\ \A u \in users' : u \in users /\ (i \in blocked'[u] <=> i \in blocked[u])
    BY <1>9 DEF LooksAlike
  <2>2. i \in tagged' => i \in exists'
    BY DEF LooksAlike
  <2>. QED
    BY <2>1, <2>2 DEF Cleared
<1>10. AgreeInv'
  <2> SUFFICES ASSUME NEW i \in Item PROVE Agrees(i)'
    BY DEF AgreeInv
  <2>1. CASE i \in is
    BY <2>1, <1>1 DEF Agrees
  <2>2. CASE i \notin is
    BY <2>2, <1>1, <1>9 DEF IInv, AgreeInv, Agrees, Enforced, Stored
  <2>. QED
    BY <2>1, <2>2
<1>11. \A i \in Item : (Shown(i)' <=> Shown(i)) /\ \A u \in User : Hidden(i, u)' <=> Hidden(i, u)
  BY <1>1, <1>5 DEF Shown, Hidden
<1>12. users' \subseteq User
  BY DEF LooksAlike
<1>13. ASSUME NEW i \in Item, i \notin is, Planned(i) PROVE Planned(i)'
  BY <1>5, <1>9, <1>11, <1>12, <1>13 DEF Planned
<1>14. plan.items \subseteq Item
  BY <1>3 DEF PlanType
<1>15. ASSUME NEW u \in users' \cap DOMAIN plan'.policies, NEW j \in Item \ (plan'.items \cup drifted')
       PROVE  j \in plan'.policies[u] <=> j \in blocked'[u]
  BY <1>1, <1>5, <1>9 DEF IInv, PlanInv
<1>16. plan'.stale \subseteq drifted'
  BY <1>1, <1>4 DEF IInv, PlanInv
<1>17. Planning' => \A i \in plan'.items : (plan'.active <=> Shown(i)') /\ (i \notin plan'.stale => Planned(i)')
  BY <1>4, <1>5, <1>11, <1>13, <1>14 DEF IInv, PlanInv, Planning
<1>18. plan'.kind = "purge" => \A i \in plan'.items : ~grants'[i].active /\ (i \notin drifted' => Cleared(i)')
  BY <1>1, <1>5, <1>9, <1>14 DEF IInv, PlanInv
<1>19. plan'.kind = "retire" => \A i \in plan'.items : i \in exists' => i \in drifted'
  BY <1>1, <1>5, <1>9, <1>14 DEF IInv, PlanInv
<1>20. PlanInv'
  BY <1>15, <1>16, <1>17, <1>18, <1>19 DEF PlanInv
<1>. QED
  BY <1>6, <1>7, <1>8, <1>10, <1>20 DEF IInv

\* Whatever others do in Jellyfin keeps the invariant.
LEMMA OthersKeep == ASSUME IInv, Others PROVE IInv'
<1>1. ASSUME NEW u \in User, UserCreated(u) PROVE IInv'
  <2>1. LooksAlike(Item)
    BY <1>1 DEF LooksAlike, UserCreated, IInv, TypeInv
  <2>. QED
    BY <1>1, <2>1, EditedKeeps DEF UserCreated
<1>2. ASSUME NEW u \in User, UserDeleted(u) PROVE IInv'
  <2>1. LooksAlike({})
    BY <1>2 DEF LooksAlike, UserDeleted, IInv, TypeInv
  <2>. QED
    BY <1>2, <2>1, EditedKeeps DEF UserDeleted
<1>3. ASSUME NEW u \in User, NEW i \in Item, PolicyEdited(u, i) PROVE IInv'
  <2>1. LooksAlike({i})
    BY <1>3 DEF LooksAlike, PolicyEdited, IInv, TypeInv
  <2>. QED
    BY <1>3, <2>1, EditedKeeps DEF PolicyEdited
<1>4. ASSUME NEW i \in Item, ItemDeleted(i) PROVE IInv'
  <2>1. LooksAlike({})
    BY <1>4 DEF LooksAlike, ItemDeleted, IInv, TypeInv
  <2>. QED
    BY <1>4, <2>1, EditedKeeps DEF ItemDeleted
<1>5. ASSUME NEW i \in Item, ItemReappears(i) PROVE IInv'
  <2>1. LooksAlike({i})
    BY <1>5 DEF LooksAlike, ItemReappears, IInv, TypeInv
  <2>. QED
    BY <1>5, <2>1, EditedKeeps DEF ItemReappears
<1>. QED
  BY <1>1, <1>2, <1>3, <1>4, <1>5 DEF Others

-----------------------------------------------------------------------------
(* The theorems *)

\* The invariant holds at the start.
LEMMA InitHolds == Init => IInv
<1> SUFFICES ASSUME Init PROVE IInv
  OBVIOUS
<1>1. TypeInv
  BY NoPlanType, NoMoveType, NoGrantType DEF Init, TypeInv, Job
<1>2. QueueInv /\ MoveInv /\ PlanInv
  BY NoPlanType DEF Init, QueueInv, MoveInv, PlanInv, Planning
<1>3. AgreeInv
  BY NoGrantType DEF Init, AgreeInv, Agrees, Cleared
<1>. QED
  BY <1>1, <1>2, <1>3 DEF IInv

\* Turns of the write queue keep the invariant.
LEMMA TurnsKeep == ASSUME IInv, Turns PROVE IInv'
<1>1. ASSUME NEW is \in SUBSET Item, NEW owners \in SUBSET User, NEW active \in BOOLEAN, NEW kind \in {"change", "full"},
             Change(is, owners, active, kind)
      PROVE  IInv'
  BY <1>1, ChangeKeeps
<1>2. ASSUME NEW is \in SUBSET Item, NEW owners \in SUBSET User, BulkChange(is, owners) PROVE IInv'
  BY <1>2, BulkChangeKeeps
<1>3. ASSUME NEW u \in User, NEW is \in SUBSET Item, CreateMember(u, is) PROVE IInv'
  BY <1>3, CreateMemberKeeps
<1>4. ASSUME NEW i \in Item, NEW t \in Item, NEW carried \in SUBSET grants[i].owners, RemapGrant(i, t, carried) PROVE IInv'
  BY <1>4, MovesKeep
<1>. QED
  BY <1>1, <1>2, <1>3, <1>4, QueueKeeps DEF Turns

\* Calls to Jellyfin and their outcomes keep the invariant.
LEMMA WorkKeeps == ASSUME IInv, Work PROVE IInv'
<1>1. CASE Plans
  <2>1. ASSUME NEW i \in Item, Skip(i) \/ BuildPlan(i) \/ RefusePlan(i) \/ MarkOrphaned(i) PROVE IInv'
    BY <2>1, QueueKeeps, BuildPlanKeeps, FailuresKeep, MarkOrphanedKeeps
  <2>2. ASSUME NEW i \in Item, NEW t \in Item, NEW whole \in BOOLEAN, NEW carried \in SUBSET grants[i].owners,
               RecoverMissingItem(i, t, carried, whole)
        PROVE  IInv'
    BY <2>2, MovesKeep
  <2>. QED
    BY <1>1, <2>1, <2>2 DEF Plans
<1>2. CASE Writes
  BY <1>2, WriteTagKeeps, WritePolicyKeeps, FailuresKeep DEF Writes
<1>3. CASE Outcomes
  BY <1>3, MarkSyncSuccessKeeps, PurgeKeeps, KeepReappearedKeeps, ClearPoliciesKeeps, RetireKeeps, QueueKeeps DEF Outcomes
<1>. QED
  BY <1>1, <1>2, <1>3 DEF Work

\* A stuttering step keeps the invariant.
LEMMA StutterKeeps == ASSUME IInv, UNCHANGED vars PROVE IInv'
<1> USE DEF vars
<1>1. TypeInv' /\ QueueInv' /\ MoveInv' /\ AgreeInv'
  BY DEF IInv, TypeInv, QueueInv, MoveInv, AgreeInv, Agrees, Enforced, Cleared, Stored, Idle, Planning
<1>2. PlanInv'
  BY DEF IInv, PlanInv, Planned, Planning, Shown, Hidden, Cleared
<1>. QED
  BY <1>1, <1>2 DEF IInv

\* Every step keeps the invariant.
LEMMA NextKeeps == IInv /\ [Next]_vars => IInv'
<1>. QED
  BY TurnsKeep, QueueKeeps, WorkKeeps, RetryDueKeeps, FailuresKeep, RestartKeeps, OthersKeep, StutterKeeps DEF Next

\* The queue's plan is right about all that nobody else changed, in every reachable state.
THEOREM Invariant == Spec => []IInv
<1>. QED
  BY InitHolds, NextKeeps, PTL DEF Spec

\* A grant shown as synced is in force in Jellyfin and one that is gone left no tag there, whatever
\* calls failed, jobs crossed and restarts came between, unless somebody else changed the title since.
THEOREM JellyfinAgreesAlways == Spec => []JellyfinAgrees
<1>1. ASSUME TypeInv, MoveInv PROVE TypeOK
  <2>1. /\ plan.kind \in PlanKind /\ plan.items \subseteq Item /\ DOMAIN plan.policies \subseteq User
        /\ \A u \in DOMAIN plan.policies : plan.policies[u] \subseteq Item
    BY <1>1, PoliciesType DEF TypeInv, PlanType
  <2>. QED
    BY <1>1, <2>1 DEF TypeInv, MoveInv, TypeOK
<1>2. AgreeInv => SyncedIsEnforced /\ NoLeftTags
  BY DEF AgreeInv, Agrees, SyncedIsEnforced, NoLeftTags
<1>3. IInv => JellyfinAgrees
  BY <1>1, <1>2 DEF IInv, JellyfinAgrees
<1>. QED
  BY <1>3, Invariant, PTL

-----------------------------------------------------------------------------
(* What is private stays private *)

KeepsPolicies == blocked' = blocked \/ \E u \in DOMAIN plan.policies \cap users : PolicyWritten(u)

\* Others' edits are counted, and a user made by JellyPass is new: what is left are planned writes.
LEMMA PoliciesWritten ==
  ASSUME IInv, Next, budget'.edits = budget.edits, users' = users
  PROVE  KeepsPolicies
<1>1. CASE Turns
  BY <1>1 DEF Turns, Change, BulkChange, CreateMember, RemapGrant, Merge, Full, jellyfin, KeepsPolicies
<1>2. CASE Plans
  BY <1>2 DEF Plans, Skip, BuildPlan, RefusePlan, MarkOrphaned, RecoverMissingItem, Merge, jellyfin, KeepsPolicies
<1>3. CASE Writes
  BY <1>3 DEF Writes, WriteTag, WritePolicy, WriteMissing, PolicyWritten, jellyfin, KeepsPolicies
<1>4. CASE Outcomes
  BY <1>4 DEF Outcomes, MarkSyncSuccess, Purge, KeepReappearedSource, ClearPolicies, RetireMovedGrant, Finish,
              jellyfin, KeepsPolicies
<1>5. CASE Scheduled \/ (\E i \in Item : RetryDue(i)) \/ ReadFails \/ Restart
  BY <1>5 DEF Scheduled, RetryDue, ReadFails, Restart, jellyfin, KeepsPolicies
<1>6. CASE WriteFails
  BY <1>6 DEF WriteFails, PolicyWritten, jellyfin, KeepsPolicies
<1>7. CASE Others
  <2>1. \E is : Edited(is)
    BY <1>7 DEF Others, UserCreated, UserDeleted, PolicyEdited, ItemDeleted, ItemReappears
  <2>2. budget'["edits"] = budget["edits"] + 1 /\ budget["edits"] \in Nat
    BY <2>1, Spending DEF Edited, IInv, TypeInv
  <2>. QED
    BY <2>2
<1>. QED
  BY <1>1, <1>2, <1>3, <1>4, <1>5, <1>6, <1>7 DEF Next, Work

\* The title `i` may be taken off the policy of `u`.
MayUnblock(i, u) == u \in grants[i].owners \/ ~grants[i].active \/ move.from = i

\* A policy written takes an item off a user only if the user may see it.
LEMMA WritesUnblockOwners ==
  ASSUME IInv, NEW w \in DOMAIN plan.policies \cap users, PolicyWritten(w), NEW u \in users,
         NEW i \in (blocked[u] \ blocked'[u]) \ drifted
  PROVE  MayUnblock(i, u)
<1>1. w \in User /\ u \in User /\ i \in Item
  BY DEF IInv, TypeInv
<1>2. u = w /\ i \in blocked[w] /\ i \notin plan.policies[w]
  BY <1>1 DEF PolicyWritten, IInv, TypeInv
<1>3. i \in plan.items /\ i \notin plan.stale /\ Planning
  BY <1>1, <1>2 DEF IInv, PlanInv, QueueInv
<1>4. ~Hidden(i, w)
  BY <1>2, <1>3 DEF IInv, PlanInv, Planned
<1>5. plan.kind = "retire" => move.from = i
  BY <1>3 DEF IInv, QueueInv
<1>. QED
  BY <1>2, <1>4, <1>5 DEF Hidden, Shown, MayUnblock

\* Policies are opened for owners only, in every step.
LEMMA UnblocksAlways == Spec => UnblocksOwnersOnly
<1>1. ASSUME IInv, [Next]_vars, budget'.edits = budget.edits, users' = users,
             NEW u \in users, NEW i \in (blocked[u] \ blocked'[u]) \ drifted
      PROVE  MayUnblock(i, u)
  <2>1. Next
    BY <1>1 DEF vars
  <2>2. PICK w \in DOMAIN plan.policies \cap users : PolicyWritten(w)
    BY <1>1, <2>1, PoliciesWritten DEF KeepsPolicies
  <2>. QED
    BY <1>1, <2>2, WritesUnblockOwners
<1>2. IInv /\ [Next]_vars =>
        [budget'.edits = budget.edits /\ users' = users =>
          \A u \in users : \A i \in (blocked[u] \ blocked'[u]) \ drifted :
            u \in grants[i].owners \/ ~grants[i].active \/ move.from = i]_vars
  BY <1>1 DEF MayUnblock
<1>. QED
  BY <1>2, Invariant, PTL DEF Spec, UnblocksOwnersOnly

KeepsStored == \A i \in Item : Stored(i) => Stored(i)'

\* A failed job keeps every grant stored.
LEMMA FailedStored == ASSUME TypeInv, NEW is, NEW i, Failed(is, i) PROVE KeepsStored
<1> SUFFICES ASSUME NEW g \in Item, Stored(g) PROVE Stored(g)'
  BY DEF KeepsStored
<1>1. grants[g] \in Grant /\ "error" \in Status
  BY DEF TypeInv, Status
<1>2. [grants[g] EXCEPT !.status = "error"].status = "error"
  BY <1>1, StatusChanges
<1>. QED
  BY <1>2 DEF Failed, Stored

\* A merge keeps every grant stored.
LEMMA MergeStored ==
  ASSUME TypeInv, NEW i, NEW t \in Item, NEW carried, NEW whole, NEW rest, Merge(i, t, carried, whole, rest)
  PROVE  KeepsStored
<1> DEFINE g == [status |-> "pending", active |-> TRUE, owners |-> grants[t].owners \cup carried]
<1>1. grants' = [grants EXCEPT ![t] = g] /\ g.status = "pending"
  BY DEF Merge
<1>. HIDE DEF g
<1>2. \A j \in Item : grants'[j] = IF j = t THEN g ELSE grants[j]
  BY <1>1 DEF TypeInv
<1>. QED
  BY <1>1, <1>2 DEF KeepsStored, Stored

\* A new status keeps every grant stored.
LEMMA StatusStored ==
  ASSUME TypeInv, NEW i \in Item, NEW status \in Status \ {"none", "synced"}, OneStatus(i, status)
  PROVE  KeepsStored
<1>. QED
  BY OneStatusChanges DEF KeepsStored, NoneSynced

\* Marking as synced keeps every grant stored.
LEMMA MarkStored == ASSUME TypeInv, MarkSyncSuccess PROVE KeepsStored
<1> SUFFICES ASSUME NEW i \in Item, Stored(i) PROVE Stored(i)'
  BY DEF KeepsStored
<1>1. grants[i] \in Grant /\ "synced" \in Status
  BY DEF TypeInv, Status
<1>2. [grants[i] EXCEPT !.status = "synced"].status = "synced"
  BY <1>1, StatusChanges
<1>. QED
  BY <1>2 DEF MarkSyncSuccess, Stored

\* Creating a member keeps every grant stored.
LEMMA CreateMemberStored == ASSUME TypeInv, NEW u, NEW is, CreateMember(u, is) PROVE KeepsStored
<1> SUFFICES ASSUME NEW i \in Item, Stored(i) PROVE Stored(i)'
  BY DEF KeepsStored
<1> DEFINE g == [grants[i] EXCEPT !.status = "pending", !.owners = grants[i].owners \cup {u}]
<1>1. grants[i] \in Grant
  BY DEF TypeInv
<1>2. g.status = "pending"
  BY <1>1 DEF Grant
<1>3. grants'[i] = IF i \notin is THEN grants[i] ELSE g
  BY DEF CreateMember
<1>. HIDE DEF g
<1>. QED
  BY <1>2, <1>3 DEF Stored

\* Only a purge and the end of a move remove a grant.
LEMMA StoredStays ==
  ASSUME IInv, Next, ~Purge, ~RetireMovedGrant
  PROVE  KeepsStored
<1>1. ASSUME UNCHANGED grants PROVE KeepsStored
  BY <1>1 DEF KeepsStored, Stored
<1>2. TypeInv
  BY DEF IInv
<1>3. CASE Turns
  <2>1. ASSUME NEW is \in SUBSET Item, NEW owners \in SUBSET User, NEW active \in BOOLEAN, Renewed(is, owners, active)
        PROVE  KeepsStored
    BY <2>1, <1>2, RenewedGrants DEF KeepsStored, NoneSynced
  <2>2. ASSUME NEW is \in SUBSET Item, NEW owners \in SUBSET User, BulkChange(is, owners) PROVE KeepsStored
    <3>1. Renewed(is, owners, TRUE)
      BY <2>2 DEF BulkChange, Renewed
    <3>2. PICK active \in BOOLEAN : Renewed(is, owners, active)
      BY <3>1
    <3>. QED
      BY <2>1, <3>2
  <2>3. ASSUME NEW is \in SUBSET Item, NEW owners \in SUBSET User, NEW active \in BOOLEAN, NEW kind,
               Change(is, owners, active, kind)
        PROVE  KeepsStored
    BY <2>1, <2>3 DEF Change, Renewed
  <2>4. ASSUME NEW i \in Item, NEW t \in Item, NEW carried, RemapGrant(i, t, carried) PROVE KeepsStored
    <3>1. \E whole, rest : Merge(i, t, carried, whole, rest)
      BY <2>4 DEF RemapGrant
    <3>. QED
      BY <1>2, <3>1, MergeStored
  <2>5. CASE Full
    BY <1>1, <2>5 DEF Full, store
  <2>. QED
    BY <1>2, <1>3, <2>2, <2>3, <2>4, <2>5, CreateMemberStored DEF Turns
<1>4. CASE Plans
  <2>1. ASSUME NEW i \in Item, MarkOrphaned(i) PROVE KeepsStored
    <3>1. OneStatus(i, "orphaned") /\ "orphaned" \in Status \ {"none", "synced"}
      BY <2>1 DEF MarkOrphaned, OneStatus, Status
    <3>. QED
      BY <1>2, <3>1, StatusStored
  <2>2. ASSUME NEW i \in Item, Skip(i) \/ BuildPlan(i) PROVE KeepsStored
    BY <1>1, <2>2 DEF Skip, BuildPlan, store
  <2>3. ASSUME NEW i \in Item, RefusePlan(i) PROVE KeepsStored
    BY <1>2, <2>3, FailedStored DEF RefusePlan
  <2>4. ASSUME NEW i \in Item, NEW t \in Item, NEW whole, NEW carried, RecoverMissingItem(i, t, carried, whole)
        PROVE  KeepsStored
    BY <1>2, <2>4, MergeStored DEF RecoverMissingItem
  <2>. QED
    BY <1>4, <2>1, <2>2, <2>3, <2>4 DEF Plans
<1>5. ASSUME FailPlan PROVE KeepsStored
  <2>1. PICK is, i : Failed(is, i)
    BY <1>5 DEF FailPlan
  <2>. QED
    BY <1>2, <2>1, FailedStored
<1>6. CASE Writes
  BY <1>1, <1>5, <1>6 DEF Writes, WriteTag, WritePolicy, WriteMissing, store
<1>7. CASE Outcomes
  <2>1. ASSUME KeepReappearedSource PROVE KeepsStored
    <3>1. OneStatus(move.from, "pending") /\ "pending" \in Status \ {"none", "synced"} /\ move.from \in Item
      BY <2>1 DEF KeepReappearedSource, Retiring, OneStatus, Status, IInv, MoveInv
    <3>2. PICK from \in Item : OneStatus(from, "pending")
      BY <3>1
    <3>. QED
      BY <1>2, <3>1, <3>2, StatusStored
  <2>. QED
    BY <1>1, <1>2, <1>7, <2>1, MarkStored DEF Outcomes, ClearPolicies, Finish, store
<1>8. CASE \E i \in Item : RetryDue(i)
  <2>1. PICK i \in Item : OneStatus(i, "retry") /\ "retry" \in Status \ {"none", "synced"}
    BY <1>8 DEF RetryDue, OneStatus, Status
  <2>. QED
    BY <1>2, <2>1, StatusStored
<1>9. CASE ReadFails
  <2>1. \E is, i : Failed(is, i)
    BY <1>9 DEF ReadFails
  <2>. QED
    BY <1>2, <2>1, FailedStored
<1>10. CASE WriteFails
  BY <1>5, <1>10 DEF WriteFails
<1>11. CASE Scheduled \/ Restart
  BY <1>1, <1>11 DEF Scheduled, Restart, store
<1>12. CASE Others
  BY <1>1, <1>12 DEF Others, UserCreated, UserDeleted, PolicyEdited, ItemDeleted, ItemReappears, Edited, store
<1>. QED
  BY <1>3, <1>4, <1>6, <1>7, <1>8, <1>9, <1>10, <1>11, <1>12 DEF Next, Work

\* A source goes only when its target is in force, in every step.
LEMMA MovedAlways == Spec => MovedWhenApplied
<1>1. ASSUME IInv, [Next]_vars, NEW i \in Item, Stored(i), grants[i].active, ~Stored(i)'
      PROVE  move.from = i /\ (move.to \in exists \ drifted => Enforced(move.to))
  <2>1. Next /\ ~KeepsStored
    BY <1>1 DEF vars, KeepsStored, Stored
  <2>2. CASE Purge
    <3>1. i \notin plan.items
      BY <1>1, <2>2 DEF Purge, IInv, PlanInv
    <3>. QED
      BY <1>1, <2>2, <3>1 DEF Purge, Stored
  <2>3. CASE RetireMovedGrant
    <3>1. move # NoMove /\ move.applied
      BY <1>1, <2>3 DEF RetireMovedGrant, Retiring, IInv, QueueInv
    <3>2. move.from = i
      <4> SUFFICES ASSUME move.from # i PROVE FALSE
        OBVIOUS
      <4>1. grants'[i] = grants[i]
        BY <1>1, <2>3 DEF RetireMovedGrant, IInv, TypeInv
      <4>. QED
        BY <1>1, <4>1 DEF Stored
    <3>3. PICK t \in Item : t = move.to /\ grants[t].active /\ grants[t].status = "synced"
      BY <1>1, <3>1 DEF IInv, MoveInv
    <3>4. t \in exists \ drifted => Enforced(t)
      BY <1>1, <3>3 DEF IInv, AgreeInv, Agrees
    <3>. QED
      BY <3>2, <3>3, <3>4
  <2>. QED
    BY <1>1, <2>1, <2>2, <2>3, StoredStays
<1>2. IInv /\ [Next]_vars =>
        [\A i \in Item : Stored(i) /\ grants[i].active /\ ~Stored(i)' =>
           /\ move.from = i
           /\ move.to \in exists \ drifted => Enforced(move.to)]_vars
  BY <1>1
<1>. QED
  BY <1>2, Invariant, PTL DEF Spec, MovedWhenApplied

\* Whole policies, read some calls ago, are written over and over: a title comes off a user's policy
\* only for an owner, for a title no longer private or for one that moved, and a moved grant leaves
\* its source only when the target is in force.
THEOREM StaysPrivateAlways == Spec => StaysPrivate
<1>. QED
  BY UnblocksAlways, MovedAlways DEF StaysPrivate
=============================================================================
