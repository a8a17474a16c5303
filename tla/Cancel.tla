--------------------------------- MODULE Cancel ---------------------------------
(***************************************************************************)
(* Giving up a request for one movie: a member's cancel                    *)
(* (src/src/household-requests.ts), an administrator's approval, decline   *)
(* and cancel (src/src/admin-requests.ts), the withdrawals they leave      *)
(* (src/src/store.ts), and what becomes of a title that arrives all the    *)
(* same (src/src/access-service.ts): the grant its withdrawal decides, and *)
(* the title hold of a request Seerr no longer has.                        *)
(*                                                                         *)
(* Members' calls and administrators' actions take the title's turn; what  *)
(* decides a grant is written in the write queue; the refresh reads Seerr  *)
(* in neither and writes in the queue.                                     *)
(*                                                                         *)
(* Every request here is genuine: the join rules and the intents behind    *)
(* them are the subject of GetThis.                                        *)
(***************************************************************************)
EXTENDS Naturals, FiniteSets

CONSTANTS Member, Household,
          Homes,        \* the households of each member
          Managers,     \* the members whose Seerr user manages requests
          MaxRequests, MaxCrashes

ASSUME HomesAssumption == Homes \in [Member -> SUBSET Household] /\ Managers \subseteq Member
ASSUME BoundsAssumption == {MaxRequests, MaxCrashes} \subseteq Nat

VARIABLES
  seerr,       \* Seerr's requests for the movie
  sent,        \* those ever sent to Radarr: the movie may arrive through them, whatever became of them
  here,        \* Jellyfin has the movie
  records,     \* the app's records
  withdrawals, \* by request; none while it names no household
  handled,     \* the requests whose grant is decided
  granted,     \* those the movie's grant records; with none, it is public
  groups,      \* the households on its grant
  turn,        \* what the title's turn is on
  job,         \* what the write queue is on
  refresh,     \* what the refresh has read and not written yet
  crashes,
  dropped,     \* history: requests their requester withdrew, or an administrator declined or cancelled
  left,        \* history: the households that withdrew from each request
  overtaken,   \* history: requests the refresh found gone before the cancel that deleted them had heard so
  forgotten    \* history: requests whose withdrawal was forgotten while their webhook was still out

jellypass == <<records, withdrawals, handled, granted, groups>>
world == <<seerr, sent, here>>
losses == <<overtaken, forgotten>>
history == <<dropped, left, losses>>
vars == <<world, jellypass, turn, job, refresh, crashes, history>>

-----------------------------------------------------------------------------
(* Data *)

Request == 1..MaxRequests
NoRequest == 0
Nobody == "nobody"

SeerrRequest == [by : Member \cup {Nobody},
                 status : {"none", "pending", "approved", "declined", "completed", "gone"},
                 told : BOOLEAN]   \* Seerr made it available: its webhook may be delivered, late or again

Record == [home : Household, user : Member, branch : {"request", "interest"}, req : Request,
           status : {"pending", "completed", "declined", "deleted"}, withdrawn : BOOLEAN]

Withdrawal == [homes : SUBSET Household,
               requester : BOOLEAN,   \* its requester gets nothing through it
               hold : BOOLEAN,        \* it becomes a title hold once Seerr no longer has the request
               gone : BOOLEAN]        \* seerrGoneAt: it is one

NoWithdrawal == [homes |-> {}, requester |-> FALSE, hold |-> FALSE, gone |-> FALSE]
NoTurn == [op |-> "none", at |-> "idle", home |-> Nobody, user |-> Nobody, req |-> NoRequest, hold |-> FALSE]
NoJob == [at |-> "idle", req |-> NoRequest]
Resting == [at |-> "idle", req |-> NoRequest, rec |-> {}, fresh |-> FALSE, status |-> "none"]

Live(r) == seerr[r].status \in {"pending", "approved"}
Open(r) == Live(r) \/ seerr[r].status = "completed"
QueueIdle == job.at = "idle"
TurnFree == turn = NoTurn

Naming(r) == {rec \in records : rec.req = r}
Pending == {rec \in records : rec.status = "pending"}
Following(r) == Naming(r) \cap Pending
HomesOf(recs) == {rec.home : rec \in recs}

Withdrew(r) == withdrawals[r].requester
Owner(u) == \/ \E r \in granted : seerr[r].by = u /\ ~Withdrew(r)
            \/ Homes[u] \cap groups # {}
Sees(u) == here /\ (granted = {} \/ Owner(u))
Unowned == groups = {} /\ \A r \in granted : Withdrew(r)

Init ==
  /\ seerr = [r \in Request |-> [by |-> Nobody, status |-> "none", told |-> FALSE]]
  /\ sent = {} /\ here = FALSE
  /\ records = {}
  /\ withdrawals = [r \in Request |-> NoWithdrawal]
  /\ handled = {} /\ granted = {} /\ groups = {}
  /\ turn = NoTurn /\ job = NoJob /\ refresh = Resting
  /\ crashes = 0
  /\ dropped = {} /\ left = {} /\ overtaken = {} /\ forgotten = {}

-----------------------------------------------------------------------------
(* Writing: records that change are no longer as the refresh read them *)

Changed(recs, status, withdrawn) ==
  /\ records' = (records \ recs) \cup {[rec EXCEPT !.status = status, !.withdrawn = withdrawn] : rec \in recs}
  /\ refresh' = IF refresh.rec \cap recs # {} THEN [refresh EXCEPT !.fresh = FALSE] ELSE refresh

Merged(w, homes, requester, hold) ==
  [w EXCEPT !.homes = @ \cup homes, !.requester = @ \/ requester, !.hold = @ \/ hold]

\* Those that still decide a grant.
Pruned(ws, done, recorded) ==
  [r \in Request |-> IF r \in done /\ ~(ws[r].requester /\ r \in recorded) THEN NoWithdrawal ELSE ws[r]]

BecomesTitleHold(w) == w.requester /\ w.hold

RequestGone(ws, r) ==
  IF r \in handled \/ ws[r] = NoWithdrawal THEN ws
  ELSE [ws EXCEPT ![r] = IF BecomesTitleHold(@) THEN [@ EXCEPT !.gone = TRUE] ELSE NoWithdrawal]

\* History: the request's webhook may still come, and nothing says who withdrew.
Forgetting(r) ==
  /\ forgotten' = forgotten \cup
       {q \in {r} : seerr[q].told /\ withdrawals[q] # NoWithdrawal /\ withdrawals'[q] = NoWithdrawal}
  /\ UNCHANGED <<dropped, left, overtaken>>

TitleHolds == {r \in Request : withdrawals[r].gone /\ BecomesTitleHold(withdrawals[r])}

-----------------------------------------------------------------------------
(* "Get this", as far as a cancel meets it *)

Asked(h) == h \in HomesOf(Pending)

\* Made as the caller, behind an intent.
AskSeerr(u, h) ==
  /\ TurnFree /\ ~here
  /\ h \in Homes[u] /\ ~Asked(h)
  /\ \A r \in Request : ~Open(r)
  /\ \E r \in Request :
       /\ seerr[r].status = "none" /\ \A q \in 1..(r - 1) : seerr[q].status # "none"
       /\ seerr' = [seerr EXCEPT ![r].by = u, ![r].status = "pending"]
       /\ turn' = [NoTurn EXCEPT !.op = "ask", !.at = "made", !.home = h, !.user = u, !.req = r]
  /\ UNCHANGED <<sent, here, jellypass, job, refresh, crashes, history>>

AskFollows(u, h) ==
  /\ TurnFree /\ ~here
  /\ h \in Homes[u] /\ ~Asked(h)
  /\ \E r \in Request : Live(r) /\ turn' = [NoTurn EXCEPT !.op = "ask", !.at = "found", !.home = h, !.user = u, !.req = r]
  /\ UNCHANGED <<world, jellypass, job, refresh, crashes, history>>

AskRecorded ==
  /\ turn.op = "ask"
  /\ records' = records \cup
       {[home |-> turn.home, user |-> turn.user, req |-> turn.req, status |-> "pending", withdrawn |-> FALSE,
         branch |-> IF seerr[turn.req].by = turn.user THEN "request" ELSE "interest"]}
  /\ turn' = NoTurn
  /\ UNCHANGED <<world, withdrawals, handled, granted, groups, job, refresh, crashes, history>>

-----------------------------------------------------------------------------
(* A member's cancel *)

Own(u, h) == {rec \in records : rec.user = u /\ rec.home = h /\ rec.status \in {"pending", "completed"}}

\* Shown to the caller as requested: nothing of it is ready to them.
Cancellable(u, h) == \E rec \in Own(u, h) : rec.status = "pending" \/ ~Sees(u)

Cancel(u, h) ==
  /\ TurnFree
  /\ Cancellable(u, h)
  /\ turn' = [NoTurn EXCEPT !.op = "cancel", !.at = "viewed", !.home = h, !.user = u]
  /\ UNCHANGED <<world, jellypass, job, refresh, crashes, history>>

\* Those whose grant is still to come.
Waiting(recs) == {rec \in recs : rec.status = "pending" /\ rec.req \notin handled}

Withdrawn(recs) ==
  [r \in Request |->
    LET mine == {rec \in Waiting(recs) : rec.req = r}
        own  == \E rec \in mine : rec.branch = "request"
    IN  IF mine = {} THEN withdrawals[r] ELSE Merged(withdrawals[r], HomesOf(mine), own, own)]

Withdraw ==
  /\ turn.op = "cancel" /\ turn.at = "viewed"
  /\ QueueIdle
  /\ LET recs == Own(turn.user, turn.home)
         mine == {rec.req : rec \in {x \in Waiting(recs) : x.branch = "request"}}
     IN  /\ Changed(recs, "deleted", TRUE)
         /\ withdrawals' = Pruned(Withdrawn(recs), handled, granted)
         /\ dropped' = dropped \cup mine
         /\ left' = left \cup {<<rec.req, rec.home>> : rec \in Waiting(recs)}
         /\ turn' = IF mine = {} THEN NoTurn ELSE [turn EXCEPT !.at = "withdrawn", !.req = CHOOSE r \in mine : TRUE]
  /\ UNCHANGED <<world, handled, granted, groups, job, crashes, losses>>

\* Mutant: only the request's own followers count.
FollowedByRequest(r) == \E rec \in Naming(r) : rec.status = "pending" /\ rec.user # turn.user /\ rec.branch = "request"

\* A record of any household still follows the title.
Followed(r) == Pending # {}

Kept ==
  /\ turn.op = "cancel" /\ turn.at = "withdrawn"
  /\ Followed(turn.req) \/ turn.user \in Managers \/ seerr[turn.req].status # "pending"
  /\ turn' = NoTurn
  /\ UNCHANGED <<world, jellypass, job, refresh, crashes, history>>

Unfollowed ==
  /\ turn.op = "cancel" /\ turn.at = "withdrawn"
  /\ ~Followed(turn.req) /\ turn.user \notin Managers
  /\ turn' = [turn EXCEPT !.at = "unfollowed"]
  /\ UNCHANGED <<world, jellypass, job, refresh, crashes, history>>

ReadPending ==
  /\ turn.op = "cancel" /\ turn.at = "unfollowed"
  /\ turn' = IF seerr[turn.req].status = "pending" THEN [turn EXCEPT !.at = "read"] ELSE NoTurn
  /\ UNCHANGED <<world, jellypass, job, refresh, crashes, history>>

\* Seerr lets a member delete only their own request, while it is pending; its answer may be lost.
MemberDeletes ==
  /\ turn.op = "cancel" /\ turn.at = "read"
  /\ seerr[turn.req].status = "pending" /\ seerr[turn.req].by = turn.user
  /\ seerr' = [seerr EXCEPT ![turn.req].status = "gone"]
  /\ turn' \in {NoTurn, [turn EXCEPT !.at = "deleted"]}
  /\ UNCHANGED <<sent, here, jellypass, job, refresh, crashes, history>>

DeleteRefused ==
  /\ turn.op = "cancel" /\ turn.at = "read"
  /\ seerr[turn.req].status # "pending"
  /\ turn' = NoTurn
  /\ UNCHANGED <<world, jellypass, job, refresh, crashes, history>>

ForgetWithdrawal ==
  /\ turn.op = "cancel" /\ turn.at = "deleted"
  /\ QueueIdle
  /\ withdrawals' = [withdrawals EXCEPT ![turn.req] = NoWithdrawal]
  /\ turn' = NoTurn
  /\ UNCHANGED <<world, records, handled, granted, groups, job, refresh, crashes, history>>

-----------------------------------------------------------------------------
(* An administrator's actions on a request a record names *)

Act(op, r, at) ==
  /\ TurnFree
  /\ Naming(r) # {}
  /\ turn' = [NoTurn EXCEPT !.op = op, !.at = at, !.req = r]
  /\ UNCHANGED <<world, jellypass, job, refresh, crashes, history>>

Approve(r) == seerr[r].status = "pending" /\ Act("approve", r, "read")

\* One declined already is only brought up to date.
Decline(r) == \/ seerr[r].status = "pending" /\ Act("decline", r, "read")
              \/ seerr[r].status = "declined" /\ Act("decline", r, "readDeclined")

SeerrDeclines(r) == seerr[r].status \in {"pending", "declined"}

SendApproval ==
  /\ turn.op = "approve"
  /\ IF seerr[turn.req].status = "pending"
     THEN /\ seerr' = [seerr EXCEPT ![turn.req].status = "approved"]
          /\ sent' = sent \cup {turn.req}
     ELSE UNCHANGED <<seerr, sent>>
  /\ turn' = NoTurn
  /\ UNCHANGED <<here, jellypass, job, refresh, crashes, history>>

\* The write queue is held while Seerr is asked.
SendDecline ==
  /\ turn.op = "decline" /\ turn.at \in {"read", "readDeclined"}
  /\ QueueIdle
  /\ turn.req \notin handled
  /\ IF turn.at = "read"
     THEN SeerrDeclines(turn.req) /\ seerr' = [seerr EXCEPT ![turn.req].status = "declined"]
     ELSE UNCHANGED seerr
  /\ job' = [at |-> "declining", req |-> turn.req]
  /\ turn' = [turn EXCEPT !.at = "declined"]
  /\ UNCHANGED <<sent, here, jellypass, refresh, crashes, history>>

\* Granted already, or Seerr declines it no longer.
DeclineRefused ==
  /\ turn.op = "decline" /\ turn.at \in {"read", "readDeclined"}
  /\ QueueIdle
  /\ turn.req \in handled \/ (turn.at = "read" /\ ~SeerrDeclines(turn.req))
  /\ turn' = NoTurn
  /\ UNCHANGED <<world, jellypass, job, refresh, crashes, history>>

\* Mutant: the withdrawal of an administrator's cancel is no title hold.
WithdrawnWithoutHold(r, hold) == [withdrawals EXCEPT ![r] = Merged(@, HomesOf(Naming(r)), TRUE, FALSE)]

\* Withdrawn for every household that named it.
WithdrawnForAll(r, hold) == [withdrawals EXCEPT ![r] = Merged(@, HomesOf(Naming(r)), TRUE, hold)]

LeaveAll(r) ==
  /\ dropped' = dropped \cup {r}
  /\ left' = left \cup ({r} \X HomesOf(Naming(r)))

DeclineRecorded ==
  /\ turn.op = "decline" /\ turn.at = "declined"
  /\ Changed(Following(turn.req), "declined", FALSE)
  /\ withdrawals' = WithdrawnForAll(turn.req, TRUE)
  /\ LeaveAll(turn.req)
  /\ job' = NoJob /\ turn' = NoTurn
  /\ UNCHANGED <<world, handled, granted, groups, crashes, losses>>

AdminCancel(r) ==
  /\ r \notin handled
  /\ \/ Live(r) /\ Act("adminCancel", r, "asked")
     \/ seerr[r].status = "gone" /\ Act("adminCancel", r, "gone")

\* A title hold unless every item Jellyfin has is on a grant already.
Undecided == ~here \/ granted = {}

LookAtItems ==
  /\ turn.op = "adminCancel" /\ turn.at = "asked"
  /\ turn' = [turn EXCEPT !.at = "read", !.hold = Undecided]
  /\ UNCHANGED <<world, jellypass, job, refresh, crashes, history>>

CancelRefused ==
  /\ turn.op = "adminCancel" /\ turn.at \in {"read", "gone"}
  /\ QueueIdle
  /\ turn.req \in handled
  /\ turn' = NoTurn
  /\ UNCHANGED <<world, jellypass, job, refresh, crashes, history>>

WithdrawAll ==
  /\ turn.op = "adminCancel" /\ turn.at = "read"
  /\ QueueIdle
  /\ turn.req \notin handled
  /\ Changed(Following(turn.req), "deleted", FALSE)
  /\ withdrawals' = WithdrawnForAll(turn.req, turn.hold)
  /\ LeaveAll(turn.req)
  /\ turn' = [turn EXCEPT !.at = "withdrawn"]
  /\ UNCHANGED <<world, handled, granted, groups, job, crashes, losses>>

\* Seerr lets an administrator delete a request whatever its status, also one deleted meanwhile; a failure
\* ends the cancel.
AdminDeletes ==
  /\ turn.op = "adminCancel" /\ turn.at = "withdrawn"
  /\ \/ /\ seerr' = [seerr EXCEPT ![turn.req].status = "gone"]
        /\ turn' = [turn EXCEPT !.at = "deleted"]
     \/ /\ turn' = NoTurn
        /\ UNCHANGED seerr
  /\ UNCHANGED <<sent, here, jellypass, job, refresh, crashes, history>>

AdminFindsGone ==
  /\ turn.op = "adminCancel" /\ turn.at \in {"gone", "deleted"}
  /\ QueueIdle
  /\ turn.at = "gone" => turn.req \notin handled
  /\ IF turn.at = "gone" THEN Changed(Following(turn.req), "deleted", FALSE) ELSE UNCHANGED <<records, refresh>>
  /\ withdrawals' = RequestGone(withdrawals, turn.req)
  /\ Forgetting(turn.req)
  /\ turn' = NoTurn
  /\ UNCHANGED <<world, handled, granted, groups, job, crashes>>

\* A title held for no household, given to one.
Held(r) == r \in handled \cap granted /\ Withdrew(r) /\ Unowned

Release(h) ==
  /\ QueueIdle
  /\ \E r \in Request : Held(r)
  /\ groups' = groups \cup {h}
  /\ UNCHANGED <<world, records, withdrawals, handled, granted, turn, job, refresh, crashes, history>>

-----------------------------------------------------------------------------
(* Seerr's own administrator, Radarr and Jellyfin *)

\* One declined may still be approved while no other took its place.
SeerrApproves(r) ==
  /\ seerr[r].status \in {"pending", "declined"}
  /\ seerr[r].status = "declined" => ~here /\ \A q \in Request : ~Open(q)
  /\ seerr' = [seerr EXCEPT ![r].status = "approved"]
  /\ sent' = sent \cup {r}
  /\ UNCHANGED <<here, jellypass, turn, job, refresh, crashes, history>>

SeerrDeletes(r) ==
  /\ seerr[r].status \in {"pending", "approved", "declined", "completed"}
  /\ seerr' = [seerr EXCEPT ![r].status = "gone"]
  /\ UNCHANGED <<sent, here, jellypass, turn, job, refresh, crashes, history>>

\* Not between a request being made and being recorded: that request would be a late one.
Arrives ==
  /\ ~here /\ sent # {}
  /\ turn.at # "made"
  /\ here' = TRUE
  /\ UNCHANGED <<seerr, sent, jellypass, turn, job, refresh, crashes, history>>

SeerrCompletes(r) ==
  /\ here /\ Live(r)
  /\ seerr' = [seerr EXCEPT ![r].status = "completed", ![r].told = TRUE]
  /\ UNCHANGED <<sent, here, jellypass, turn, job, refresh, crashes, history>>

-----------------------------------------------------------------------------
(* Grants: a webhook, its replay or the backfill *)

GrantedTo(r, homes) ==
  /\ granted' = granted \cup {r}
  /\ handled' = handled \cup {r}
  /\ groups' = groups \cup homes
  /\ withdrawals' = Pruned(withdrawals, handled', granted')

GrantGroups(r) == IF Withdrew(r) THEN {} ELSE Homes[seerr[r].by] \ withdrawals[r].homes

Grant(r) ==
  /\ QueueIdle
  /\ seerr[r].told /\ r \notin handled
  /\ GrantedTo(r, GrantGroups(r))
  /\ job' = [at |-> "granted", req |-> r]
  /\ UNCHANGED <<world, records, turn, refresh, crashes, history>>

\* A webhook delivered again; worth a step only where something is left to settle.
Replay(r) ==
  /\ QueueIdle
  /\ seerr[r].told /\ r \in granted
  /\ Following(r) # {}
  /\ job' = [at |-> "granted", req |-> r]
  /\ UNCHANGED <<world, jellypass, turn, refresh, crashes, history>>

RequesterWithdrew(r) == Withdrew(r) \/ \E rec \in Naming(r) : rec.withdrawn /\ rec.branch = "request"

\* The records a grant of the request settles: those that name it, and any interest in the movie.
Settled(r) == {rec \in Pending : rec.req = r \/ rec.branch = "interest"}

\* Those that join the grant; the others' households are on it already.
Joining(r) == {rec \in Settled(r) : rec.branch = "interest" \/ RequesterWithdrew(r)}

Settle(r) ==
  /\ Changed(Settled(r), "completed", FALSE)
  /\ groups' = groups \cup HomesOf(Joining(r))

SettleGrant ==
  /\ job.at = "granted"
  /\ Settle(job.req)
  /\ job' = [at |-> "holds", req |-> NoRequest]
  /\ UNCHANGED <<world, withdrawals, handled, granted, turn, crashes, history>>

-----------------------------------------------------------------------------
(* Title holds: after each webhook, in the refresh, the backfill and the catalog sync *)

CheckHolds ==
  /\ QueueIdle
  /\ TitleHolds # {} /\ here
  /\ job' = [at |-> "holds", req |-> NoRequest]
  /\ UNCHANGED <<world, jellypass, turn, refresh, crashes, history>>

\* Granted to the request Seerr no longer has, with no household.
Hold(r) ==
  /\ job.at = "holds"
  /\ r \in TitleHolds /\ here /\ granted = {}
  /\ GrantedTo(r, GrantGroups(r))
  /\ job' = [at |-> "held", req |-> r]
  /\ UNCHANGED <<world, records, turn, refresh, crashes, history>>

SettleHold ==
  /\ job.at = "held"
  /\ Settle(job.req)
  /\ job' = [at |-> "holds", req |-> NoRequest]
  /\ UNCHANGED <<world, withdrawals, handled, granted, turn, crashes, history>>

\* Mutant: a hold that was granted is forgotten with the others.
DroppedAltogether(r) == [withdrawals EXCEPT ![r] = NoWithdrawal]

DroppedHold(r) == [withdrawals EXCEPT ![r] = IF r \in handled THEN [@ EXCEPT !.gone = FALSE] ELSE NoWithdrawal]

DropHold(r) ==
  /\ job.at = "holds"
  /\ r \in TitleHolds /\ granted # {}
  /\ withdrawals' = DroppedHold(r)
  /\ Forgetting(r)
  /\ UNCHANGED <<world, records, handled, granted, groups, turn, job, refresh, crashes>>

HoldsChecked ==
  /\ job.at = "holds"
  /\ TitleHolds = {} \/ ~here
  /\ job' = NoJob
  /\ UNCHANGED <<world, jellypass, turn, refresh, crashes, history>>

-----------------------------------------------------------------------------
(* The refresh *)

FindGone(r) ==
  /\ refresh = Resting
  /\ withdrawals[r] # NoWithdrawal /\ ~withdrawals[r].gone /\ r \notin handled
  /\ seerr[r].status = "gone"
  /\ refresh' = [Resting EXCEPT !.at = "gone", !.req = r]
  /\ overtaken' = overtaken \cup {q \in {r} : turn.op = "cancel" /\ turn.at = "deleted" /\ turn.req = q}
  /\ UNCHANGED <<world, jellypass, turn, job, crashes, dropped, left, forgotten>>

WriteGone ==
  /\ refresh.at = "gone"
  /\ QueueIdle
  /\ withdrawals' = RequestGone(withdrawals, refresh.req)
  /\ Forgetting(refresh.req)
  /\ refresh' = Resting
  /\ UNCHANGED <<world, records, handled, granted, groups, turn, job, crashes>>

\* What a record's status is now; "join" for an interest that may join.
Current(rec) ==
  CASE seerr[rec.req].status = "gone" -> "deleted"
    [] seerr[rec.req].status = "declined" -> "declined"
    [] seerr[rec.req].status = "completed" -> IF rec.branch = "interest" THEN "join" ELSE "completed"
    [] OTHER -> "pending"

ReadRecord(rec) ==
  /\ refresh = Resting
  /\ rec \in Pending
  /\ Current(rec) # "pending"
  /\ Current(rec) = "join" => granted # {}
  /\ refresh' = [Resting EXCEPT !.at = IF Current(rec) = "join" THEN "join" ELSE "read", !.rec = {rec},
                                !.fresh = TRUE, !.status = Current(rec)]
  /\ UNCHANGED <<world, jellypass, turn, job, crashes, history>>

\* Mutant: the household joins whatever became of the record since it was read.
JoinsUnchecked == TRUE

StillFollowed == refresh.fresh

JoinRecord ==
  /\ refresh.at = "join"
  /\ QueueIdle
  /\ IF StillFollowed
     THEN /\ groups' = groups \cup HomesOf(refresh.rec)
          /\ refresh' = [refresh EXCEPT !.at = "read", !.status = "completed"]
     ELSE /\ refresh' = Resting
          /\ UNCHANGED groups
  /\ UNCHANGED <<world, records, withdrawals, handled, granted, turn, job, crashes, history>>

WriteRecord ==
  /\ refresh.at = "read"
  /\ QueueIdle
  /\ records' = IF refresh.fresh
                THEN (records \ refresh.rec) \cup {[rec EXCEPT !.status = refresh.status] : rec \in refresh.rec}
                ELSE records
  /\ refresh' = Resting
  /\ UNCHANGED <<world, withdrawals, handled, granted, groups, turn, job, crashes, history>>

-----------------------------------------------------------------------------

\* The state file keeps every step; a request that was made is recorded after the restart (its intent).
Crash ==
  /\ crashes < MaxCrashes
  /\ crashes' = crashes + 1
  /\ turn' = IF turn.at = "made" THEN turn ELSE NoTurn
  /\ job' = NoJob /\ refresh' = Resting
  /\ UNCHANGED <<world, jellypass, history>>

MembersNext == \/ \E u \in Member, h \in Household : AskSeerr(u, h) \/ AskFollows(u, h) \/ Cancel(u, h)
               \/ AskRecorded \/ Withdraw \/ Kept \/ Unfollowed \/ ReadPending
               \/ MemberDeletes \/ DeleteRefused \/ ForgetWithdrawal

AdminNext == \/ \E r \in Request : Approve(r) \/ Decline(r) \/ AdminCancel(r)
             \/ \E h \in Household : Release(h)
             \/ SendApproval \/ SendDecline \/ DeclineRefused \/ DeclineRecorded
             \/ LookAtItems \/ CancelRefused \/ WithdrawAll \/ AdminDeletes \/ AdminFindsGone

GrantNext == \/ \E r \in Request : Grant(r) \/ Replay(r) \/ Hold(r) \/ DropHold(r)
             \/ SettleGrant \/ CheckHolds \/ SettleHold \/ HoldsChecked

RefreshNext == \/ \E r \in Request : FindGone(r)
               \/ \E rec \in records : ReadRecord(rec)
               \/ WriteGone \/ JoinRecord \/ WriteRecord

WorldNext == (\E r \in Request : SeerrApproves(r) \/ SeerrDeletes(r) \/ SeerrCompletes(r)) \/ Arrives

Next == MembersNext \/ AdminNext \/ GrantNext \/ RefreshNext \/ WorldNext \/ Crash

Spec == Init /\ [][Next]_vars

\* A turn and a job go on once begun, the refresh comes round, and every arrival is noticed: by its webhook,
\* or by the backfill. The write queue is first in, first out: what waits for it gets it, however often
\* others take it meanwhile (strong fairness).
TurnGoesOn == \/ AskRecorded \/ Withdraw \/ Kept \/ Unfollowed \/ ReadPending \/ DeleteRefused \/ MemberDeletes
              \/ ForgetWithdrawal \/ SendApproval \/ SendDecline \/ DeclineRefused \/ DeclineRecorded
              \/ LookAtItems \/ CancelRefused \/ WithdrawAll \/ AdminDeletes \/ AdminFindsGone
JobGoesOn == SettleGrant \/ SettleHold \/ HoldsChecked \/ \E r \in Request : Hold(r) \/ DropHold(r)

Fairness ==
  /\ WF_vars(JobGoesOn)
  /\ SF_vars(TurnGoesOn) /\ SF_vars(RefreshNext)
  /\ SF_vars(CheckHolds) /\ SF_vars(\E r \in Request : Grant(r))

FairSpec == Spec /\ Fairness

-----------------------------------------------------------------------------
(* Properties *)

TypeOK ==
  /\ seerr \in [Request -> SeerrRequest] /\ sent \subseteq Request /\ here \in BOOLEAN
  /\ records \subseteq Record
  /\ withdrawals \in [Request -> Withdrawal]
  /\ handled \subseteq Request /\ granted \subseteq handled /\ groups \subseteq Household
  /\ overtaken \cup forgotten \subseteq Request

\* A household is only ever added to the title's grant while it follows the title; through a request its
\* member stands by and it did not withdraw from; when an administrator releases a held title to it; or by
\* the webhook of a request that came after Seerr had lost the request and JellyPass, with another grant
\* deciding the title, had forgotten who withdrew (admin-requests.ts says no such webhook gives access).
GivenOnlyWhoAsk ==
  [][\A h \in groups' \ groups :
       \/ h \in HomesOf(Pending)
       \/ \E r \in granted' \ granted : /\ h \in Homes[seerr[r].by]
                                        /\ r \in dropped \/ <<r, h>> \in left => r \in forgotten
       \/ Release(h)]_vars

\* What was given up and may still arrive is not forgotten: its withdrawal keeps its requester out of the
\* grant that records it, and stands ready to hold the title as long as nothing else decided it. Two orders
\* lose the first: a webhook that comes after the withdrawal was forgotten, and the refresh finding the
\* request gone before the cancel that deleted it hears so (store.ts then forgets a withdrawal that may have
\* become a grant's). Neither loses the second.
WithdrawalKept ==
  \A r \in dropped :
    /\ r \in granted => Withdrew(r) \/ r \in overtaken \/ r \in forgotten
    /\ r \in sent \ handled /\ granted = {} => BecomesTitleHold(withdrawals[r])

\* A household that followed someone else's request to its end is on the title's grant.
CompletedIsGiven == \A rec \in records : rec.branch = "interest" /\ rec.status = "completed" => rec.home \in groups

\* The records, the withdrawals and the grant agree on who gave up and who has the title, however cancels,
\* declines, arrivals, refreshes and crashes follow each other, but for the two orders WithdrawalKept names.
InAgreement == TypeOK /\ WithdrawalKept /\ CompletedIsGiven

\* A member's cancel takes no request from Seerr that a household still follows (household-requests.ts #cancel).
FollowersKept == [][MemberDeletes => Pending = {}]_vars

\* A title that arrives through a request that was given up and that Seerr lost does not stay public.
HeldAtLast ==
  []<>~(here /\ granted = {} /\ \E r \in dropped \cap sent : seerr[r].status = "gone")

\* Whoever still follows a request that completed is not left waiting.
ServedAtLast == []<>(\A rec \in Pending : seerr[rec.req].status # "completed")

\* What arrives is decided in the end: held if it was given up, and the followers' otherwise.
DecidedAtLast == HeldAtLast /\ ServedAtLast

\* docs/app-design.md, "Cancelling": a household that asks again after its member's cancel "follows the same
\* request" and "joins on arrival", so once that request is granted and settled it is on the grant.
AskedAgain(rec) ==
  /\ rec.branch = "request" /\ rec.status = "completed" /\ ~rec.withdrawn
  /\ \E before \in Naming(rec.req) : before.withdrawn /\ before.home = rec.home /\ before.user = rec.user
AskedAgainJoins == QueueIdle => \A rec \in records : AskedAgain(rec) /\ rec.req \in granted => rec.home \in groups
================================================================================
