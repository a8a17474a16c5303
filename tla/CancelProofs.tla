------------------------------ MODULE CancelProofs ------------------------------
(***************************************************************************)
(* Proofs about Cancel, for any number of requests, members and crashes:   *)
(* its type correctness, CompletedIsGiven, FollowersKept, WithdrawalKept   *)
(* and GivenOnlyWhoAsk.                                                    *)
(*                                                                         *)
(* The holder of the title's turn knows what nobody else can change        *)
(* meanwhile: that no record waits (FollowInv), that what it deleted was   *)
(* never sent to Radarr and its webhook never left (DeletedInv). What was  *)
(* given up is remembered as long as Seerr may still tell of its arrival   *)
(* (GivenUpInv, LeftInv), but where the refresh or an administrator's      *)
(* cancel forgot it first (forgotten) or the refresh held the title for it *)
(* before the cancel that deleted it heard so (overtaken).                 *)
(***************************************************************************)
EXTENDS Cancel, TLAPS

Statuses == {"pending", "completed", "declined", "deleted"}

Stages == {"idle", "made", "found", "viewed", "withdrawn", "unfollowed", "read", "deleted", "readDeclined", "declined",
           "asked", "gone"}
Turn == [op : {"none", "ask", "cancel", "approve", "decline", "adminCancel"}, at : Stages, home : Household \cup {Nobody},
         user : Member \cup {Nobody}, req : Request \cup {NoRequest}, hold : BOOLEAN]

TurnInv ==
  /\ turn \in Turn
  /\ turn.op = "ask" => turn.home \in Household /\ turn.user \in Member
  /\ turn.op \in {"none", "cancel"} \/ turn.at # "viewed"
  /\ turn.op # "none" /\ turn.at # "viewed" => turn.req \in Request

RefreshInv ==
  /\ refresh \in [at : {"idle", "gone", "join", "read"}, req : Request \cup {NoRequest}, rec : SUBSET Record,
                  fresh : BOOLEAN, status : {"none", "join", "completed", "declined", "deleted"}]
  /\ refresh.at = "read" => refresh.status \in {"completed", "declined", "deleted"}
  /\ refresh.at = "gone" => refresh.req \in Request

\* A request Seerr has, or had, is somebody's.
AskedInv ==
  /\ \A r \in Request : seerr[r].status # "none" \/ seerr[r].told => seerr[r].by \in Member
  /\ turn.op = "adminCancel" => seerr[turn.req].by \in Member

TypeInv ==
  /\ TypeOK /\ TurnInv /\ RefreshInv /\ AskedInv
  /\ dropped \subseteq Request /\ left \subseteq Request \X Household
  /\ handled = granted

\* Who joins a grant is on it before their record says so.
JoinInv ==
  /\ CompletedIsGiven
  /\ refresh.at = "read" /\ refresh.status = "completed" =>
       \A rec \in refresh.rec : rec.branch = "interest" => rec.home \in groups

\* What the refresh read of a record, and what a member's cancel found of all of them, holds until they write.
FollowInv ==
  /\ refresh.fresh => refresh.rec \subseteq Pending
  /\ turn.op = "cancel" /\ turn.at \in {"unfollowed", "read"} => Pending = {}

\* What Seerr's statuses say of the rest.
SeerrInv ==
  \A r \in Request :
    /\ seerr[r].told => seerr[r].status \in {"completed", "gone"}
    /\ r \in handled => seerr[r].status \in {"completed", "gone"}
    /\ r \in sent => seerr[r].status \notin {"none", "pending"}
    /\ withdrawals[r].gone => seerr[r].status = "gone"
    /\ turn.op = "adminCancel" /\ turn.at \in {"gone", "deleted"} /\ turn.req = r => seerr[r].status = "gone"
    /\ refresh.at = "gone" /\ refresh.req = r => seerr[r].status = "gone"
    /\ r \in forgotten => seerr[r].status = "gone"

\* What a member's cancel deleted had not been sent, and is not granted or held before the cancel hears so,
\* unless the refresh found it gone meanwhile.
DeletedInv ==
  turn.op = "cancel" /\ turn.at = "deleted" =>
    /\ turn.req \in Request
    /\ turn.req \notin sent
    /\ seerr[turn.req].status = "gone" /\ ~seerr[turn.req].told
    /\ turn.req \notin overtaken =>
         /\ turn.req \notin handled
         /\ ~withdrawals[turn.req].gone
         /\ refresh.at = "gone" => refresh.req # turn.req

\* Seerr has the request, or told of its arrival before it lost it.
Due(r) == seerr[r].status # "gone" \/ seerr[r].told

\* What is given up, while a webhook may come of it.
GivenUpInv ==
  /\ WithdrawalKept
  /\ \A r \in dropped \ handled :
       Due(r) /\ r \notin forgotten => Withdrew(r) /\ (withdrawals[r].hold \/ granted # {})
  /\ turn.op = "adminCancel" /\ turn.at = "read" => turn.hold \/ granted # {}

\* Whoever withdrew from a request is not given the title by it.
LeftInv ==
  \A r \in Request \ handled : \A h \in Household :
    <<r, h>> \in left /\ Due(r) /\ r \notin forgotten => h \in withdrawals[r].homes

IInv == TypeInv /\ JoinInv /\ FollowInv
OInv == SeerrInv /\ DeletedInv /\ GivenUpInv /\ LeftInv

-----------------------------------------------------------------------------
(* Which actions touch what *)

\* What changes a request in Seerr, or what was sent to Radarr.
LEMMA SeerrKinds ==
  ASSUME [Next]_vars
  PROVE  \/ UNCHANGED <<seerr, sent>>
         \/ \E u \in Member : \E h \in Household : AskSeerr(u, h)
         \/ MemberDeletes \/ SendApproval \/ SendDecline \/ AdminDeletes
         \/ \E r \in Request : SeerrApproves(r) \/ SeerrDeletes(r) \/ SeerrCompletes(r)
  <1>1. CASE MembersNext
    BY <1>1 DEF MembersNext, AskFollows, Cancel, AskRecorded, Withdraw, Kept, Unfollowed, ReadPending, DeleteRefused,
                ForgetWithdrawal, world
  <1>2. CASE AdminNext
    BY <1>2 DEF AdminNext, Act, Approve, Decline, AdminCancel, Release, DeclineRefused, DeclineRecorded, LookAtItems,
                CancelRefused, WithdrawAll, AdminFindsGone, world
  <1>3. CASE GrantNext
    BY <1>3 DEF GrantNext, Grant, Replay, Hold, DropHold, SettleGrant, CheckHolds, SettleHold, HoldsChecked, world
  <1>4. CASE RefreshNext
    BY <1>4 DEF RefreshNext, FindGone, ReadRecord, WriteGone, JoinRecord, WriteRecord, world
  <1>5. CASE WorldNext
    BY <1>5 DEF WorldNext, Arrives
  <1>6. CASE Crash \/ UNCHANGED vars
    BY <1>6 DEF Crash, vars, world
  <1> QED BY <1>1, <1>2, <1>3, <1>4, <1>5, <1>6 DEF Next

\* What changes withdrawals, handled and granted requests.
LEMMA LedgerKinds ==
  ASSUME [Next]_vars
  PROVE  \/ UNCHANGED <<withdrawals, handled, granted>>
         \/ Withdraw \/ ForgetWithdrawal \/ DeclineRecorded \/ WithdrawAll \/ AdminFindsGone \/ WriteGone
         \/ \E r \in Request : Grant(r) \/ Hold(r) \/ DropHold(r)
  <1>1. CASE MembersNext
    BY <1>1 DEF MembersNext, AskSeerr, AskFollows, Cancel, AskRecorded, Kept, Unfollowed, ReadPending, MemberDeletes,
                DeleteRefused, jellypass
  <1>2. CASE AdminNext
    BY <1>2 DEF AdminNext, Act, Approve, Decline, AdminCancel, Release, SendApproval, SendDecline, DeclineRefused,
                LookAtItems, CancelRefused, AdminDeletes, jellypass
  <1>3. CASE GrantNext
    BY <1>3 DEF GrantNext, Replay, SettleGrant, CheckHolds, SettleHold, HoldsChecked, jellypass
  <1>4. CASE RefreshNext
    BY <1>4 DEF RefreshNext, FindGone, ReadRecord, JoinRecord, WriteRecord, jellypass
  <1>5. CASE WorldNext
    BY <1>5 DEF WorldNext, SeerrApproves, SeerrDeletes, SeerrCompletes, Arrives, jellypass
  <1>6. CASE Crash \/ UNCHANGED vars
    BY <1>6 DEF Crash, vars, jellypass
  <1> QED BY <1>1, <1>2, <1>3, <1>4, <1>5, <1>6 DEF Next

\* What changes the households of the grant.
LEMMA GroupsKinds ==
  ASSUME [Next]_vars
  PROVE  \/ UNCHANGED groups
         \/ JoinRecord \/ SettleGrant \/ SettleHold
         \/ \E r \in Request : Grant(r) \/ Hold(r)
         \/ \E h \in Household : Release(h)
  <1>1. CASE MembersNext
    BY <1>1 DEF MembersNext, AskSeerr, AskFollows, Cancel, AskRecorded, Withdraw, Kept, Unfollowed, ReadPending,
                MemberDeletes, DeleteRefused, ForgetWithdrawal, jellypass
  <1>2. CASE AdminNext
    BY <1>2 DEF AdminNext, Act, Approve, Decline, AdminCancel, SendApproval, SendDecline, DeclineRefused,
                DeclineRecorded, LookAtItems, CancelRefused, WithdrawAll, AdminDeletes, AdminFindsGone, jellypass
  <1>3. CASE GrantNext
    BY <1>3 DEF GrantNext, Replay, DropHold, CheckHolds, HoldsChecked, jellypass
  <1>4. CASE RefreshNext
    BY <1>4 DEF RefreshNext, FindGone, ReadRecord, WriteGone, WriteRecord, jellypass
  <1>5. CASE WorldNext
    BY <1>5 DEF WorldNext, SeerrApproves, SeerrDeletes, SeerrCompletes, Arrives, jellypass
  <1>6. CASE Crash \/ UNCHANGED vars
    BY <1>6 DEF Crash, vars, jellypass
  <1> QED BY <1>1, <1>2, <1>3, <1>4, <1>5, <1>6 DEF Next

\* Records end, together, in one way.
Ends(recs) == \E status \in {"deleted", "declined"} : \E withdrawn \in BOOLEAN : Changed(recs, status, withdrawn)

\* What changes records or what the refresh has read; the steps that end records leave the rest as it
\* was.
LEMMA RecordsKinds ==
  ASSUME [Next]_vars
  PROVE  \/ UNCHANGED <<records, refresh>>
         \/ AskRecorded /\ UNCHANGED refresh
         \/ \E recs \in SUBSET records : Ends(recs)
         \/ SettleGrant \/ SettleHold
         \/ WriteRecord
         \/ UNCHANGED records /\ refresh' = Resting
         \/ \E r \in Request : FindGone(r)
         \/ \E rec \in records : ReadRecord(rec)
         \/ JoinRecord
  <1>1. CASE MembersNext
    <2>1. CASE Withdraw
      <3>1. Changed(Own(turn.user, turn.home), "deleted", TRUE)
        BY <2>1 DEF Withdraw
      <3> QED BY <3>1 DEF Own, Ends
    <2>2. CASE AskRecorded
      BY <2>2 DEF AskRecorded
    <2> QED BY <1>1, <2>1, <2>2 DEF MembersNext, AskSeerr, AskFollows, Cancel, Kept, Unfollowed, ReadPending,
                MemberDeletes, DeleteRefused, ForgetWithdrawal, jellypass
  <1>2. CASE AdminNext
    <2>1. \A r : Following(r) \in SUBSET records
      BY DEF Following, Naming
    <2>2. CASE DeclineRecorded \/ WithdrawAll
      <3>1. Changed(Following(turn.req), "declined", FALSE) \/ Changed(Following(turn.req), "deleted", FALSE)
        BY <2>2 DEF DeclineRecorded, WithdrawAll
      <3> QED BY <2>1, <3>1 DEF Ends
    <2>3. CASE AdminFindsGone
      <3>1. Changed(Following(turn.req), "deleted", FALSE) \/ UNCHANGED <<records, refresh>>
        BY <2>3 DEF AdminFindsGone
      <3> QED BY <2>1, <3>1 DEF Ends
    <2> QED BY <1>2, <2>2, <2>3 DEF AdminNext, Act, Approve, Decline, AdminCancel, Release, SendApproval, SendDecline,
                DeclineRefused, LookAtItems, CancelRefused, AdminDeletes, jellypass
  <1>3. CASE GrantNext
    BY <1>3 DEF GrantNext, Grant, Replay, Hold, DropHold, CheckHolds, HoldsChecked, jellypass
  <1>4. CASE RefreshNext
    BY <1>4 DEF RefreshNext, WriteGone
  <1>5. CASE WorldNext
    BY <1>5 DEF WorldNext, SeerrApproves, SeerrDeletes, SeerrCompletes, Arrives, jellypass
  <1>6. CASE Crash \/ UNCHANGED vars
    BY <1>6 DEF Crash, vars, jellypass
  <1> QED BY <1>1, <1>2, <1>3, <1>4, <1>5, <1>6 DEF Next

\* A turn goes from stage to stage, keeping all but its stage and, of a member's cancel, the request it finds
\* and, of an administrator's, the hold.
LEMMA TurnKinds ==
  ASSUME [Next]_vars
  PROVE  \/ UNCHANGED turn
         \/ turn' = NoTurn
         \/ \E u \in Member : \E h \in Household : AskSeerr(u, h) \/ AskFollows(u, h) \/ Cancel(u, h)
         \/ \E r \in Request : Approve(r) \/ Decline(r) \/ AdminCancel(r)
         \/ Withdraw \/ Unfollowed \/ ReadPending \/ MemberDeletes
         \/ SendDecline \/ LookAtItems \/ WithdrawAll \/ AdminDeletes
  <1>1. CASE MembersNext
    BY <1>1 DEF MembersNext, AskRecorded, Kept, DeleteRefused, ForgetWithdrawal
  <1>2. CASE AdminNext
    BY <1>2 DEF AdminNext, Release, SendApproval, DeclineRefused, DeclineRecorded, CancelRefused, AdminFindsGone
  <1>3. CASE GrantNext
    BY <1>3 DEF GrantNext, Grant, Replay, Hold, DropHold, SettleGrant, CheckHolds, SettleHold, HoldsChecked
  <1>4. CASE RefreshNext
    BY <1>4 DEF RefreshNext, FindGone, ReadRecord, WriteGone, JoinRecord, WriteRecord
  <1>5. CASE WorldNext
    BY <1>5 DEF WorldNext, SeerrApproves, SeerrDeletes, SeerrCompletes, Arrives
  <1>6. CASE Crash \/ UNCHANGED vars
    BY <1>6 DEF Crash, vars
  <1> QED BY <1>1, <1>2, <1>3, <1>4, <1>5, <1>6 DEF Next

\* What adds to who gave up and who left, and what to the withdrawals lost.
LEMMA HistoryKinds ==
  ASSUME [Next]_vars
  PROVE  /\ UNCHANGED <<dropped, left>> \/ Withdraw \/ DeclineRecorded \/ WithdrawAll
         /\ UNCHANGED losses \/ AdminFindsGone \/ WriteGone \/ \E r \in Request : FindGone(r) \/ DropHold(r)
  <1>1. CASE MembersNext
    BY <1>1 DEF MembersNext, Withdraw, AskSeerr, AskFollows, Cancel, AskRecorded, Kept, Unfollowed, ReadPending, MemberDeletes,
                DeleteRefused, ForgetWithdrawal, history
  <1>2. CASE AdminNext
    BY <1>2 DEF AdminNext, Act, Approve, Decline, AdminCancel, Release, SendApproval, SendDecline, DeclineRefused,
                LookAtItems, CancelRefused, AdminDeletes, AdminFindsGone, Withdraw, DeclineRecorded, WithdrawAll, Forgetting, history
  <1>3. CASE GrantNext
    BY <1>3 DEF GrantNext, Grant, Replay, Hold, DropHold, SettleGrant, CheckHolds, SettleHold, HoldsChecked, Forgetting, history
  <1>4. CASE RefreshNext
    BY <1>4 DEF RefreshNext, FindGone, ReadRecord, WriteGone, JoinRecord, WriteRecord, Forgetting, history
  <1>5. CASE WorldNext
    BY <1>5 DEF WorldNext, SeerrApproves, SeerrDeletes, SeerrCompletes, Arrives, history
  <1>6. CASE Crash \/ UNCHANGED vars
    BY <1>6 DEF Crash, vars, history
  <1> QED BY <1>1, <1>2, <1>3, <1>4, <1>5, <1>6 DEF Next

-----------------------------------------------------------------------------
(* Type correctness *)

\* A request with another status is a request.
LEMMA StatusTyped ==
  ASSUME seerr \in [Request -> SeerrRequest], NEW r, NEW s \in {"none", "pending", "approved", "declined", "completed", "gone"}
  PROVE  [seerr EXCEPT ![r].status = s] \in [Request -> SeerrRequest]
  BY DEF SeerrRequest

\* A merged withdrawal is one, of the households, requester and hold of both.
LEMMA MergedTyped ==
  ASSUME NEW w \in Withdrawal, NEW homes \in SUBSET Household, NEW requester \in BOOLEAN, NEW hold \in BOOLEAN
  PROVE  /\ Merged(w, homes, requester, hold) \in Withdrawal
         /\ Merged(w, homes, requester, hold).homes = w.homes \cup homes
         /\ Merged(w, homes, requester, hold).requester = (w.requester \/ requester)
         /\ Merged(w, homes, requester, hold).hold = (w.hold \/ hold)
         /\ Merged(w, homes, requester, hold).gone = w.gone
  BY DEF Merged, Withdrawal

\* No withdrawal is a value of the ledger.
LEMMA NoWithdrawalTyped == NoWithdrawal \in Withdrawal
  BY DEF NoWithdrawal, Withdrawal

\* Pruning leaves a ledger.
LEMMA PrunedTyped ==
  ASSUME NEW ws \in [Request -> Withdrawal], NEW done, NEW recorded
  PROVE  Pruned(ws, done, recorded) \in [Request -> Withdrawal]
  BY NoWithdrawalTyped DEF Pruned

\* Recording that a request is gone leaves a ledger.
LEMMA RequestGoneTyped ==
  ASSUME withdrawals \in [Request -> Withdrawal], NEW r \in Request
  PROVE  RequestGone(withdrawals, r) \in [Request -> Withdrawal]
  <1> DEFINE w == withdrawals[r]
  <1>1. [w EXCEPT !.gone = TRUE] \in Withdrawal
    BY DEF Withdrawal
  <1> QED BY <1>1, NoWithdrawalTyped DEF RequestGone

\* The households of records are households.
LEMMA HomesTyped ==
  ASSUME NEW recs \in SUBSET Record
  PROVE  HomesOf(recs) \subseteq Household
  BY DEF HomesOf, Record

\* The withdrawals a member's cancel adds.
LEMMA WithdrawnFields ==
  ASSUME withdrawals \in [Request -> Withdrawal], NEW recs \in SUBSET Record, NEW r \in Request
  PROVE  LET mine == {rec \in Waiting(recs) : rec.req = r}
             own  == \E rec \in mine : rec.branch = "request"
         IN  /\ Withdrawn(recs)[r] = IF mine = {} THEN withdrawals[r] ELSE Merged(withdrawals[r], HomesOf(mine), own, own)
             /\ Withdrawn(recs)[r] \in Withdrawal
  <1> DEFINE mine == {rec \in Waiting(recs) : rec.req = r}
             own  == \E rec \in mine : rec.branch = "request"
  <1>1. Withdrawn(recs)[r] = IF mine = {} THEN withdrawals[r] ELSE Merged(withdrawals[r], HomesOf(mine), own, own)
    BY DEF Withdrawn
  <1>2. HomesOf(mine) \subseteq Household
    BY HomesTyped DEF Waiting
  <1>3. own \in BOOLEAN
    OBVIOUS
  <1>4. withdrawals[r] \in Withdrawal
    OBVIOUS
  <1> HIDE DEF own, mine
  <1>5. Merged(withdrawals[r], HomesOf(mine), own, own) \in Withdrawal
    BY <1>2, <1>3, <1>4, MergedTyped
  <1> QED BY <1>1, <1>4, <1>5 DEF own, mine

\* Withdrawing households from their requests leaves a ledger.
LEMMA WithdrawnTyped ==
  ASSUME withdrawals \in [Request -> Withdrawal], NEW recs \in SUBSET Record
  PROVE  Withdrawn(recs) \in [Request -> Withdrawal]
  <1>1. \A r \in Request : Withdrawn(recs)[r] \in Withdrawal
    BY WithdrawnFields
  <1>2. Withdrawn(recs) = [r \in Request |-> Withdrawn(recs)[r]]
    BY DEF Withdrawn
  <1> QED BY <1>1, <1>2

\* Withdrawing everybody from a request changes that request's withdrawal and no other.
LEMMA ForAllTyped ==
  ASSUME withdrawals \in [Request -> Withdrawal], records \subseteq Record, NEW r \in Request, NEW hold \in BOOLEAN
  PROVE  /\ WithdrawnForAll(r, hold) \in [Request -> Withdrawal]
         /\ WithdrawnForAll(r, hold)[r] = Merged(withdrawals[r], HomesOf(Naming(r)), TRUE, hold)
         /\ \A q \in Request \ {r} : WithdrawnForAll(r, hold)[q] = withdrawals[q]
  <1>1. HomesOf(Naming(r)) \subseteq Household
    BY HomesTyped DEF Naming
  <1>2. Merged(withdrawals[r], HomesOf(Naming(r)), TRUE, hold) \in Withdrawal
    BY <1>1, MergedTyped
  <1> QED BY <1>2 DEF WithdrawnForAll

\* Every step keeps the types of Seerr, Radarr and Jellyfin.
LEMMA WorldStep ==
  ASSUME TypeInv, [Next]_vars
  PROVE  seerr' \in [Request -> SeerrRequest] /\ sent' \subseteq Request /\ here' \in BOOLEAN
  <1>1. seerr \in [Request -> SeerrRequest] /\ sent \subseteq Request /\ here \in BOOLEAN
    BY DEF TypeInv, TypeOK
  <1>2. turn.op # "none" /\ turn.at # "viewed" => turn.req \in Request
    BY DEF TypeInv, TurnInv
  <1>3. here' = here \/ here' = TRUE
    <2>1. CASE MembersNext
      BY <2>1 DEF MembersNext, AskSeerr, AskFollows, Cancel, AskRecorded, Withdraw, Kept, Unfollowed, ReadPending,
                  MemberDeletes, DeleteRefused, ForgetWithdrawal, world
    <2>2. CASE AdminNext
      BY <2>2 DEF AdminNext, Act, Approve, Decline, AdminCancel, Release, SendApproval, SendDecline, DeclineRefused,
                  DeclineRecorded, LookAtItems, CancelRefused, WithdrawAll, AdminDeletes, AdminFindsGone, world
    <2>3. CASE GrantNext
      BY <2>3 DEF GrantNext, Grant, Replay, Hold, DropHold, SettleGrant, CheckHolds, SettleHold, HoldsChecked, world
    <2>4. CASE RefreshNext
      BY <2>4 DEF RefreshNext, FindGone, ReadRecord, WriteGone, JoinRecord, WriteRecord, world
    <2>5. CASE WorldNext
      BY <2>5 DEF WorldNext, SeerrApproves, SeerrDeletes, SeerrCompletes, Arrives
    <2>6. CASE Crash \/ UNCHANGED vars
      BY <2>6 DEF Crash, vars, world
    <2> QED BY <2>1, <2>2, <2>3, <2>4, <2>5, <2>6 DEF Next
  <1>4. CASE UNCHANGED <<seerr, sent>>
    BY <1>1, <1>3, <1>4
  <1>5. ASSUME NEW u \in Member, NEW h \in Household, AskSeerr(u, h) PROVE seerr' \in [Request -> SeerrRequest] /\ sent' = sent
    <2>1. PICK r \in Request : seerr' = [seerr EXCEPT ![r].by = u, ![r].status = "pending"]
      BY <1>5 DEF AskSeerr
    <2> QED BY <1>1, <1>5, <2>1 DEF AskSeerr, SeerrRequest
  <1>6. CASE MemberDeletes \/ SendDecline \/ AdminDeletes
    <2>1. PICK s \in {"gone", "declined"} : seerr' = [seerr EXCEPT ![turn.req].status = s] \/ seerr' = seerr
      BY <1>6 DEF MemberDeletes, SendDecline, AdminDeletes
    <2>2. sent' = sent
      BY <1>6 DEF MemberDeletes, SendDecline, AdminDeletes
    <2>3. [seerr EXCEPT ![turn.req].status = s] \in [Request -> SeerrRequest]
      BY <1>1, StatusTyped
    <2> QED BY <1>1, <1>3, <2>1, <2>2, <2>3
  <1>7. CASE SendApproval
    <2>1. turn.req \in Request
      BY <1>2, <1>7 DEF SendApproval, TypeInv, TurnInv
    <2>2. /\ seerr' = [seerr EXCEPT ![turn.req].status = "approved"] \/ seerr' = seerr
          /\ sent' \subseteq sent \cup {turn.req}
      BY <1>7 DEF SendApproval
    <2>3. [seerr EXCEPT ![turn.req].status = "approved"] \in [Request -> SeerrRequest]
      BY <1>1, StatusTyped
    <2> QED BY <1>1, <1>3, <2>1, <2>2, <2>3
  <1>8. ASSUME NEW r \in Request, SeerrApproves(r) \/ SeerrDeletes(r)
        PROVE  seerr' \in [Request -> SeerrRequest] /\ sent' \subseteq Request
    <2>1. PICK s \in {"gone", "approved"} : seerr' = [seerr EXCEPT ![r].status = s]
      BY <1>8 DEF SeerrApproves, SeerrDeletes
    <2>2. sent' \subseteq sent \cup {r}
      BY <1>8 DEF SeerrApproves, SeerrDeletes
    <2>3. [seerr EXCEPT ![r].status = s] \in [Request -> SeerrRequest]
      BY <1>1, StatusTyped
    <2> QED BY <1>1, <2>1, <2>2, <2>3
  <1>9. ASSUME NEW r \in Request, SeerrCompletes(r)
        PROVE  seerr' \in [Request -> SeerrRequest] /\ sent' = sent
    BY <1>1, <1>9 DEF SeerrCompletes, SeerrRequest
  <1> QED BY <1>1, <1>3, <1>4, <1>5, <1>6, <1>7, <1>8, <1>9, SeerrKinds

\* What is known of a member's withdrawals and of an administrator's.
LEMMA WithdrawFacts ==
  ASSUME TypeInv, Withdraw
  PROVE  LET recs == Own(turn.user, turn.home)
             mine == {rec.req : rec \in {x \in Waiting(recs) : x.branch = "request"}}
         IN  /\ recs \subseteq records /\ recs \in SUBSET Record /\ mine \subseteq Request
             /\ Waiting(recs) \subseteq recs /\ \A rec \in Waiting(recs) : rec.req \in Request \ handled
             /\ withdrawals' = Pruned(Withdrawn(recs), handled, granted)
             /\ dropped' = dropped \cup mine
             /\ left' = left \cup {<<rec.req, rec.home>> : rec \in Waiting(recs)}
             /\ turn' = NoTurn \/ \E r \in mine : turn' = [turn EXCEPT !.at = "withdrawn", !.req = r]
  <1> DEFINE recs == Own(turn.user, turn.home)
             mine == {rec.req : rec \in {x \in Waiting(recs) : x.branch = "request"}}
  <1>1. recs \subseteq records /\ records \subseteq Record
    BY DEF Own, TypeInv, TypeOK
  <1>2. Waiting(recs) \subseteq recs /\ \A rec \in Waiting(recs) : rec.req \in Request \ handled
    BY <1>1 DEF Waiting, Record
  <1>3. mine \subseteq Request
    BY <1>2
  <1>4. /\ withdrawals' = Pruned(Withdrawn(recs), handled, granted)
        /\ dropped' = dropped \cup mine
        /\ left' = left \cup {<<rec.req, rec.home>> : rec \in Waiting(recs)}
        /\ turn' = IF mine = {} THEN NoTurn ELSE [turn EXCEPT !.at = "withdrawn", !.req = CHOOSE r \in mine : TRUE]
    BY DEF Withdraw
  <1> HIDE DEF mine
  <1>5. mine # {} => (CHOOSE r \in mine : TRUE) \in mine
    OBVIOUS
  <1>6. turn' = NoTurn \/ \E r \in mine : turn' = [turn EXCEPT !.at = "withdrawn", !.req = r]
    BY <1>4, <1>5
  <1> QED BY <1>1, <1>2, <1>3, <1>4, <1>6 DEF mine

\* What a decline or an administrator's cancel records: everybody whose record names the request is
\* withdrawn from it.
LEMMA ForAllFacts ==
  ASSUME TypeInv, DeclineRecorded \/ WithdrawAll
  PROVE  /\ turn.req \in Request
         /\ turn.req \notin handled \/ DeclineRecorded
         /\ \E hold \in BOOLEAN : /\ withdrawals' = WithdrawnForAll(turn.req, hold)
                                  /\ hold = (DeclineRecorded \/ turn.hold)
         /\ dropped' = dropped \cup {turn.req}
         /\ left' = left \cup ({turn.req} \X HomesOf(Naming(turn.req)))
         /\ UNCHANGED <<handled, granted>>
  <1>1. turn.op # "none" /\ turn.at # "viewed"
    BY DEF DeclineRecorded, WithdrawAll
  <1>2. turn.req \in Request /\ turn.hold \in BOOLEAN
    BY <1>1 DEF TypeInv, TurnInv, Turn
  <1>3. /\ dropped' = dropped \cup {turn.req} /\ left' = left \cup ({turn.req} \X HomesOf(Naming(turn.req)))
        /\ UNCHANGED <<handled, granted>>
    BY DEF DeclineRecorded, WithdrawAll, LeaveAll
  <1>4. CASE DeclineRecorded
    BY <1>2, <1>3, <1>4 DEF DeclineRecorded
  <1>5. CASE WithdrawAll /\ ~DeclineRecorded
    BY <1>2, <1>3, <1>5 DEF WithdrawAll
  <1> QED BY <1>4, <1>5

\* What a grant or a hold stores: the request granted and handled, to households of its requester at
\* most.
LEMMA GrantedFacts ==
  ASSUME TypeInv, NEW r \in Request, Grant(r) \/ Hold(r)
  PROVE  /\ granted' = granted \cup {r} /\ handled' = handled \cup {r}
         /\ groups' = groups \cup GrantGroups(r)
         /\ withdrawals' = Pruned(withdrawals, handled', granted')
         /\ GrantGroups(r) \subseteq Homes[seerr[r].by]
  BY DEF Grant, Hold, GrantedTo, GrantGroups

\* Every step keeps the types of the ledger, and grants exactly what it handles.
LEMMA LedgerStep ==
  ASSUME TypeInv, [Next]_vars
  PROVE  withdrawals' \in [Request -> Withdrawal] /\ handled' \subseteq Request /\ granted' = handled'
  <1>1. /\ withdrawals \in [Request -> Withdrawal] /\ handled \subseteq Request /\ granted = handled
        /\ records \subseteq Record
    BY DEF TypeInv, TypeOK
  <1>2. CASE UNCHANGED <<withdrawals, handled, granted>>
    BY <1>1, <1>2
  <1>3. CASE Withdraw
    <2> DEFINE recs == Own(turn.user, turn.home)
    <2>1. withdrawals' = Pruned(Withdrawn(recs), handled, granted) /\ recs \in SUBSET Record
      BY <1>3, WithdrawFacts
    <2>2. UNCHANGED <<handled, granted>>
      BY <1>3 DEF Withdraw
    <2> HIDE DEF recs
    <2> QED BY <1>1, <2>1, <2>2, WithdrawnTyped, PrunedTyped
  <1>4. CASE ForgetWithdrawal
    BY <1>1, <1>4, NoWithdrawalTyped DEF ForgetWithdrawal
  <1>5. CASE DeclineRecorded \/ WithdrawAll
    <2>1. turn.req \in Request /\ UNCHANGED <<handled, granted>>
      BY <1>5, ForAllFacts
    <2>2. PICK hold \in BOOLEAN : withdrawals' = WithdrawnForAll(turn.req, hold)
      BY <1>5, ForAllFacts
    <2>3. WithdrawnForAll(turn.req, hold) \in [Request -> Withdrawal]
      BY <1>1, <2>1, ForAllTyped
    <2> QED BY <1>1, <2>1, <2>2, <2>3
  <1>6. CASE AdminFindsGone \/ WriteGone
    <2>1. UNCHANGED <<handled, granted>>
      BY <1>6 DEF AdminFindsGone, WriteGone
    <2>2. \E r : withdrawals' = RequestGone(withdrawals, r)
      BY <1>6 DEF AdminFindsGone, WriteGone
    <2>3. \A r : RequestGone(withdrawals, r) \in [Request -> Withdrawal]
      <3>1. ASSUME NEW r, r \notin Request PROVE RequestGone(withdrawals, r) \in [Request -> Withdrawal]
        BY <1>1, <3>1 DEF RequestGone
      <3> QED BY <1>1, <3>1, RequestGoneTyped
    <2> QED BY <1>1, <2>1, <2>2, <2>3
  <1>7. ASSUME NEW r \in Request, Grant(r) \/ Hold(r)
        PROVE  withdrawals' \in [Request -> Withdrawal] /\ handled' \subseteq Request /\ granted' = handled'
    <2>1. /\ granted' = granted \cup {r} /\ handled' = handled \cup {r}
          /\ withdrawals' = Pruned(withdrawals, handled', granted')
      BY <1>7, GrantedFacts
    <2>2. \A done, recorded : Pruned(withdrawals, done, recorded) \in [Request -> Withdrawal]
      BY <1>1, PrunedTyped
    <2> QED BY <1>1, <2>1, <2>2
  <1>8. ASSUME NEW r \in Request, DropHold(r)
        PROVE  withdrawals' \in [Request -> Withdrawal] /\ UNCHANGED <<handled, granted>>
    <2> DEFINE w == withdrawals[r]
    <2>1. [w EXCEPT !.gone = FALSE] \in Withdrawal
      BY <1>1 DEF Withdrawal
    <2> QED BY <1>1, <1>8, <2>1, NoWithdrawalTyped DEF DropHold, DroppedHold
  <1> QED BY <1>1, <1>2, <1>3, <1>4, <1>5, <1>6, <1>7, <1>8, LedgerKinds

\* Records that end keep their homes, members and branches; the others are as they were.
LEMMA ChangedFacts ==
  ASSUME records \subseteq Record, NEW recs \in SUBSET records, NEW status \in Statuses, NEW withdrawn \in BOOLEAN,
         Changed(recs, status, withdrawn)
  PROVE  /\ records' \subseteq Record
         /\ \A rec \in records' : \/ rec \in records \ recs
                                  \/ \E x \in recs : /\ rec.home = x.home /\ rec.user = x.user /\ rec.branch = x.branch
                                                     /\ rec.req = x.req /\ rec.status = status
         /\ refresh' = IF refresh.rec \cap recs # {} THEN [refresh EXCEPT !.fresh = FALSE] ELSE refresh
  <1>1. /\ records' = (records \ recs) \cup {[rec EXCEPT !.status = status, !.withdrawn = withdrawn] : rec \in recs}
        /\ refresh' = IF refresh.rec \cap recs # {} THEN [refresh EXCEPT !.fresh = FALSE] ELSE refresh
    BY DEF Changed
  <1>2. \A x \in recs : LET rec == [x EXCEPT !.status = status, !.withdrawn = withdrawn]
                        IN  /\ rec \in Record /\ rec.home = x.home /\ rec.user = x.user /\ rec.branch = x.branch
                            /\ rec.req = x.req /\ rec.status = status
    BY DEF Record, Statuses
  <1> QED BY <1>1, <1>2

\* As a refresh writes one.
LEMMA WriteRecordFacts ==
  ASSUME TypeInv, WriteRecord
  PROVE  /\ records' \subseteq Record
         /\ \A rec \in records' :
              \/ rec \in records
              \/ /\ refresh.fresh
                 /\ \E x \in refresh.rec : /\ rec.home = x.home /\ rec.user = x.user /\ rec.branch = x.branch
                                           /\ rec.req = x.req /\ rec.status = refresh.status
         /\ refresh.status \in {"completed", "declined", "deleted"}
         /\ refresh' = Resting
  <1>1. /\ refresh.at = "read" /\ refresh' = Resting
        /\ records' = IF refresh.fresh
                      THEN (records \ refresh.rec) \cup {[rec EXCEPT !.status = refresh.status] : rec \in refresh.rec}
                      ELSE records
    BY DEF WriteRecord
  <1>2. refresh.rec \subseteq Record /\ records \subseteq Record /\ refresh.status \in {"completed", "declined", "deleted"}
    BY <1>1 DEF TypeInv, TypeOK, RefreshInv
  <1>3. \A x \in refresh.rec : LET rec == [x EXCEPT !.status = refresh.status]
                               IN  /\ rec \in Record /\ rec.home = x.home /\ rec.user = x.user /\ rec.branch = x.branch
                                   /\ rec.req = x.req /\ rec.status = refresh.status
    BY <1>2 DEF Record
  <1> QED BY <1>1, <1>2, <1>3

\* A grant settles records that wait, and puts their homes on it where they follow.
LEMMA SettleFacts ==
  ASSUME SettleGrant \/ SettleHold
  PROVE  \E r : /\ Settled(r) \subseteq Pending
                /\ Changed(Settled(r), "completed", FALSE)
                /\ groups' = groups \cup HomesOf(Joining(r))
                /\ Joining(r) \subseteq Settled(r)
                /\ \A rec \in Settled(r) : rec.branch = "interest" => rec.home \in groups'
  <1>1. Changed(Settled(job.req), "completed", FALSE) /\ groups' = groups \cup HomesOf(Joining(job.req))
    BY DEF SettleGrant, SettleHold, Settle
  <1> QED BY <1>1 DEF Settled, Joining, HomesOf

\* Asking adds one pending record.
LEMMA AskRecordedFacts ==
  ASSUME TypeInv, AskRecorded
  PROVE  \E rec \in Record : records' = records \cup {rec} /\ rec.status = "pending"
  <1> DEFINE rec == [home |-> turn.home, user |-> turn.user, req |-> turn.req, status |-> "pending", withdrawn |-> FALSE,
                     branch |-> IF seerr[turn.req].by = turn.user THEN "request" ELSE "interest"]
  <1>1. turn.home \in Household /\ turn.user \in Member /\ turn.req \in Request
    BY DEF AskRecorded, TypeInv, TurnInv
  <1>2. rec \in Record /\ rec.status = "pending"
    BY <1>1 DEF Record
  <1>3. records' = records \cup {rec}
    BY DEF AskRecorded
  <1> QED BY <1>2, <1>3

\* A resting refresh, field by field.
LEMMA RestingTyped == Resting = [at |-> "idle", req |-> NoRequest, rec |-> {}, fresh |-> FALSE, status |-> "none"]
  BY DEF Resting

\* Every step keeps the types of the records and of the refresh.
LEMMA RecordsStep ==
  ASSUME TypeInv, [Next]_vars
  PROVE  records' \subseteq Record /\ RefreshInv'
  <1>1. records \subseteq Record /\ RefreshInv
    BY DEF TypeInv, TypeOK
  <1>2. ASSUME NEW recs \in SUBSET records, NEW status \in Statuses, NEW withdrawn \in BOOLEAN,
               Changed(recs, status, withdrawn)
        PROVE  records' \subseteq Record /\ RefreshInv'
    <2>1. /\ records' \subseteq Record
          /\ refresh' = refresh \/ refresh' = [refresh EXCEPT !.fresh = FALSE]
      BY <1>1, <1>2, ChangedFacts
    <2> QED BY <1>1, <2>1 DEF RefreshInv
  <1>3. CASE \E recs \in SUBSET records : Ends(recs)
    BY <1>2, <1>3 DEF Ends, Statuses
  <1>4. CASE SettleGrant \/ SettleHold
    BY <1>2, <1>4, SettleFacts DEF Pending, Statuses
  <1>5. refresh' = Resting => RefreshInv'
    BY RestingTyped DEF RefreshInv
  <1>6. CASE WriteRecord
    BY <1>5, <1>6, WriteRecordFacts
  <1>7. CASE UNCHANGED <<records, refresh>>
    BY <1>1, <1>7 DEF RefreshInv
  <1>8. CASE AskRecorded /\ UNCHANGED refresh
    BY <1>1, <1>8, AskRecordedFacts DEF RefreshInv
  <1>9. CASE UNCHANGED records /\ refresh' = Resting
    BY <1>1, <1>5, <1>9
  <1>10. ASSUME NEW r \in Request, FindGone(r) PROVE records' \subseteq Record /\ RefreshInv'
    BY <1>1, <1>10, RestingTyped DEF FindGone, jellypass, RefreshInv
  <1>11. ASSUME NEW rec \in records, ReadRecord(rec) PROVE records' \subseteq Record /\ RefreshInv'
    <2>1. Current(rec) \in {"join", "completed", "declined", "deleted"}
      BY <1>11 DEF ReadRecord, Current
    <2> DEFINE st == Current(rec)
    <2>2. refresh' = [Resting EXCEPT !.at = IF st = "join" THEN "join" ELSE "read", !.rec = {rec}, !.fresh = TRUE, !.status = st]
      BY <1>11 DEF ReadRecord
    <2>3. UNCHANGED records
      BY <1>11 DEF ReadRecord, jellypass
    <2> HIDE DEF st
    <2>4. st \in {"join", "completed", "declined", "deleted"}
      BY <2>1 DEF st
    <2> QED BY <1>1, <2>2, <2>3, <2>4, RestingTyped DEF RefreshInv
  <1>12. CASE JoinRecord
    BY <1>1, <1>5, <1>12 DEF JoinRecord, RefreshInv
  <1> QED BY <1>3, <1>4, <1>6, <1>7, <1>8, <1>9, <1>10, <1>11, <1>12, RecordsKinds

\* Every step keeps the grant's households among the households.
LEMMA GroupsStep ==
  ASSUME TypeInv, [Next]_vars
  PROVE  groups' \subseteq Household
  <1>1. groups \subseteq Household /\ records \subseteq Record /\ RefreshInv /\ seerr \in [Request -> SeerrRequest]
    BY DEF TypeInv, TypeOK
  <1>2. CASE JoinRecord
    BY <1>1, <1>2, HomesTyped DEF JoinRecord, RefreshInv
  <1>3. CASE SettleGrant \/ SettleHold
    <2>1. PICK r : groups' = groups \cup HomesOf(Joining(r)) /\ Joining(r) \subseteq Settled(r) /\ Settled(r) \subseteq Pending
      BY <1>3, SettleFacts
    <2>2. Joining(r) \subseteq Record
      BY <1>1, <2>1 DEF Pending
    <2> QED BY <1>1, <2>1, <2>2, HomesTyped
  <1>4. ASSUME NEW r \in Request, Grant(r) \/ Hold(r) PROVE groups' \subseteq Household
    <2>1. groups' = groups \cup GrantGroups(r)
      BY <1>4, GrantedFacts
    <2>2. CASE Grant(r)
      <3>1. seerr[r].by \in Member
        BY <2>2 DEF Grant, TypeInv, AskedInv
      <3>2. Homes[seerr[r].by] \subseteq Household
        BY <3>1, HomesAssumption
      <3> QED BY <1>1, <2>1, <3>2 DEF GrantGroups
    <2>3. CASE Hold(r)
      <3>1. GrantGroups(r) = {}
        BY <2>3 DEF Hold, TitleHolds, BecomesTitleHold, GrantGroups, Withdrew
      <3> QED BY <1>1, <2>1, <3>1
    <2> QED BY <1>4, <2>2, <2>3
  <1>5. ASSUME NEW h \in Household, Release(h) PROVE groups' \subseteq Household
    BY <1>1, <1>5 DEF Release
  <1> QED BY <1>1, <1>2, <1>3, <1>4, <1>5, GroupsKinds

\* A title whose turn nobody holds, field by field.
LEMMA NoTurnTyped == NoTurn = [op |-> "none", at |-> "idle", home |-> Nobody, user |-> Nobody, req |-> NoRequest, hold |-> FALSE]
  BY DEF NoTurn

\* A turn that is taken, or goes on: of a member's cancel, with the request that was found.
LEMMA TurnMoves ==
  ASSUME TypeInv, [Next]_vars, turn'.op # "none"
  PROVE  \/ turn' = turn
         \/ \E u \in Member : \E h \in Household : AskSeerr(u, h) \/ AskFollows(u, h) \/ Cancel(u, h)
         \/ \E r \in Request : Approve(r) \/ Decline(r) \/ AdminCancel(r)
         \/ Withdraw /\ turn'.op = turn.op /\ turn'.at = "withdrawn"
         \/ /\ turn'.op = turn.op /\ turn'.req = turn.req
            /\ \/ Unfollowed /\ turn'.at = "unfollowed"
               \/ ReadPending /\ turn'.at = "read"
               \/ MemberDeletes /\ turn'.at = "deleted"
               \/ SendDecline /\ turn'.at = "declined"
               \/ LookAtItems /\ turn'.at = "read" /\ turn'.hold = Undecided
               \/ WithdrawAll /\ turn'.at = "withdrawn"
               \/ AdminDeletes /\ turn'.at = "deleted"
  <1>1. turn \in Turn /\ NoTurn.op = "none"
    BY NoTurnTyped DEF TypeInv, TurnInv
  <1>2. \A at : /\ [turn EXCEPT !.at = at].op = turn.op /\ [turn EXCEPT !.at = at].req = turn.req
                /\ [turn EXCEPT !.at = at].at = at
    BY <1>1 DEF Turn
  <1>3. CASE Unfollowed
    BY <1>2, <1>3 DEF Unfollowed
  <1>4. CASE ReadPending
    BY <1>1, <1>2, <1>4 DEF ReadPending
  <1>5. CASE MemberDeletes
    <2>1. turn' = NoTurn \/ turn' = [turn EXCEPT !.at = "deleted"]
      BY <1>5 DEF MemberDeletes
    <2> QED BY <1>1, <1>2, <1>5, <2>1
  <1>6. CASE SendDecline
    BY <1>2, <1>6 DEF SendDecline
  <1>7. CASE LookAtItems
    BY <1>1, <1>7 DEF LookAtItems, Turn
  <1>8. CASE WithdrawAll
    BY <1>2, <1>8 DEF WithdrawAll
  <1>9. CASE AdminDeletes
    BY <1>1, <1>2, <1>9 DEF AdminDeletes
  <1>10. CASE Withdraw
    <2>1. \A r : [turn EXCEPT !.at = "withdrawn", !.req = r].op = turn.op /\ [turn EXCEPT !.at = "withdrawn", !.req = r].at = "withdrawn"
      BY <1>1 DEF Turn
    <2>2. turn' = NoTurn \/ \E r : turn' = [turn EXCEPT !.at = "withdrawn", !.req = r]
      BY <1>10 DEF Withdraw
    <2> QED BY <1>1, <1>10, <2>1, <2>2
  <1> QED BY <1>1, <1>3, <1>4, <1>5, <1>6, <1>7, <1>8, <1>9, <1>10, TurnKinds

\* The holder of the turn goes to another stage, with a request and whether to hold it.
LEMMA TurnMoved ==
  ASSUME TurnInv, NEW at \in Stages \ {"viewed"}, NEW req \in Request, NEW hold \in BOOLEAN,
         turn.op \notin {"none", "ask"}, turn' = [turn EXCEPT !.at = at, !.req = req, !.hold = hold]
  PROVE  TurnInv'
  BY DEF TurnInv, Turn

\* Every step keeps the type of the turn.
LEMMA TurnStep ==
  ASSUME TypeInv, [Next]_vars
  PROVE  TurnInv'
  <1> USE DEF TurnInv, Turn, Stages
  <1>1. TurnInv
    BY DEF TypeInv
  <1>2. CASE UNCHANGED turn
    BY <1>1, <1>2
  <1>3. CASE turn' = NoTurn
    BY <1>3, NoTurnTyped
  <1>4. ASSUME NEW u \in Member, NEW h \in Household, AskSeerr(u, h) \/ AskFollows(u, h) \/ Cancel(u, h) PROVE TurnInv'
    <2>1. \/ \E r \in Request : turn' = [NoTurn EXCEPT !.op = "ask", !.at = "made", !.home = h, !.user = u, !.req = r]
          \/ \E r \in Request : turn' = [NoTurn EXCEPT !.op = "ask", !.at = "found", !.home = h, !.user = u, !.req = r]
          \/ turn' = [NoTurn EXCEPT !.op = "cancel", !.at = "viewed", !.home = h, !.user = u]
      BY <1>4 DEF AskSeerr, AskFollows, Cancel
    <2> QED BY <2>1, NoTurnTyped
  <1>5. ASSUME NEW r \in Request, Approve(r) \/ Decline(r) \/ AdminCancel(r) PROVE TurnInv'
    <2>1. \E op \in {"approve", "decline", "adminCancel"} : \E at \in {"read", "readDeclined", "asked", "gone"} :
            turn' = [NoTurn EXCEPT !.op = op, !.at = at, !.req = r]
      BY <1>5 DEF Approve, Decline, AdminCancel, Act
    <2> QED BY <2>1, NoTurnTyped
  <1>6. CASE Withdraw
    <2> DEFINE mine == {rec.req : rec \in {x \in Waiting(Own(turn.user, turn.home)) : x.branch = "request"}}
    <2>1. mine \subseteq Request /\ (turn' = NoTurn \/ \E r \in mine : turn' = [turn EXCEPT !.at = "withdrawn", !.req = r])
      BY <1>6, WithdrawFacts
    <2> HIDE DEF mine
    <2>2. turn.op = "cancel"
      BY <1>6 DEF Withdraw
    <2>3. ASSUME NEW r \in Request, turn' = [turn EXCEPT !.at = "withdrawn", !.req = r] PROVE TurnInv'
      <3> DEFINE hold == turn.hold
      <3>1. turn' = [turn EXCEPT !.at = "withdrawn", !.req = r, !.hold = hold] /\ hold \in BOOLEAN
        BY <1>1, <2>3
      <3> HIDE DEF hold
      <3> QED BY <1>1, <2>2, <3>1, TurnMoved
    <2> QED BY <1>3, <2>1, <2>3
  <1>7. CASE Unfollowed \/ ReadPending \/ MemberDeletes \/ SendDecline \/ LookAtItems \/ WithdrawAll \/ AdminDeletes
    <2>1. turn.op \in {"cancel", "decline", "adminCancel"} /\ turn.at # "viewed"
      BY <1>7 DEF Unfollowed, ReadPending, MemberDeletes, SendDecline, LookAtItems, WithdrawAll, AdminDeletes
    <2>2. \/ turn' = NoTurn
          \/ \E at \in {"unfollowed", "read", "deleted", "declined", "withdrawn"} :
               \/ turn' = [turn EXCEPT !.at = at]
               \/ \E hold \in BOOLEAN : turn' = [turn EXCEPT !.at = at, !.hold = hold]
      BY <1>7 DEF Unfollowed, ReadPending, MemberDeletes, SendDecline, LookAtItems, WithdrawAll, AdminDeletes, Undecided
    <2>3. ASSUME NEW at \in {"unfollowed", "read", "deleted", "declined", "withdrawn"}, NEW hold \in BOOLEAN,
                 turn' = [turn EXCEPT !.at = at] \/ turn' = [turn EXCEPT !.at = at, !.hold = hold]
          PROVE  TurnInv'
      <3> DEFINE req == turn.req
                 h == turn'.hold
      <3>1. turn' = [turn EXCEPT !.at = at, !.req = req, !.hold = h] /\ h \in BOOLEAN /\ req \in Request
        BY <1>1, <2>1, <2>3
      <3> HIDE DEF req, h
      <3> QED BY <1>1, <2>1, <3>1, TurnMoved
    <2> QED BY <1>3, <2>2, <2>3
  <1> QED BY <1>2, <1>3, <1>4, <1>5, <1>6, <1>7, TurnKinds

\* Every step keeps the types of who gave up and who left.
LEMMA HistoryStep ==
  ASSUME TypeInv, [Next]_vars
  PROVE  dropped' \subseteq Request /\ left' \subseteq Request \X Household
  <1>1. dropped \subseteq Request /\ left \subseteq Request \X Household /\ records \subseteq Record
    BY DEF TypeInv, TypeOK
  <1>2. CASE UNCHANGED <<dropped, left>>
    BY <1>1, <1>2
  <1>3. CASE Withdraw
    <2> DEFINE recs == Waiting(Own(turn.user, turn.home))
    <2>1. /\ dropped' = dropped \cup {rec.req : rec \in {x \in recs : x.branch = "request"}}
          /\ left' = left \cup {<<rec.req, rec.home>> : rec \in recs}
          /\ recs \subseteq Record
      BY <1>3, WithdrawFacts
    <2> HIDE DEF recs
    <2> QED BY <1>1, <2>1 DEF Record
  <1>4. CASE DeclineRecorded \/ WithdrawAll
    <2>1. HomesOf(Naming(turn.req)) \subseteq Household
      BY <1>1, HomesTyped DEF Naming
    <2> QED BY <1>1, <1>4, <2>1, ForAllFacts
  <1> QED BY <1>2, <1>3, <1>4, HistoryKinds

\* A request once overtaken or forgotten stays so; one is newly forgotten where a step drops a withdrawal whose
\* webhook is still out, and newly overtaken where the refresh finds it gone.
LEMMA LossesMoves ==
  ASSUME TypeInv, [Next]_vars
  PROVE  /\ overtaken \subseteq overtaken' /\ overtaken' \subseteq Request
         /\ forgotten \subseteq forgotten' /\ forgotten' \subseteq Request
         /\ \A r \in Request : r \in forgotten' \ forgotten =>
              (AdminFindsGone /\ r = turn.req) \/ (WriteGone /\ r = refresh.req) \/ DropHold(r)
  <1>1. overtaken \subseteq Request /\ forgotten \subseteq Request
    BY DEF TypeInv, TypeOK
  <1>2. CASE UNCHANGED losses
    BY <1>1, <1>2 DEF losses
  <1>3. CASE AdminFindsGone
    <2>1. turn.req \in Request
      BY <1>3 DEF AdminFindsGone, TypeInv, TurnInv
    <2> QED BY <1>1, <1>3, <2>1 DEF AdminFindsGone, Forgetting
  <1>4. CASE WriteGone
    <2>1. refresh.req \in Request
      BY <1>4 DEF WriteGone, TypeInv, RefreshInv
    <2> QED BY <1>1, <1>4, <2>1 DEF WriteGone, Forgetting
  <1>5. ASSUME NEW q \in Request, DropHold(q)
        PROVE  /\ UNCHANGED overtaken /\ forgotten \subseteq forgotten' /\ forgotten' \subseteq forgotten \cup {q}
    BY <1>5 DEF DropHold, Forgetting
  <1>6. ASSUME NEW q \in Request, FindGone(q)
        PROVE  /\ UNCHANGED forgotten /\ overtaken \subseteq overtaken' /\ overtaken' \subseteq overtaken \cup {q}
    BY <1>6 DEF FindGone
  <1> QED BY <1>1, <1>2, <1>3, <1>4, <1>5, <1>6, HistoryKinds

\* A withdrawal dropped because its request is gone, or no longer to be held, is forgotten if its webhook is out.
LEMMA DroppedIsForgotten ==
  ASSUME TypeInv, NEW r \in Request, seerr[r].told, withdrawals[r] # NoWithdrawal, withdrawals'[r] = NoWithdrawal,
         (AdminFindsGone /\ r = turn.req) \/ (WriteGone /\ r = refresh.req) \/ DropHold(r)
  PROVE  r \in forgotten'
  BY DEF AdminFindsGone, WriteGone, DropHold, Forgetting

\* What a step does to one request of Seerr's, but for one made.
LEMMA SeerrMoves ==
  ASSUME TypeInv, [Next]_vars, NEW r \in Request
  PROVE  \/ /\ seerr[r].status = "none" /\ seerr'[r].status = "pending" /\ seerr'[r].told = seerr[r].told
            /\ seerr'[r].by \in Member
         \/ /\ seerr'[r].by = seerr[r].by
            /\ \/ seerr'[r] = seerr[r]
               \/ seerr'[r].status = "gone" /\ seerr'[r].told = seerr[r].told /\ seerr[r].status # "none"
               \/ seerr'[r].status = "gone" /\ seerr'[r].told = seerr[r].told /\ AdminDeletes /\ turn.req = r
               \/ /\ seerr'[r].status \in {"approved", "declined"} /\ seerr'[r].told = seerr[r].told
                  /\ seerr[r].status \in {"pending", "declined"}
               \/ seerr'[r].status = "completed" /\ Live(r)
  <1>1. seerr \in [Request -> SeerrRequest]
    BY DEF TypeInv, TypeOK
  <1>2. seerr[r] \in SeerrRequest
    BY <1>1
  <1>3. ASSUME NEW s, NEW q, seerr' = [seerr EXCEPT ![q].status = s]
        PROVE  seerr'[r] = IF q = r THEN [seerr[r] EXCEPT !.status = s] ELSE seerr[r]
    BY <1>1, <1>3
  <1>4. \A s : LET x == [seerr[r] EXCEPT !.status = s] IN x.status = s /\ x.told = seerr[r].told /\ x.by = seerr[r].by
    BY <1>2 DEF SeerrRequest
  <1>5. CASE UNCHANGED <<seerr, sent>>
    BY <1>5
  <1>6. ASSUME NEW u \in Member, NEW h \in Household, AskSeerr(u, h)
        PROVE  \/ seerr'[r] = seerr[r]
               \/ /\ seerr[r].status = "none" /\ seerr'[r].status = "pending" /\ seerr'[r].told = seerr[r].told
                  /\ seerr'[r].by = u
    <2>1. PICK q \in Request : seerr[q].status = "none" /\ seerr' = [seerr EXCEPT ![q].by = u, ![q].status = "pending"]
      BY <1>6 DEF AskSeerr
    <2> QED BY <1>1, <1>2, <2>1 DEF SeerrRequest
  <1>7. CASE MemberDeletes
    BY <1>3, <1>4, <1>7 DEF MemberDeletes
  <1>8. CASE SendApproval
    <2>1. \/ seerr' = seerr
          \/ seerr[turn.req].status = "pending" /\ seerr' = [seerr EXCEPT ![turn.req].status = "approved"]
      BY <1>8 DEF SendApproval
    <2>2. CASE seerr' # seerr
      <3>1. seerr'[r] = IF turn.req = r THEN [seerr[r] EXCEPT !.status = "approved"] ELSE seerr[r]
        BY <1>3, <2>1, <2>2
      <3> QED BY <1>4, <2>1, <2>2, <3>1
    <2> QED BY <2>2
  <1>9. CASE SendDecline
    <2>1. \/ seerr' = seerr
          \/ seerr[turn.req].status \in {"pending", "declined"} /\ seerr' = [seerr EXCEPT ![turn.req].status = "declined"]
      BY <1>9 DEF SendDecline, SeerrDeclines
    <2>2. CASE seerr' # seerr
      <3>1. seerr'[r] = IF turn.req = r THEN [seerr[r] EXCEPT !.status = "declined"] ELSE seerr[r]
        BY <1>3, <2>1, <2>2
      <3> QED BY <1>4, <2>1, <2>2, <3>1
    <2> QED BY <2>2
  <1>10. CASE AdminDeletes
    <2>1. seerr' = seerr \/ seerr' = [seerr EXCEPT ![turn.req].status = "gone"]
      BY <1>10 DEF AdminDeletes
    <2>2. CASE seerr' # seerr
      <3>1. seerr'[r] = IF turn.req = r THEN [seerr[r] EXCEPT !.status = "gone"] ELSE seerr[r]
        BY <1>3, <2>1, <2>2
      <3> QED BY <1>4, <2>1, <2>2, <3>1, <1>10
    <2> QED BY <2>2
  <1>11. ASSUME NEW q \in Request, SeerrApproves(q)
         PROVE  \/ seerr'[r] = seerr[r]
                \/ /\ seerr'[r].status = "approved" /\ seerr[r].status \in {"pending", "declined"}
                   /\ seerr'[r].told = seerr[r].told /\ seerr'[r].by = seerr[r].by
    BY <1>3, <1>4, <1>11 DEF SeerrApproves
  <1>12. ASSUME NEW q \in Request, SeerrDeletes(q)
         PROVE  \/ seerr'[r] = seerr[r]
                \/ /\ seerr'[r].status = "gone" /\ seerr[r].status # "none"
                   /\ seerr'[r].told = seerr[r].told /\ seerr'[r].by = seerr[r].by
    BY <1>3, <1>4, <1>12 DEF SeerrDeletes
  <1>13. ASSUME NEW q \in Request, SeerrCompletes(q)
         PROVE  seerr'[r] = seerr[r] \/ (seerr'[r].status = "completed" /\ Live(r) /\ seerr'[r].by = seerr[r].by)
    BY <1>1, <1>2, <1>13 DEF SeerrCompletes, SeerrRequest
  <1> QED BY <1>5, <1>6, <1>7, <1>8, <1>9, <1>10, <1>11, <1>12, <1>13, SeerrKinds

\* Every step keeps a requester with each request Seerr has or had.
LEMMA AskedStep ==
  ASSUME TypeInv, [Next]_vars
  PROVE  AskedInv'
  <1>1. AskedInv /\ TurnInv
    BY DEF TypeInv
  <1>2. \A r \in Request : seerr[r].by \in Member => seerr'[r].by \in Member
    BY SeerrMoves
  <1>3. ASSUME NEW r \in Request, seerr'[r].status # "none" \/ seerr'[r].told PROVE seerr'[r].by \in Member
    <2>1. CASE seerr[r].status # "none" \/ seerr[r].told
      BY <1>1, <1>2, <2>1 DEF AskedInv
    <2>2. CASE seerr[r].status = "none" /\ ~seerr[r].told
      BY <1>1, <1>2, <1>3, <2>2, SeerrMoves DEF AskedInv, AdminDeletes, Live
    <2> QED BY <2>1, <2>2
  <1>4. ASSUME turn'.op = "adminCancel" PROVE seerr'[turn'.req].by \in Member
    <2>1. ASSUME turn.op = "adminCancel", turn'.req = turn.req PROVE seerr'[turn'.req].by \in Member
      BY <1>1, <1>2, <2>1 DEF AskedInv, TurnInv
    <2>2. ASSUME NEW r \in Request, AdminCancel(r) PROVE seerr'[turn'.req].by \in Member
      BY <1>1, <1>2, <2>2, NoTurnTyped DEF AdminCancel, Act, Live, AskedInv
    <2>3. \/ turn.op = "adminCancel" /\ turn'.req = turn.req
          \/ \E r \in Request : AdminCancel(r)
      <3>1. CASE \E u \in Member : \E h \in Household : AskSeerr(u, h) \/ AskFollows(u, h) \/ Cancel(u, h)
        BY <1>4, <3>1, NoTurnTyped DEF AskSeerr, AskFollows, Cancel
      <3>2. CASE \E r \in Request : Approve(r) \/ Decline(r)
        BY <1>4, <3>2, NoTurnTyped DEF Approve, Decline, Act
      <3>3. CASE Withdraw /\ turn'.op = turn.op
        BY <1>4, <3>3 DEF Withdraw
      <3> QED BY <1>4, <3>1, <3>2, <3>3, TurnMoves
    <2> QED BY <2>1, <2>2, <2>3
  <1> QED BY <1>3, <1>4 DEF AskedInv

\* Every step keeps all types.
LEMMA TypeStep ==
  ASSUME TypeInv, [Next]_vars
  PROVE  TypeInv'
  <1>1. TypeOK'
    BY WorldStep, LedgerStep, RecordsStep, GroupsStep, LossesMoves DEF TypeOK
  <1> QED BY <1>1, LedgerStep, RecordsStep, TurnStep, HistoryStep, AskedStep DEF TypeInv

-----------------------------------------------------------------------------
(* Followers *)

\* No step takes a household off the grant.
LEMMA GroupsGrow ==
  ASSUME TypeInv, [Next]_vars
  PROVE  groups \subseteq groups'
  BY GroupsKinds, GrantedFacts, SettleFacts DEF JoinRecord, Release

\* Every step keeps what the refresh and a member's cancel have read of the records true.
LEMMA FollowStep ==
  ASSUME TypeInv, FollowInv, [Next]_vars
  PROVE  FollowInv'
  <1>1. records \subseteq Record /\ RefreshInv /\ TurnInv /\ TypeInv'
    BY TypeStep DEF TypeInv, TypeOK
  <1>2. ASSUME NEW recs \in SUBSET records, NEW status \in Statuses \ {"pending"}, NEW withdrawn \in BOOLEAN,
               Changed(recs, status, withdrawn)
        PROVE  Pending' \subseteq Pending /\ (refresh'.fresh => refresh'.rec \subseteq Pending')
    <2>1. /\ \A rec \in records' : rec \in records \ recs \/ rec.status = status
          /\ refresh' = IF refresh.rec \cap recs # {} THEN [refresh EXCEPT !.fresh = FALSE] ELSE refresh
      <3>1. \A rec \in recs : [rec EXCEPT !.status = status, !.withdrawn = withdrawn].status = status
        BY <1>1 DEF Record
      <3> QED BY <1>2, <3>1 DEF Changed
    <2>2. \A rec \in records \ recs : rec \in records'
      BY <1>2 DEF Changed
    <2>3. CASE refresh' = refresh /\ refresh.rec \cap recs = {}
      BY <2>1, <2>2, <2>3 DEF Pending, FollowInv, Statuses
    <2>4. CASE refresh' = [refresh EXCEPT !.fresh = FALSE]
      BY <1>1, <2>1, <2>4 DEF Pending, RefreshInv, Statuses
    <2> QED BY <2>1, <2>3, <2>4
  <1>3. ~AskRecorded => Pending' \subseteq Pending /\ (refresh'.fresh => refresh'.rec \subseteq Pending')
    <2>1. CASE \E recs \in SUBSET records : Ends(recs)
      BY <1>2, <2>1 DEF Ends, Statuses
    <2>2. CASE SettleGrant \/ SettleHold
      BY <1>2, <2>2, SettleFacts DEF Pending, Statuses
    <2>3. CASE WriteRecord
      BY <2>3, WriteRecordFacts, RestingTyped DEF Pending
    <2>4. CASE UNCHANGED records /\ refresh' = Resting
      BY <2>4, RestingTyped DEF Pending
    <2>5. ASSUME NEW r \in Request, FindGone(r)
          PROVE  Pending' \subseteq Pending /\ (refresh'.fresh => refresh'.rec \subseteq Pending')
      BY <2>5, RestingTyped DEF FindGone, jellypass, Pending
    <2>6. ASSUME NEW rec \in records, ReadRecord(rec)
          PROVE  Pending' \subseteq Pending /\ (refresh'.fresh => refresh'.rec \subseteq Pending')
      BY <2>6, RestingTyped DEF ReadRecord, jellypass, Pending
    <2>7. CASE JoinRecord
      <3>1. [refresh EXCEPT !.at = "read", !.status = "completed"].rec = refresh.rec
        BY <1>1 DEF RefreshInv
      <3>2. UNCHANGED records /\ (refresh' = Resting \/ (refresh.fresh /\ refresh'.rec = refresh.rec))
        BY <2>7, <3>1 DEF JoinRecord, StillFollowed
      <3> QED BY <3>2, RestingTyped DEF Pending, FollowInv
    <2>8. CASE UNCHANGED <<records, refresh>>
      BY <2>8 DEF Pending, FollowInv
    <2> QED BY <2>1, <2>2, <2>3, <2>4, <2>5, <2>6, <2>7, <2>8, RecordsKinds
  <1>4. CASE AskRecorded
    <2>1. records \subseteq records' /\ refresh' = refresh
      BY <1>4, RecordsKinds, AskRecordedFacts DEF AskRecorded
    <2>2. turn'.op = "none"
      BY <1>4, NoTurnTyped DEF AskRecorded
    <2> QED BY <2>1, <2>2 DEF FollowInv, Pending
  <1>5. CASE ~AskRecorded
    <2>1. ASSUME turn'.op = "cancel", turn'.at \in {"unfollowed", "read"} PROVE Pending = {}
      <3>1. CASE turn' = turn
        BY <2>1, <3>1 DEF FollowInv
      <3>2. CASE Unfollowed \/ ReadPending
        BY <3>2 DEF Unfollowed, ReadPending, Followed, FollowInv
      <3>3. CASE \E u \in Member : \E h \in Household : AskSeerr(u, h) \/ AskFollows(u, h) \/ Cancel(u, h)
        BY <2>1, <3>3, NoTurnTyped DEF AskSeerr, AskFollows, Cancel
      <3>4. CASE \E r \in Request : Approve(r) \/ Decline(r) \/ AdminCancel(r)
        BY <2>1, <3>4, NoTurnTyped DEF Approve, Decline, AdminCancel, Act
      <3> QED BY <2>1, <3>1, <3>2, <3>3, <3>4, TurnMoves DEF LookAtItems
    <2> QED BY <1>3, <1>5, <2>1 DEF FollowInv
  <1> QED BY <1>4, <1>5

\* Every step keeps those who joined on the grant before their record says so.
LEMMA JoinStep ==
  ASSUME TypeInv, JoinInv, [Next]_vars
  PROVE  JoinInv'
  <1>1. records \subseteq Record /\ RefreshInv /\ groups \subseteq groups' /\ CompletedIsGiven
    BY GroupsGrow DEF TypeInv, TypeOK, JoinInv
  <1>2. ASSUME NEW recs \in SUBSET records, NEW status \in Statuses, NEW withdrawn \in BOOLEAN,
               Changed(recs, status, withdrawn),
               status = "completed" => \A rec \in recs : rec.branch = "interest" => rec.home \in groups'
        PROVE  JoinInv'
    <2>1. /\ \A rec \in records' : \/ rec \in records \ recs
                                   \/ \E x \in recs : rec.home = x.home /\ rec.branch = x.branch /\ rec.status = status
          /\ refresh' = refresh \/ refresh' = [refresh EXCEPT !.fresh = FALSE]
      <3>1. \A x \in recs : LET rec == [x EXCEPT !.status = status, !.withdrawn = withdrawn]
                            IN  rec.home = x.home /\ rec.branch = x.branch /\ rec.status = status
        BY <1>1 DEF Record
      <3> QED BY <1>2, <3>1 DEF Changed
    <2>2. CompletedIsGiven'
      BY <1>1, <1>2, <2>1 DEF CompletedIsGiven
    <2>3. refresh'.at = refresh.at /\ refresh'.status = refresh.status /\ refresh'.rec = refresh.rec
      BY <1>1, <2>1 DEF RefreshInv
    <2> QED BY <1>1, <2>2, <2>3 DEF JoinInv
  <1>3. CASE \E recs \in SUBSET records : Ends(recs)
    BY <1>2, <1>3 DEF Ends, Statuses
  <1>4. CASE SettleGrant \/ SettleHold
    <2>1. PICK r : /\ Settled(r) \subseteq Pending /\ Changed(Settled(r), "completed", FALSE)
                   /\ \A rec \in Settled(r) : rec.branch = "interest" => rec.home \in groups'
      BY <1>4, SettleFacts
    <2>2. Settled(r) \in SUBSET records /\ "completed" \in Statuses /\ FALSE \in BOOLEAN
      BY <2>1 DEF Pending, Statuses
    <2> QED BY <1>2, <2>1, <2>2
  <1>5. CASE WriteRecord
    <2>1. refresh.at = "read"
      BY <1>5 DEF WriteRecord
    <2>2. \A rec \in records' : \/ rec \in records
                                \/ \E x \in refresh.rec : rec.home = x.home /\ rec.branch = x.branch /\ rec.status = refresh.status
      BY <1>5, WriteRecordFacts
    <2>3. CompletedIsGiven'
      BY <1>1, <2>1, <2>2 DEF CompletedIsGiven, JoinInv
    <2> QED BY <1>5, <2>3, WriteRecordFacts, RestingTyped DEF JoinInv
  <1>6. CASE UNCHANGED <<records, refresh>>
    BY <1>1, <1>6 DEF JoinInv, CompletedIsGiven
  <1>7. CASE AskRecorded /\ UNCHANGED refresh
    BY <1>1, <1>7, AskRecordedFacts DEF JoinInv, CompletedIsGiven
  <1>8. CASE UNCHANGED records /\ refresh' = Resting
    BY <1>1, <1>8, RestingTyped DEF JoinInv, CompletedIsGiven
  <1>9. ASSUME NEW r \in Request, FindGone(r) PROVE JoinInv'
    BY <1>1, <1>9, RestingTyped DEF FindGone, jellypass, JoinInv, CompletedIsGiven
  <1>10. ASSUME NEW rec \in records, ReadRecord(rec) PROVE JoinInv'
    <2>1. UNCHANGED <<records, groups>>
      BY <1>10 DEF ReadRecord, jellypass
    <2>2. refresh'.status = Current(rec) /\ refresh'.rec = {rec}
      BY <1>10, RestingTyped DEF ReadRecord
    <2>3. Current(rec) = "completed" => rec.branch # "interest"
      BY DEF Current
    <2> QED BY <1>1, <2>1, <2>2, <2>3 DEF JoinInv, CompletedIsGiven
  <1>11. CASE JoinRecord
    <2>1. UNCHANGED records
      BY <1>11 DEF JoinRecord
    <2>2. refresh'.at = "read" => refresh'.rec = refresh.rec /\ HomesOf(refresh.rec) \subseteq groups'
      <3>1. [refresh EXCEPT !.at = "read", !.status = "completed"].rec = refresh.rec
        BY <1>1 DEF RefreshInv
      <3>2. Resting.at = "idle"
        BY RestingTyped
      <3>3. \/ refresh' = Resting
            \/ /\ refresh' = [refresh EXCEPT !.at = "read", !.status = "completed"]
               /\ groups' = groups \cup HomesOf(refresh.rec)
        BY <1>11 DEF JoinRecord
      <3> QED BY <3>1, <3>2, <3>3
    <2> QED BY <1>1, <2>1, <2>2 DEF JoinInv, CompletedIsGiven, HomesOf
  <1> QED BY <1>3, <1>4, <1>5, <1>6, <1>7, <1>8, <1>9, <1>10, <1>11, RecordsKinds

\* All parts hold at the start.
LEMMA Initially == Init => IInv /\ OInv
  <1> SUFFICES ASSUME Init PROVE IInv /\ OInv
    OBVIOUS
  <1>1. TypeInv
    <2>1. TypeOK
      BY NoWithdrawalTyped DEF Init, TypeOK, SeerrRequest
    <2>2. TurnInv /\ RefreshInv
      BY NoTurnTyped, RestingTyped DEF Init, TurnInv, Turn, Stages, RefreshInv
    <2>3. AskedInv
      BY NoTurnTyped DEF Init, AskedInv
    <2> QED BY <2>1, <2>2, <2>3 DEF Init, TypeInv
  <1>2. JoinInv /\ FollowInv
    BY RestingTyped, NoTurnTyped DEF Init, JoinInv, CompletedIsGiven, FollowInv
  <1>3. SeerrInv /\ DeletedInv /\ GivenUpInv /\ LeftInv
    BY RestingTyped, NoTurnTyped DEF Init, SeerrInv, DeletedInv, GivenUpInv, WithdrawalKept, LeftInv, NoWithdrawal
  <1> QED BY <1>1, <1>2, <1>3 DEF IInv, OInv

\* Types, followers and what was read of the records hold in every reachable state.
THEOREM Invariant == Spec => []IInv
  <1>1. Init => IInv
    BY Initially
  <1>2. IInv /\ [Next]_vars => IInv'
    BY TypeStep, FollowStep, JoinStep DEF IInv
  <1> QED BY <1>1, <1>2, PTL DEF Spec

\* Every variable keeps its type: in particular a request is granted only where its grant is decided.
THEOREM TypeCorrect == Spec => []TypeOK
  <1>1. IInv => TypeOK
    BY DEF IInv, TypeInv
  <1> QED BY <1>1, Invariant, PTL

\* A household that followed someone else's request to its end is on the title's grant, whether a grant
\* settled its record or the refresh did.
THEOREM FollowersAreGiven == Spec => []CompletedIsGiven
  <1>1. IInv => CompletedIsGiven
    BY DEF IInv, JoinInv
  <1> QED BY <1>1, Invariant, PTL

\* A member's cancel deletes no request at Seerr that a household still follows.
THEOREM CancelKeepsFollowers == Spec => FollowersKept
  <1>1. IInv => [MemberDeletes => Pending = {}]_vars
    BY DEF IInv, FollowInv, MemberDeletes
  <1> QED BY <1>1, Invariant, PTL DEF FollowersKept

-----------------------------------------------------------------------------
(* What is given up *)

\* What a step does to the withdrawals from one request.
Keeps(w, new) == w.homes \subseteq new.homes /\ (w.requester => new.requester) /\ (w.hold => new.hold)
Merges(w, new) == Keeps(w, new) /\ new.gone = w.gone

\* Merging takes nothing out of a withdrawal.
LEMMA MergedMerges ==
  ASSUME NEW w \in Withdrawal, NEW homes \in SUBSET Household, NEW requester \in BOOLEAN, NEW hold \in BOOLEAN
  PROVE  Merges(w, Merged(w, homes, requester, hold))
  BY DEF Keeps, Merges, Merged, Withdrawal

\* What a step can do to one withdrawal: add to it, or drop it once granted, forgotten or no longer
\* held.
LEMMA LedgerMoves ==
  ASSUME TypeInv, [Next]_vars, NEW r \in Request
  PROVE  \/ Merges(withdrawals[r], withdrawals'[r])
         \/ withdrawals'[r] = NoWithdrawal /\ r \in handled' /\ ~(withdrawals[r].requester /\ r \in granted')
         \/ withdrawals'[r] = NoWithdrawal /\ ForgetWithdrawal /\ r = turn.req
         \/ DropHold(r) /\ IF r \in handled THEN withdrawals'[r] = [withdrawals[r] EXCEPT !.gone = FALSE]
                                            ELSE withdrawals'[r] = NoWithdrawal
         \/ /\ (AdminFindsGone /\ r = turn.req) \/ (WriteGone /\ r = refresh.req)
            /\ r \notin handled
            /\ IF BecomesTitleHold(withdrawals[r]) THEN withdrawals'[r] = [withdrawals[r] EXCEPT !.gone = TRUE]
                                                   ELSE withdrawals'[r] = NoWithdrawal
  <1>1. /\ withdrawals \in [Request -> Withdrawal] /\ withdrawals[r] \in Withdrawal /\ records \subseteq Record
        /\ handled = granted
    BY DEF TypeInv, TypeOK
  <1>2. withdrawals'[r] = withdrawals[r] => Merges(withdrawals[r], withdrawals'[r])
    BY DEF Keeps, Merges
  <1>3. CASE UNCHANGED <<withdrawals, handled, granted>>
    BY <1>2, <1>3
  <1>4. CASE Withdraw
    <2> DEFINE recs == Own(turn.user, turn.home)
               mine == {rec \in Waiting(recs) : rec.req = r}
               own  == \E rec \in mine : rec.branch = "request"
               new  == Withdrawn(recs)
    <2>1. withdrawals' = Pruned(new, handled, granted) /\ recs \in SUBSET Record /\ \A rec \in Waiting(recs) : rec.req \notin handled
      BY <1>4, WithdrawFacts
    <2>2. UNCHANGED <<handled, granted>>
      BY <1>4 DEF Withdraw
    <2>3. new[r] = IF mine = {} THEN withdrawals[r] ELSE Merged(withdrawals[r], HomesOf(mine), own, own)
      BY <1>1, <2>1, WithdrawnFields
    <2>4. HomesOf(mine) \subseteq Household /\ own \in BOOLEAN
      BY <2>1, HomesTyped DEF Waiting
    <2>5. mine # {} => r \notin handled
      BY <2>1
    <2> HIDE DEF recs, mine, own, new
    <2>6. Merges(withdrawals[r], Merged(withdrawals[r], HomesOf(mine), own, own))
      BY <1>1, <2>4, MergedMerges
    <2>7. withdrawals'[r] = IF r \in handled /\ ~(new[r].requester /\ r \in granted) THEN NoWithdrawal ELSE new[r]
      BY <2>1 DEF Pruned
    <2> QED BY <1>2, <2>2, <2>3, <2>5, <2>6, <2>7
  <1>5. CASE ForgetWithdrawal
    BY <1>1, <1>2, <1>5 DEF ForgetWithdrawal
  <1>6. CASE DeclineRecorded \/ WithdrawAll
    <2>1. PICK hold \in BOOLEAN : withdrawals' = WithdrawnForAll(turn.req, hold)
      BY <1>6, ForAllFacts
    <2>2. turn.req \in Request
      BY <1>6, ForAllFacts
    <2>3. HomesOf(Naming(turn.req)) \subseteq Household
      BY <1>1, HomesTyped DEF Naming
    <2>4. Merges(withdrawals[r], Merged(withdrawals[r], HomesOf(Naming(turn.req)), TRUE, hold))
      BY <1>1, <2>3, MergedMerges
    <2>5. withdrawals'[r] = IF r = turn.req THEN Merged(withdrawals[r], HomesOf(Naming(turn.req)), TRUE, hold) ELSE withdrawals[r]
      BY <1>1, <2>1, <2>2, ForAllTyped
    <2> QED BY <1>2, <2>4, <2>5
  <1>7. ASSUME NEW q, withdrawals' = RequestGone(withdrawals, q)
        PROVE  \/ withdrawals'[r] = withdrawals[r]
               \/ /\ r = q /\ r \notin handled
                  /\ IF BecomesTitleHold(withdrawals[r]) THEN withdrawals'[r] = [withdrawals[r] EXCEPT !.gone = TRUE]
                                                         ELSE withdrawals'[r] = NoWithdrawal
    BY <1>1, <1>7 DEF RequestGone
  <1>8. CASE AdminFindsGone
    <2>1. withdrawals' = RequestGone(withdrawals, turn.req)
      BY <1>8 DEF AdminFindsGone
    <2> QED BY <1>2, <1>7, <1>8, <2>1
  <1>9. CASE WriteGone
    <2>1. withdrawals' = RequestGone(withdrawals, refresh.req)
      BY <1>9 DEF WriteGone
    <2> QED BY <1>2, <1>7, <1>9, <2>1
  <1>10. ASSUME NEW q \in Request, Grant(q) \/ Hold(q)
         PROVE  withdrawals'[r] = IF r \in handled' /\ ~(withdrawals[r].requester /\ r \in granted') THEN NoWithdrawal ELSE withdrawals[r]
    BY <1>10, GrantedFacts DEF Pruned
  <1>11. ASSUME NEW q \in Request, DropHold(q), q # r PROVE withdrawals'[r] = withdrawals[r]
    BY <1>1, <1>11 DEF DropHold, DroppedHold
  <1>12. CASE DropHold(r)
    BY <1>1, <1>12 DEF DropHold, DroppedHold
  <1> QED BY <1>2, <1>3, <1>4, <1>5, <1>6, <1>8, <1>9, <1>10, <1>11, <1>12, LedgerKinds

\* A request that is granted, or sent.
LEMMA HandledMoves ==
  ASSUME TypeInv, [Next]_vars, NEW r \in Request
  PROVE  /\ r \in handled => r \in handled'
         /\ r \in handled' => r \in handled \/ Grant(r) \/ Hold(r)
         /\ granted \subseteq granted'
  <1>1. CASE UNCHANGED <<withdrawals, handled, granted>>
    BY <1>1
  <1>2. CASE Withdraw \/ ForgetWithdrawal \/ DeclineRecorded \/ WithdrawAll \/ AdminFindsGone \/ WriteGone
    BY <1>2 DEF Withdraw, ForgetWithdrawal, DeclineRecorded, WithdrawAll, AdminFindsGone, WriteGone
  <1>3. ASSUME NEW q \in Request, Grant(q) \/ Hold(q)
        PROVE  handled' = handled \cup {q} /\ granted \subseteq granted'
    BY <1>3, GrantedFacts
  <1>4. ASSUME NEW q \in Request, DropHold(q) PROVE UNCHANGED <<handled, granted>>
    BY <1>4 DEF DropHold
  <1> QED BY <1>1, <1>2, <1>3, <1>4, LedgerKinds

\* Only a request just approved is newly sent to Radarr.
LEMMA SentMoves ==
  ASSUME TypeInv, [Next]_vars, NEW r \in Request
  PROVE  r \in sent' => r \in sent \/ seerr'[r].status = "approved"
  <1>1. seerr \in [Request -> SeerrRequest]
    BY DEF TypeInv, TypeOK
  <1>2. CASE SendApproval
    BY <1>1, <1>2 DEF SendApproval, SeerrRequest
  <1>3. ASSUME NEW q \in Request, SeerrApproves(q) PROVE r \in sent' => r \in sent \/ seerr'[r].status = "approved"
    BY <1>1, <1>3 DEF SeerrApproves, SeerrRequest
  <1> QED BY <1>2, <1>3, SeerrKinds DEF AskSeerr, MemberDeletes, SendDecline, AdminDeletes, SeerrDeletes, SeerrCompletes

\* Seerr takes nothing back that is gone.
LEMMA GoneStays ==
  ASSUME TypeInv, [Next]_vars, NEW r \in Request, seerr[r].status = "gone"
  PROVE  seerr'[r].status = "gone" /\ seerr'[r].told = seerr[r].told
  BY SeerrMoves DEF Live

\* The refresh's request that is gone.
LEMMA RefreshMoves ==
  ASSUME TypeInv, [Next]_vars, refresh'.at = "gone"
  PROVE  \/ refresh.at = "gone" /\ refresh'.req = refresh.req
         \/ \E r \in Request : FindGone(r) /\ refresh'.req = r
  <1>1. refresh' \in {refresh, [refresh EXCEPT !.fresh = FALSE]} => refresh'.at = refresh.at /\ refresh'.req = refresh.req
    BY DEF TypeInv, RefreshInv
  <1>2. ASSUME NEW recs, NEW status, NEW withdrawn, Changed(recs, status, withdrawn)
        PROVE  refresh' \in {refresh, [refresh EXCEPT !.fresh = FALSE]}
    BY <1>2 DEF Changed
  <1>3. CASE \E recs \in SUBSET records : Ends(recs)
    BY <1>1, <1>2, <1>3 DEF Ends
  <1>4. CASE SettleGrant \/ SettleHold
    BY <1>1, <1>2, <1>4, SettleFacts
  <1>5. CASE WriteRecord \/ (UNCHANGED records /\ refresh' = Resting)
    BY <1>5, RestingTyped DEF WriteRecord
  <1>6. ASSUME NEW r \in Request, FindGone(r) PROVE refresh'.req = r
    BY <1>6, RestingTyped DEF FindGone
  <1>7. ASSUME NEW rec \in records, ReadRecord(rec) PROVE FALSE
    BY <1>7, RestingTyped DEF ReadRecord
  <1>8. CASE JoinRecord
    <2>1. [refresh EXCEPT !.at = "read", !.status = "completed"].at = "read"
      BY DEF TypeInv, RefreshInv
    <2>2. refresh' = Resting \/ refresh' = [refresh EXCEPT !.at = "read", !.status = "completed"]
      BY <1>8 DEF JoinRecord
    <2>3. Resting.at = "idle"
      BY RestingTyped
    <2> QED BY <2>1, <2>2, <2>3
  <1> QED BY <1>1, <1>3, <1>4, <1>5, <1>6, <1>7, <1>8, RecordsKinds

\* The step leaves SeerrInv: Seerr's statuses only go forward.
LEMMA SeerrStep ==
  ASSUME TypeInv, SeerrInv, [Next]_vars
  PROVE  SeerrInv'
  <1> SUFFICES ASSUME NEW r \in Request
               PROVE  /\ seerr'[r].told => seerr'[r].status \in {"completed", "gone"}
                      /\ r \in handled' => seerr'[r].status \in {"completed", "gone"}
                      /\ r \in sent' => seerr'[r].status \notin {"none", "pending"}
                      /\ withdrawals'[r].gone => seerr'[r].status = "gone"
                      /\ turn'.op = "adminCancel" /\ turn'.at \in {"gone", "deleted"} /\ turn'.req = r => seerr'[r].status = "gone"
                      /\ refresh'.at = "gone" /\ refresh'.req = r => seerr'[r].status = "gone"
                      /\ r \in forgotten' => seerr'[r].status = "gone"
    BY DEF SeerrInv
  <1>1. /\ seerr[r].told => seerr[r].status \in {"completed", "gone"}
        /\ r \in handled => seerr[r].status \in {"completed", "gone"}
        /\ r \in sent => seerr[r].status \notin {"none", "pending"}
        /\ withdrawals[r].gone => seerr[r].status = "gone"
        /\ turn.op = "adminCancel" /\ turn.at \in {"gone", "deleted"} /\ turn.req = r => seerr[r].status = "gone"
        /\ refresh.at = "gone" /\ refresh.req = r => seerr[r].status = "gone"
        /\ r \in forgotten => seerr[r].status = "gone"
    BY DEF SeerrInv
  <1>2. seerr[r].status = "gone" => seerr'[r].status = "gone"
    BY GoneStays
  <1>3. seerr'[r].told => seerr'[r].status \in {"completed", "gone"}
    BY <1>1, SeerrMoves
  <1>4. r \in handled' => seerr'[r].status \in {"completed", "gone"}
    <2>1. CASE r \in handled
      BY <1>1, <2>1, SeerrMoves DEF Live
    <2>2. CASE Grant(r) \/ Hold(r)
      BY <1>1, <2>2 DEF Grant, Hold, TitleHolds, world
    <2> QED BY <2>1, <2>2, HandledMoves
  <1>5. r \in sent' => seerr'[r].status \notin {"none", "pending"}
    BY <1>1, SentMoves, SeerrMoves
  <1>6. withdrawals'[r].gone => seerr'[r].status = "gone"
    <2>1. AdminFindsGone => turn.op = "adminCancel" /\ turn.at \in {"gone", "deleted"}
      BY DEF AdminFindsGone
    <2>2. WriteGone => refresh.at = "gone"
      BY DEF WriteGone
    <2>3. ~NoWithdrawal.gone
      BY DEF NoWithdrawal
    <2>4. DropHold(r) => withdrawals[r].gone
      BY DEF DropHold, TitleHolds
    <2> QED BY <1>1, <1>2, <2>1, <2>2, <2>3, <2>4, LedgerMoves DEF Keeps, Merges
  <1>7. ASSUME turn'.op = "adminCancel", turn'.at \in {"gone", "deleted"}, turn'.req = r PROVE seerr'[r].status = "gone"
    <2>1. CASE turn' = turn
      BY <1>1, <1>2, <1>7, <2>1
    <2>2. CASE AdminDeletes /\ turn'.at = "deleted"
      <3>1. seerr' = [seerr EXCEPT ![turn.req].status = "gone"] /\ turn.req = r
        <4>1. [turn EXCEPT !.at = "deleted"].req = turn.req /\ NoTurn.at = "idle"
          BY NoTurnTyped DEF TypeInv, TurnInv, Turn
        <4> QED BY <1>7, <2>2, <4>1 DEF AdminDeletes
      <3> QED BY <3>1 DEF TypeInv, TypeOK, SeerrRequest
    <2>3. ASSUME NEW q \in Request, Approve(q) \/ Decline(q) \/ AdminCancel(q) PROVE seerr'[r].status = "gone"
      BY <1>2, <1>7, <2>3, NoTurnTyped DEF Approve, Decline, AdminCancel, Act
    <2>4. CASE \E u \in Member : \E h \in Household : AskSeerr(u, h) \/ AskFollows(u, h) \/ Cancel(u, h)
      BY <1>7, <2>4, NoTurnTyped DEF AskSeerr, AskFollows, Cancel
    <2>5. CASE MemberDeletes /\ turn'.op = turn.op
      BY <1>7, <2>5 DEF MemberDeletes
    <2> QED BY <1>7, <2>1, <2>2, <2>3, <2>4, <2>5, TurnMoves
  <1>8. ASSUME refresh'.at = "gone", refresh'.req = r PROVE seerr'[r].status = "gone"
    <2>1. ASSUME NEW q \in Request, FindGone(q), q = r PROVE seerr[r].status = "gone"
      BY <2>1 DEF FindGone
    <2> QED BY <1>1, <1>2, <1>8, <2>1, RefreshMoves
  <1>9. r \in forgotten' => seerr'[r].status = "gone"
    <2>1. AdminFindsGone => turn.op = "adminCancel" /\ turn.at \in {"gone", "deleted"}
      BY DEF AdminFindsGone
    <2>2. WriteGone => refresh.at = "gone"
      BY DEF WriteGone
    <2>3. DropHold(r) => withdrawals[r].gone
      BY DEF DropHold, TitleHolds
    <2> QED BY <1>1, <1>2, <2>1, <2>2, <2>3, LossesMoves
  <1> QED BY <1>3, <1>4, <1>5, <1>6, <1>7, <1>8, <1>9

\* Every step keeps what a cancel deleted unsent, and ungranted and unheld until the cancel hears so or the
\* refresh overtakes it.
LEMMA DeletedStep ==
  ASSUME TypeInv, SeerrInv, DeletedInv, [Next]_vars
  PROVE  DeletedInv'
  <1> SUFFICES ASSUME turn'.op = "cancel", turn'.at = "deleted"
               PROVE  /\ turn'.req \in Request
                      /\ turn'.req \notin sent'
                      /\ seerr'[turn'.req].status = "gone" /\ ~seerr'[turn'.req].told
                      /\ turn'.req \notin overtaken' =>
                           /\ turn'.req \notin handled'
                           /\ ~withdrawals'[turn'.req].gone
                           /\ refresh'.at = "gone" => refresh'.req # turn'.req
    BY DEF DeletedInv
  <1> DEFINE r == turn.req
  <1>1. \/ turn' = turn
        \/ MemberDeletes /\ turn'.req = r
    <2>1. CASE \E u \in Member : \E h \in Household : AskSeerr(u, h) \/ AskFollows(u, h) \/ Cancel(u, h)
      BY <2>1, NoTurnTyped DEF AskSeerr, AskFollows, Cancel
    <2>2. CASE \E q \in Request : Approve(q) \/ Decline(q) \/ AdminCancel(q)
      BY <2>2, NoTurnTyped DEF Approve, Decline, AdminCancel, Act
    <2>3. CASE AdminDeletes /\ turn'.op = turn.op
      BY <2>3 DEF AdminDeletes
    <2> QED BY <2>1, <2>2, <2>3, TurnMoves
  <1>2. CASE turn' = turn
    <2>1. /\ r \in Request /\ r \notin sent /\ seerr[r].status = "gone" /\ ~seerr[r].told
          /\ r \notin overtaken => r \notin handled /\ ~withdrawals[r].gone /\ (refresh.at = "gone" => refresh.req # r)
          /\ turn.op = "cancel" /\ turn.at = "deleted"
      BY <1>2 DEF DeletedInv
    <2>2. seerr'[r].status = "gone" /\ ~seerr'[r].told
      BY <2>1, GoneStays
    <2>3. r \notin overtaken' => r \notin handled'
      BY <2>1, HandledMoves, LossesMoves DEF Grant, Hold, TitleHolds
    <2>4. r \notin sent'
      BY <2>1, <2>2, SentMoves
    <2>5. r \notin overtaken' => ~withdrawals'[r].gone
      <3> SUFFICES ASSUME r \notin overtaken' PROVE ~withdrawals'[r].gone
        OBVIOUS
      <3>0. r \notin overtaken
        BY LossesMoves
      <3>1. ~AdminFindsGone /\ ~(WriteGone /\ r = refresh.req) /\ ~DropHold(r) /\ ~NoWithdrawal.gone
        BY <2>1, <3>0 DEF AdminFindsGone, WriteGone, DropHold, TitleHolds, NoWithdrawal
      <3> QED BY <2>1, <3>0, <3>1, LedgerMoves DEF Keeps, Merges
    <2>6. r \notin overtaken' /\ refresh'.at = "gone" => refresh'.req # r
      <3>1. FindGone(r) => r \in overtaken'
        BY <2>1 DEF FindGone
      <3> QED BY <2>1, <3>1, RefreshMoves, LossesMoves
    <2> QED BY <1>2, <2>1, <2>2, <2>3, <2>4, <2>5, <2>6
  <1>3. CASE MemberDeletes /\ turn'.req = r
    <2>1. /\ turn.op = "cancel" /\ turn.at = "read" /\ seerr[r].status = "pending"
          /\ seerr' = [seerr EXCEPT ![r].status = "gone"]
          /\ UNCHANGED <<sent, jellypass, refresh>>
      BY <1>3 DEF MemberDeletes
    <2>2. r \in Request
      BY <2>1 DEF TypeInv, TurnInv
    <2>3. /\ r \notin handled /\ r \notin sent /\ ~seerr[r].told /\ ~withdrawals[r].gone
          /\ refresh.at = "gone" => refresh.req # r
      BY <2>1, <2>2 DEF SeerrInv
    <2>4. seerr'[r].status = "gone" /\ seerr'[r].told = seerr[r].told
      BY <2>1, <2>2 DEF TypeInv, TypeOK, SeerrRequest
    <2> QED BY <1>3, <2>1, <2>2, <2>3, <2>4 DEF jellypass
  <1> QED BY <1>1, <1>2, <1>3

\* What a step newly gives up, and who newly withdraws.
LEMMA DroppedMoves ==
  ASSUME TypeInv, GivenUpInv, [Next]_vars, NEW r \in dropped' \ dropped
  PROVE  withdrawals'[r].requester /\ (withdrawals'[r].hold \/ granted # {})
  <1>1. /\ withdrawals \in [Request -> Withdrawal] /\ records \subseteq Record /\ handled = granted
        /\ dropped \subseteq Request
    BY DEF TypeInv, TypeOK
  <1>2. CASE Withdraw
    <2> DEFINE recs == Own(turn.user, turn.home)
               asked == {rec.req : rec \in {x \in Waiting(recs) : x.branch = "request"}}
               mine == {rec \in Waiting(recs) : rec.req = r}
               own  == \E rec \in mine : rec.branch = "request"
               new  == Withdrawn(recs)
    <2>1. /\ withdrawals' = Pruned(new, handled, granted) /\ recs \in SUBSET Record
          /\ \A rec \in Waiting(recs) : rec.req \in Request \ handled
          /\ dropped' = dropped \cup asked
      BY <1>2, WithdrawFacts
    <2>2. mine # {} /\ own /\ r \in Request /\ r \notin handled
      BY <2>1
    <2>3. new[r] = IF mine = {} THEN withdrawals[r] ELSE Merged(withdrawals[r], HomesOf(mine), own, own)
      BY <1>1, <2>1, <2>2, WithdrawnFields
    <2>4. HomesOf(mine) \subseteq Household
      BY <2>1, HomesTyped DEF Waiting
    <2>5. own = TRUE
      BY <2>2
    <2> HIDE DEF recs, asked, mine, own, new
    <2>6. withdrawals'[r] = Merged(withdrawals[r], HomesOf(mine), TRUE, TRUE)
      BY <2>1, <2>2, <2>3, <2>5 DEF Pruned
    <2>7. Merged(withdrawals[r], HomesOf(mine), TRUE, TRUE).requester /\ Merged(withdrawals[r], HomesOf(mine), TRUE, TRUE).hold
      BY <1>1, <2>2, <2>4 DEF Merged, Withdrawal
    <2> QED BY <2>6, <2>7
  <1>3. CASE DeclineRecorded \/ WithdrawAll
    <2>1. r = turn.req /\ r \in Request
      BY <1>3, ForAllFacts
    <2>2. PICK hold \in BOOLEAN : withdrawals' = WithdrawnForAll(r, hold) /\ hold = (DeclineRecorded \/ turn.hold)
      BY <1>3, <2>1, ForAllFacts
    <2>3. withdrawals'[r] = Merged(withdrawals[r], HomesOf(Naming(r)), TRUE, hold)
      BY <1>1, <2>1, <2>2, ForAllTyped
    <2>4. HomesOf(Naming(r)) \subseteq Household
      BY <1>1, HomesTyped DEF Naming
    <2>5. /\ Merged(withdrawals[r], HomesOf(Naming(r)), TRUE, hold).requester
          /\ hold => Merged(withdrawals[r], HomesOf(Naming(r)), TRUE, hold).hold
      BY <1>1, <2>1, <2>4 DEF Merged, Withdrawal
    <2>6. hold \/ granted # {}
      BY <1>3, <2>2 DEF GivenUpInv, WithdrawAll
    <2> QED BY <2>3, <2>5, <2>6
  <1> QED BY <1>2, <1>3, HistoryKinds

\* Who leaves a request is in its withdrawal at once.
LEMMA LeftMoves ==
  ASSUME TypeInv, [Next]_vars, NEW r \in Request \ handled, NEW h \in Household, <<r, h>> \in left', <<r, h>> \notin left
  PROVE  h \in withdrawals'[r].homes
  <1>1. /\ withdrawals \in [Request -> Withdrawal] /\ records \subseteq Record /\ handled = granted
    BY DEF TypeInv, TypeOK
  <1>2. CASE Withdraw
    <2> DEFINE recs == Own(turn.user, turn.home)
               mine == {rec \in Waiting(recs) : rec.req = r}
               own  == \E rec \in mine : rec.branch = "request"
               new  == Withdrawn(recs)
    <2>1. /\ withdrawals' = Pruned(new, handled, granted) /\ recs \in SUBSET Record
          /\ left' = left \cup {<<rec.req, rec.home>> : rec \in Waiting(recs)}
      BY <1>2, WithdrawFacts
    <2>2. mine # {} /\ h \in HomesOf(mine)
      BY <2>1 DEF HomesOf
    <2>3. new[r] = IF mine = {} THEN withdrawals[r] ELSE Merged(withdrawals[r], HomesOf(mine), own, own)
      BY <1>1, <2>1, WithdrawnFields
    <2> HIDE DEF recs, mine, own, new
    <2>4. withdrawals'[r] = Merged(withdrawals[r], HomesOf(mine), own, own)
      BY <2>1, <2>2, <2>3 DEF Pruned
    <2> QED BY <1>1, <2>2, <2>4 DEF Merged, Withdrawal
  <1>3. CASE DeclineRecorded \/ WithdrawAll
    <2>1. r = turn.req /\ h \in HomesOf(Naming(r))
      BY <1>3, ForAllFacts
    <2>2. PICK hold \in BOOLEAN : withdrawals' = WithdrawnForAll(r, hold)
      BY <1>3, <2>1, ForAllFacts
    <2>3. withdrawals'[r] = Merged(withdrawals[r], HomesOf(Naming(r)), TRUE, hold)
      BY <1>1, <2>2, ForAllTyped
    <2> QED BY <1>1, <2>1, <2>3 DEF Merged, Withdrawal
  <1> QED BY <1>2, <1>3, HistoryKinds

\* A webhook that may come after a step might have come before it.
LEMMA DueBefore ==
  ASSUME TypeInv, [Next]_vars, NEW r \in Request, Due(r)'
  PROVE  Due(r)
  BY GoneStays DEF Due

\* A withdrawal from a request that is undecided and due stays, unless it is forgotten.
LEMMA WithdrawalStays ==
  ASSUME TypeInv, SeerrInv, DeletedInv, [Next]_vars, NEW r \in Request, r \notin handled', Due(r), r \notin forgotten'
  PROVE  Keeps(withdrawals[r], withdrawals'[r])
  <1>1. r \notin handled /\ withdrawals[r] \in Withdrawal
    BY HandledMoves DEF TypeInv, TypeOK
  <1>2. ~(ForgetWithdrawal /\ r = turn.req)
    BY DEF ForgetWithdrawal, DeletedInv, Due
  <1>3. ASSUME (AdminFindsGone /\ r = turn.req) \/ (WriteGone /\ r = refresh.req) \/ DropHold(r), withdrawals'[r] = NoWithdrawal
        PROVE  withdrawals[r] = NoWithdrawal
    <2>1. seerr[r].status = "gone"
      BY <1>3 DEF AdminFindsGone, WriteGone, DropHold, TitleHolds, SeerrInv
    <2> QED BY <1>3, <2>1, DroppedIsForgotten DEF Due
  <1>4. withdrawals[r] = withdrawals'[r] => Keeps(withdrawals[r], withdrawals'[r])
    BY DEF Keeps
  <1>5. Keeps(withdrawals[r], [withdrawals[r] EXCEPT !.gone = TRUE])
    BY <1>1 DEF Keeps, Withdrawal
  <1> QED BY <1>1, <1>2, <1>3, <1>4, <1>5, LedgerMoves DEF Merges

\* Every step keeps those who left a request that is due in its withdrawal.
LEMMA LeftStep ==
  ASSUME TypeInv, SeerrInv, DeletedInv, LeftInv, [Next]_vars
  PROVE  LeftInv'
  <1> SUFFICES ASSUME NEW r \in Request, r \notin handled', NEW h \in Household, <<r, h>> \in left', Due(r)', r \notin forgotten'
               PROVE  h \in withdrawals'[r].homes
    BY DEF LeftInv
  <1>1. r \notin handled /\ Due(r) /\ r \notin forgotten
    BY HandledMoves, DueBefore, LossesMoves
  <1>2. CASE <<r, h>> \in left
    BY <1>1, <1>2, WithdrawalStays DEF LeftInv, Keeps
  <1>3. CASE <<r, h>> \notin left
    BY <1>1, <1>3, LeftMoves
  <1> QED BY <1>2, <1>3

\* Every step keeps what was given up remembered.
LEMMA GivenUpStep ==
  ASSUME TypeInv, SeerrInv, DeletedInv, GivenUpInv, [Next]_vars
  PROVE  GivenUpInv'
  <1>1. dropped \subseteq Request /\ dropped' \subseteq Request /\ handled = granted /\ handled' = granted'
    BY TypeStep DEF TypeInv
  <1>2. ASSUME NEW r \in dropped', r \in granted', r \notin overtaken', r \notin forgotten' PROVE withdrawals'[r].requester
    <2>0. r \notin overtaken /\ r \notin forgotten
      BY <1>2, LossesMoves
    <2>1. CASE r \notin dropped
      BY <2>1, DroppedMoves
    <2>2. CASE r \in dropped /\ r \in granted
      <3>1. withdrawals[r].requester
        BY <2>0, <2>2 DEF GivenUpInv, WithdrawalKept, Withdrew
      <3>2. ~(ForgetWithdrawal /\ r = turn.req)
        BY <1>1, <2>0, <2>2 DEF ForgetWithdrawal, DeletedInv
      <3>3. [withdrawals[r] EXCEPT !.gone = FALSE].requester = withdrawals[r].requester
        BY <1>1, <2>2 DEF TypeInv, TypeOK, Withdrawal
      <3> QED BY <1>1, <1>2, <2>2, <3>1, <3>2, <3>3, LedgerMoves DEF Keeps, Merges
    <2>3. CASE r \in dropped /\ r \notin granted
      <3>1. Grant(r) \/ Hold(r)
        BY <1>1, <1>2, <2>3, HandledMoves
      <3>2. withdrawals[r].requester
        <4>1. CASE Grant(r)
          BY <1>1, <2>0, <2>3, <4>1 DEF Grant, GivenUpInv, Withdrew, Due
        <4>2. CASE Hold(r)
          BY <4>2 DEF Hold, TitleHolds, BecomesTitleHold
        <4> QED BY <3>1, <4>1, <4>2
      <3>3. withdrawals' = Pruned(withdrawals, handled', granted')
        BY <1>1, <2>3, <3>1, GrantedFacts
      <3> QED BY <1>1, <1>2, <2>3, <3>2, <3>3 DEF Pruned
    <2> QED BY <2>1, <2>2, <2>3
  <1>3. ASSUME NEW r \in dropped' \ handled', Due(r)', r \notin forgotten'
        PROVE  withdrawals'[r].requester /\ (withdrawals'[r].hold \/ granted' # {})
    <2>1. r \in Request /\ r \notin handled /\ Due(r) /\ r \notin forgotten /\ (granted # {} => granted' # {})
      BY <1>1, <1>3, HandledMoves, DueBefore, LossesMoves
    <2>2. CASE r \in dropped
      BY <1>3, <2>1, <2>2, WithdrawalStays DEF GivenUpInv, Withdrew, Keeps
    <2>3. CASE r \notin dropped
      BY <2>1, <2>3, DroppedMoves
    <2> QED BY <2>2, <2>3
  <1>4. ASSUME NEW r \in dropped', r \in sent' \ handled', granted' = {} PROVE BecomesTitleHold(withdrawals'[r])
    <2>1. r \in Request /\ r \notin handled /\ granted = {}
      BY <1>1, <1>4, HandledMoves
    <2>2. CASE seerr'[r].status # "gone"
      <3>1. SeerrInv'
        BY SeerrStep
      <3>2. r \notin forgotten'
        BY <2>1, <2>2, <3>1 DEF SeerrInv
      <3>3. Due(r)'
        BY <2>2 DEF Due
      <3> QED BY <1>3, <1>4, <3>2, <3>3 DEF BecomesTitleHold
    <2>3. CASE seerr'[r].status = "gone" /\ r \notin dropped
      BY <2>1, <2>3, DroppedMoves DEF BecomesTitleHold
    <2>4. CASE seerr'[r].status = "gone" /\ r \in dropped
      <3>1. r \in sent
        BY <1>4, <2>1, <2>4, SentMoves
      <3>2. BecomesTitleHold(withdrawals[r])
        BY <2>1, <2>4, <3>1 DEF GivenUpInv, WithdrawalKept, BecomesTitleHold, Withdrew
      <3>3. ~DropHold(r) /\ ~(ForgetWithdrawal /\ r = turn.req)
        BY <2>1, <3>1 DEF DropHold, ForgetWithdrawal, DeletedInv
      <3>4. BecomesTitleHold([withdrawals[r] EXCEPT !.gone = TRUE]) = BecomesTitleHold(withdrawals[r])
        BY <2>1 DEF TypeInv, TypeOK, Withdrawal, BecomesTitleHold
      <3> QED BY <1>4, <2>1, <3>2, <3>3, <3>4, LedgerMoves DEF Keeps, Merges, BecomesTitleHold
    <2> QED BY <2>2, <2>3, <2>4
  <1>5. ASSUME turn'.op = "adminCancel", turn'.at = "read" PROVE turn'.hold \/ granted' # {}
    <2>1. granted # {} => granted' # {}
      BY HandledMoves DEF TypeInv, TypeOK
    <2>2. CASE turn' = turn
      BY <1>5, <2>1, <2>2 DEF GivenUpInv
    <2>3. CASE LookAtItems /\ turn'.hold = Undecided
      BY <2>1, <2>3 DEF Undecided
    <2>4. CASE ReadPending /\ turn'.op = turn.op
      BY <1>5, <2>4 DEF ReadPending
    <2>5. CASE \E u \in Member : \E h \in Household : AskSeerr(u, h) \/ AskFollows(u, h) \/ Cancel(u, h)
      BY <1>5, <2>5, NoTurnTyped DEF AskSeerr, AskFollows, Cancel
    <2>6. CASE \E r \in Request : Approve(r) \/ Decline(r) \/ AdminCancel(r)
      BY <1>5, <2>6, NoTurnTyped DEF Approve, Decline, AdminCancel, Act
    <2> QED BY <1>5, <2>2, <2>3, <2>4, <2>5, <2>6, TurnMoves
  <1> QED BY <1>2, <1>3, <1>4, <1>5 DEF GivenUpInv, WithdrawalKept, Withdrew

\* Both invariants hold in every reachable state.
LEMMA GivenUpInvariant == Spec => [](IInv /\ OInv)
  <1>1. Init => OInv
    BY Initially
  <1>2. IInv /\ OInv /\ [Next]_vars => OInv'
    BY SeerrStep, DeletedStep, GivenUpStep, LeftStep DEF IInv, OInv
  <1> QED BY <1>1, <1>2, Invariant, PTL DEF Spec

\* The records, the withdrawals and the grant agree on who gave up and who has the title: what was given up
\* and may still arrive is remembered, and who followed to the end is on the grant. Only a request the refresh
\* found gone before the cancel that deleted it heard so, or whose withdrawal was forgotten while its webhook was
\* out, may be granted with nothing left that says who gave it up.
THEOREM Agreement == Spec => []InAgreement
  <1>1. OInv => WithdrawalKept
    BY DEF OInv, GivenUpInv
  <1>2. TypeOK /\ CompletedIsGiven /\ WithdrawalKept => InAgreement
    BY DEF InAgreement
  <1> QED BY <1>1, <1>2, GivenUpInvariant, TypeCorrect, FollowersAreGiven, PTL

\* Who a step adds to the grant follows the title, stands by the request granted, is released by an
\* administrator, or is the household of a request whose withdrawal was forgotten while its webhook was out.
LEMMA GivenStep ==
  ASSUME IInv, OInv, [Next]_vars, NEW h \in groups' \ groups
  PROVE  \/ h \in HomesOf(Pending)
         \/ \E r \in granted' \ granted : /\ h \in Homes[seerr[r].by]
                                          /\ r \in dropped \/ <<r, h>> \in left => r \in forgotten
         \/ Release(h)
  <1>1. TypeInv /\ handled = granted /\ groups' \subseteq Household
    BY GroupsStep DEF IInv, TypeInv
  <1>2. CASE JoinRecord
    BY <1>2 DEF JoinRecord, StillFollowed, IInv, FollowInv, HomesOf
  <1>3. CASE SettleGrant \/ SettleHold
    BY <1>3, SettleFacts DEF HomesOf
  <1>4. ASSUME NEW x \in Household, Release(x) PROVE Release(h)
    <2>1. x = h
      BY <1>4 DEF Release
    <2> QED BY <1>4, <2>1
  <1>5. ASSUME NEW r \in Request, Hold(r) PROVE FALSE
    <2>1. GrantGroups(r) = {}
      BY <1>5 DEF Hold, TitleHolds, BecomesTitleHold, GrantGroups, Withdrew
    <2> QED BY <1>1, <1>5, <2>1, GrantedFacts
  <1>6. ASSUME NEW r \in Request, Grant(r)
        PROVE  /\ r \in granted' \ granted /\ h \in Homes[seerr[r].by]
               /\ r \in dropped \/ <<r, h>> \in left => r \in forgotten
    <2>1. h \in GrantGroups(r) /\ granted' = granted \cup {r}
      BY <1>1, <1>6, GrantedFacts
    <2>2. h \in Homes[seerr[r].by] /\ h \notin withdrawals[r].homes /\ ~Withdrew(r)
      BY <2>1 DEF GrantGroups
    <2>3. r \notin handled /\ Due(r)
      BY <1>6 DEF Grant, Due
    <2>4. r \in dropped => r \in forgotten
      BY <2>2, <2>3 DEF OInv, GivenUpInv
    <2>5. <<r, h>> \in left => r \in forgotten
      BY <1>1, <2>2, <2>3 DEF OInv, LeftInv
    <2> QED BY <1>1, <2>1, <2>2, <2>3, <2>4, <2>5
  <1> QED BY <1>2, <1>3, <1>4, <1>5, <1>6, GroupsKinds

\* A household is added to the title's grant only while it follows the title, through a request its member
\* stands by and it did not withdraw from, by an administrator who releases a held title, or by a webhook
\* whose withdrawal was forgotten before it came.
THEOREM GivenWhoAsk == Spec => GivenOnlyWhoAsk
  <1>1. IInv /\ OInv /\ [Next]_vars =>
          [\A h \in groups' \ groups :
             \/ h \in HomesOf(Pending)
             \/ \E r \in granted' \ granted : /\ h \in Homes[seerr[r].by]
                                              /\ r \in dropped \/ <<r, h>> \in left => r \in forgotten
             \/ Release(h)]_vars
    BY GivenStep
  <1> QED BY <1>1, GivenUpInvariant, PTL DEF Spec, GivenOnlyWhoAsk

================================================================================
