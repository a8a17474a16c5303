------------------------------ MODULE StateFile -----------------------------
(***************************************************************************)
(* How GrantStore keeps its state in one JSON file (src/src/store.ts:      *)
(* #save, #write, close, load): one write at a time, the saves asked for   *)
(* while a write runs share the next one, a write serializes the whole     *)
(* state when it starts, a temporary file is renamed over the state file.  *)
(*                                                                         *)
(* The state is the sequence of the changes made to it; what a change does *)
(* to the grants is GrantStore's business.  A change is made once (its     *)
(* caller is the change).  Request intents are singled out, because "Get   *)
(* this" sends a request only when isAppRequestIntentDurable says so.      *)
(***************************************************************************)
EXTENDS Naturals, Sequences, SequencesExt

CONSTANTS Intent,       \* request intents, each added and removed once
          Other,        \* any other change that is saved
          Household,    \* households whose epoch is given lazily, unsaved
          MaxFailures,  \* bound: writes that fail
          MaxRestarts   \* bound: process ends (crash or exit) and starts

ASSUME BoundsAssumption == MaxFailures \in Nat /\ MaxRestarts \in Nat

VARIABLES memory,      \* #state
          disk,        \* the state file
          temporary,   \* the temporary file of the write in flight
          writer,      \* where the write in flight is
          sharing,     \* the callers awaiting #queued, a write not started
          awaiting,    \* the callers awaiting the write in flight
          lastWrite,   \* how the last finished write ended
          durable,     \* #durableIntents
          closed,      \* #closed
          closing,     \* the promise close() returned
          call,        \* what each change's caller was told
          failures,
          restarts

fileVars == <<memory, disk, temporary, writer, sharing, awaiting, lastWrite,
              durable, closed, closing, call, failures, restarts>>

Added == [op : {"addIntent"}, id : Intent]
Removed == [op : {"removeIntent"}, id : Intent]
Epoch == [op : {"householdEpoch"}, id : Household]
Saved == Added \cup Removed \cup [op : {"other"}, id : Other]
Change == Saved \cup Epoch

\* The request intents a state holds.
IntentsOf(state) ==
  {i \in Intent : /\ [op |-> "addIntent", id |-> i] \in ToSet(state)
                  /\ [op |-> "removeIntent", id |-> i] \notin ToSet(state)}

FileInit ==
  /\ memory = <<>>
  /\ disk = <<>>
  /\ temporary = <<>>
  /\ writer = "idle"
  /\ sharing = {}
  /\ awaiting = {}
  /\ lastWrite = "resolved"
  /\ durable = {}
  /\ closed = FALSE
  /\ closing = "none"
  /\ call = [c \in Change |-> "none"]
  /\ failures = 0
  /\ restarts = 0

-----------------------------------------------------------------------------
(* Callers *)

\* #save: the caller awaits the write not started yet.
JoinQueued(c) ==
  /\ sharing' = sharing \cup {c}
  /\ UNCHANGED awaiting

\* A change is one a caller can make: an intent is removed after it is added.
Possible(c) ==
  /\ call[c] = "none"
  /\ c \in Removed => c.id \in IntentsOf(memory)

\* A mutator: #assertOpen, the change, #save.
Mutate(c) ==
  /\ Possible(c)
  /\ ~closed
  /\ memory' = Append(memory, c)
  /\ call' = [call EXCEPT ![c] = "waiting"]
  /\ JoinQueued(c)
  /\ UNCHANGED <<disk, temporary, writer, lastWrite, durable, closed, closing,
                 failures, restarts>>

\* A mutator after close(): #assertOpen throws before the state is touched.
Refuse(c) ==
  /\ Possible(c)
  /\ closed
  /\ call' = [call EXCEPT ![c] = "refused"]
  /\ UNCHANGED <<memory, disk, temporary, writer, sharing, awaiting, lastWrite,
                 durable, closed, closing, failures, restarts>>

\* householdEpoch gives an epoch in memory and does not save; it is a read, so
\* it is not refused after close() either.
AllocateEpoch(c) ==
  /\ call[c] = "none"
  /\ memory' = Append(memory, c)
  /\ call' = [call EXCEPT ![c] = "unsaved"]
  /\ UNCHANGED <<disk, temporary, writer, sharing, awaiting, lastWrite,
                 durable, closed, closing, failures, restarts>>

-----------------------------------------------------------------------------
(* The write *)

Idle == writer = "idle" /\ sharing = {}

\* Mutant: #queued is not reset when the queued write starts.
StartWriteKeepingQueued ==
  /\ writer = "idle"
  /\ sharing # {}
  /\ writer' = "preparing"
  /\ awaiting' = sharing
  /\ UNCHANGED <<memory, disk, temporary, sharing, lastWrite, durable, closed,
                 closing, call, failures, restarts>>

\* Mutant: a write that failed ends the chain (#writing without its catch).
StartWriteUnlessFailed ==
  /\ writer = "idle"
  /\ sharing # {}
  /\ lastWrite = "resolved"
  /\ writer' = "preparing"
  /\ awaiting' = sharing
  /\ sharing' = {}
  /\ UNCHANGED <<memory, disk, temporary, lastWrite, durable, closed, closing,
                 call, failures, restarts>>

\* The queued promise runs: later saves queue another write.  mkdir is awaited.
StartWrite ==
  /\ writer = "idle"
  /\ sharing # {}
  /\ writer' = "preparing"
  /\ awaiting' = sharing
  /\ sharing' = {}
  /\ UNCHANGED <<memory, disk, temporary, lastWrite, durable, closed, closing,
                 call, failures, restarts>>

\* The directory exists: the state is serialized as it is now.
Serialize ==
  /\ writer = "preparing"
  /\ writer' = "writing"
  /\ temporary' = memory
  /\ UNCHANGED <<memory, disk, sharing, awaiting, lastWrite, durable, closed,
                 closing, call, failures, restarts>>

\* The rename reaches the file system; the process has not heard of it yet.
Rename ==
  /\ writer = "writing"
  /\ writer' = "renamed"
  /\ disk' = temporary
  /\ UNCHANGED <<memory, temporary, sharing, awaiting, lastWrite, durable,
                 closed, closing, call, failures, restarts>>

\* mkdir, writeFile or rename fails; the temporary file is being removed.
FailWrite ==
  /\ writer \in {"preparing", "writing"}
  /\ failures < MaxFailures
  /\ failures' = failures + 1
  /\ writer' = "failed"
  /\ UNCHANGED <<memory, disk, temporary, sharing, awaiting, lastWrite, durable,
                 closed, closing, call, restarts>>

\* The write settled: every caller sharing it hears, and so does close() when
\* no other write is queued behind it.
Settle(outcome) ==
  /\ writer' = "idle"
  /\ lastWrite' = outcome
  /\ awaiting' = {}
  /\ call' = [c \in Change |-> IF c \in awaiting THEN outcome ELSE call[c]]
  /\ closing' = IF closing = "waiting" /\ sharing = {} THEN outcome ELSE closing
  /\ UNCHANGED <<memory, disk, temporary, sharing, closed, failures, restarts>>

\* Mutant: the intents are read when the write ends, not when it serializes.
CompleteReadingMemory ==
  /\ writer = "renamed"
  /\ durable' = IntentsOf(memory)
  /\ Settle("resolved")

Complete ==
  /\ writer = "renamed"
  /\ durable' = IntentsOf(temporary)
  /\ Settle("resolved")

\* Mutant: #write swallows its error.
RejectSwallowed ==
  /\ writer = "failed"
  /\ Settle("resolved")
  /\ UNCHANGED durable

Reject ==
  /\ writer = "failed"
  /\ Settle("rejected")
  /\ UNCHANGED durable

-----------------------------------------------------------------------------
(* The end of the process *)

\* Mutant: close() awaits the write in flight, not the one queued.
CloseIgnoringQueued ==
  /\ ~closed
  /\ closed' = TRUE
  /\ closing' = IF writer = "idle" THEN lastWrite ELSE "waiting"
  /\ UNCHANGED <<memory, disk, temporary, writer, sharing, awaiting, lastWrite,
                 durable, call, failures, restarts>>

\* close(): refuse further changes, await the last write started or queued.
Close ==
  /\ ~closed
  /\ closed' = TRUE
  /\ closing' = IF Idle THEN lastWrite ELSE "waiting"
  /\ UNCHANGED <<memory, disk, temporary, writer, sharing, awaiting, lastWrite,
                 durable, call, failures, restarts>>

\* The process ends at any moment and starts again: load() reads the file.
\* Every caller still waiting is gone; a stray temporary file is never read.
FileRestart ==
  /\ restarts < MaxRestarts
  /\ restarts' = restarts + 1
  /\ memory' = disk
  /\ durable' = IntentsOf(disk)
  /\ writer' = "idle"
  /\ sharing' = {}
  /\ awaiting' = {}
  /\ lastWrite' = "resolved"
  /\ closed' = FALSE
  /\ closing' = "none"
  /\ call' = [c \in Change |-> IF call[c] = "waiting" THEN "lost" ELSE call[c]]
  /\ UNCHANGED <<disk, temporary, failures>>

FileNext ==
  \/ \E c \in Saved : Mutate(c)
  \/ \E c \in Saved : Refuse(c)
  \/ \E c \in Epoch : AllocateEpoch(c)
  \/ StartWrite
  \/ Serialize
  \/ Rename
  \/ FailWrite
  \/ Complete
  \/ Reject
  \/ Close
  \/ FileRestart

\* The event loop runs what is ready and the file system answers: a write goes
\* on, with success or not, and its outcome is delivered.
Fairness ==
  /\ WF_fileVars(StartWrite)
  /\ WF_fileVars(Serialize)
  /\ WF_fileVars(Rename)
  /\ WF_fileVars(Complete)
  /\ WF_fileVars(Reject)

FileSpec == FileInit /\ [][FileNext]_fileVars
FairSpec == FileSpec /\ Fairness

-----------------------------------------------------------------------------
(* Properties *)

\* The shape of the variables, and who waits: a caller not answered yet awaits
\* exactly one write, the one in flight or the one queued.
FileTypeOK ==
  /\ memory \in Seq(Change) /\ disk \in Seq(Change) /\ temporary \in Seq(Change)
  /\ writer \in {"idle", "preparing", "writing", "renamed", "failed"}
  /\ sharing \in SUBSET Saved /\ awaiting \in SUBSET Saved
  /\ lastWrite \in {"resolved", "rejected"}
  /\ durable \in SUBSET Intent
  /\ closed \in BOOLEAN
  /\ closing \in {"none", "waiting", "resolved", "rejected"}
  /\ call \in [Change -> {"none", "waiting", "resolved", "rejected", "refused",
                          "unsaved", "lost"}]
  /\ failures \in Nat /\ restarts \in Nat
  /\ sharing \cap awaiting = {}
  /\ \A c \in Change : call[c] = "waiting" <=> c \in sharing \cup awaiting
  /\ writer = "idle" <=> awaiting = {}

\* A caller whose save resolved finds its change in the file from then on,
\* whatever fails or restarts later ("resolves once the state file has it").
ResolvedSurvives ==
  \A c \in Change : call[c] = "resolved" => c \in ToSet(disk)

\* isAppRequestIntentDurable never vouches for a live intent that a crash now
\* would lose: "Get this" sends its Seerr request on that word alone.
DurableIntentsOnDisk ==
  durable \cap IntentsOf(memory) \subseteq IntentsOf(disk)

\* When close() resolves the file holds every change a mutator accepted: only
\* epochs, which are not saved when they are given, may be missing.
CloseFlushes ==
  closing = "resolved" => ToSet(memory) \ ToSet(disk) \subseteq Epoch

\* A save always settles and so does close(), however many writes fail first
\* (a failed write does not wedge the chain), unless the process ends.
EverySaveSettles ==
  /\ \A c \in Saved : call[c] = "waiting" ~> call[c] # "waiting"
  /\ closing = "waiting" ~> closing # "waiting"

\* The file is always a state the memory went through, never goes back, and a
\* caller is told its change is saved only when it is: the promise of DurableLog.
Promise ==
  INSTANCE DurableLog WITH accepted <- memory, durable <- disk,
                           acknowledged <- {c \in Change : call[c] = "resolved"}
KeepsThePromise == Promise!Spec
=============================================================================
