----------------------------- MODULE StoreProofs ----------------------------
(***************************************************************************)
(* Proofs about the two sides of GrantStore (src/src/store.ts).            *)
(*                                                                         *)
(* StateFile, for any sets of intents, changes and households and any      *)
(* number of failures and restarts: its type invariant, the inductive      *)
(* invariant behind its properties, and that it implements DurableLog.     *)
(*                                                                         *)
(* GrantStore, for any items, users, groups and requests: what an          *)
(* administrator takes off an item stays off it; stored owners are those   *)
(* of the audience; moves keep the audience they found; and nobody comes   *)
(* back past a mark or by a request that was withdrawn.                    *)
(***************************************************************************)
EXTENDS StateFile, GrantStore, SequenceTheorems, FiniteSetTheorems, TLAPS

-----------------------------------------------------------------------------
(* Prefixes *)

\* A prefix is no longer and agrees element by element.
LEMMA PrefixPointwise ==
  ASSUME NEW S, NEW s \in Seq(S), NEW t \in Seq(S)
  PROVE  IsPrefix(s, t) <=> /\ Len(s) <= Len(t)
                            /\ \A i \in 1 .. Len(s) : s[i] = t[i]
<1>1. SUFFICES ASSUME Len(s) <= Len(t)
               PROVE  SubSeq(s, 1, Len(s)) = SubSeq(t, 1, Len(s))
                        <=> \A i \in 1 .. Len(s) : s[i] = t[i]
  BY DEF IsPrefix
<1>2. /\ SubSeq(s, 1, Len(s)) = [i \in 1 .. Len(s) |-> s[i]]
      /\ SubSeq(t, 1, Len(s)) = [i \in 1 .. Len(s) |-> t[i]]
  BY <1>1
<1>. QED
  BY <1>2

\* A sequence is a prefix of itself.
LEMMA PrefixReflexive ==
  ASSUME NEW S, NEW s \in Seq(S) PROVE IsPrefix(s, s)
BY PrefixPointwise

\* A prefix of a prefix is a prefix.
LEMMA PrefixTransitive ==
  ASSUME NEW S, NEW s \in Seq(S), NEW t \in Seq(S), NEW u \in Seq(S),
         IsPrefix(s, t), IsPrefix(t, u)
  PROVE  IsPrefix(s, u)
<1>. Len(s) \in Nat /\ Len(t) \in Nat /\ Len(u) \in Nat
  OBVIOUS
<1>. QED
  BY PrefixPointwise

\* Appending leaves every prefix one.
LEMMA PrefixOfAppend ==
  ASSUME NEW S, NEW s \in Seq(S), NEW t \in Seq(S), NEW e \in S, IsPrefix(s, t)
  PROVE  IsPrefix(s, Append(t, e))
<1>1. /\ Append(t, e) \in Seq(S)
      /\ Len(Append(t, e)) = Len(t) + 1
      /\ \A i \in 1 .. Len(t) : t[i] = Append(t, e)[i]
  OBVIOUS
<1>2. ASSUME NEW u \in Seq(S), Len(u) = Len(t) + 1, \A i \in 1 .. Len(t) : t[i] = u[i]
      PROVE  IsPrefix(t, u)
  BY <1>2, PrefixPointwise
<1>3. IsPrefix(t, Append(t, e))
  BY <1>1, <1>2
<1>. QED
  BY <1>1, <1>3, PrefixTransitive

\* What a prefix holds, the sequence holds.
LEMMA PrefixElements ==
  ASSUME NEW S, NEW s \in Seq(S), NEW t \in Seq(S), IsPrefix(s, t)
  PROVE  ToSet(s) \subseteq ToSet(t)
<1>. Len(s) \in Nat /\ Len(t) \in Nat /\ DOMAIN s = 1 .. Len(s) /\ DOMAIN t = 1 .. Len(t)
  OBVIOUS
<1>. QED
  BY PrefixPointwise DEF ToSet

\* Appending adds one element.
LEMMA AppendElements ==
  ASSUME NEW S, NEW t \in Seq(S), NEW e \in S
  PROVE  ToSet(Append(t, e)) = ToSet(t) \cup {e}
<1>1. /\ Len(t) \in Nat /\ DOMAIN t = 1 .. Len(t)
      /\ DOMAIN Append(t, e) = 1 .. Len(t) + 1
      /\ \A i \in 1 .. Len(t) : Append(t, e)[i] = t[i]
      /\ Append(t, e)[Len(t) + 1] = e
  OBVIOUS
<1>. QED
  BY <1>1 DEF ToSet

-----------------------------------------------------------------------------
(* The type invariant *)

\* FileTypeOK in every reachable state; in particular no caller awaits two writes,
\* and some caller awaits a write exactly while one is in flight.
THEOREM FileTypeCorrect == FileSpec => []FileTypeOK
<1>1. FileInit => FileTypeOK
  <2>. SUFFICES ASSUME FileInit PROVE FileTypeOK
    OBVIOUS
  <2>1. /\ call \in [Change -> {"none", "waiting", "resolved", "rejected", "refused",
                                "unsaved", "lost"}]
        /\ \A c \in Change : call[c] # "waiting"
    BY DEF FileInit
  <2>2. <<>> \in Seq(Change)
    OBVIOUS
  <2>3. sharing \cap awaiting = {} /\ \A c \in Change : c \notin sharing \cup awaiting
    BY DEF FileInit
  <2>. QED
    BY <2>1, <2>2, <2>3 DEF FileInit, FileTypeOK
<1>2. FileTypeOK /\ [FileNext]_fileVars => FileTypeOK'
  <2>. SUFFICES ASSUME FileTypeOK, [FileNext]_fileVars PROVE FileTypeOK'
    OBVIOUS
  <2>. USE BoundsAssumption
  <2>1. ASSUME NEW c \in Saved, Mutate(c) PROVE FileTypeOK'
    <3>1. c \in Change
      BY DEF Change
    <3>2. /\ sharing' = sharing \cup {c} /\ awaiting' = awaiting
          /\ call[c] = "none" /\ call' = [call EXCEPT ![c] = "waiting"]
          /\ memory' = Append(memory, c)
      BY <2>1 DEF Mutate, JoinQueued, Possible
    <3>3. /\ memory' \in Seq(Change) /\ sharing' \in SUBSET Saved /\ c \notin awaiting
          /\ call' \in [Change -> {"none", "waiting", "resolved", "rejected", "refused",
                                  "unsaved", "lost"}]
      BY <3>1, <3>2 DEF FileTypeOK
    <3>4. \A d \in Change : call'[d] = "waiting" <=> d \in sharing' \cup awaiting'
      BY <3>1, <3>2 DEF FileTypeOK
    <3>. QED
      BY <2>1, <3>2, <3>3, <3>4 DEF Mutate, FileTypeOK
  <2>2. ASSUME NEW c \in Saved, Refuse(c) PROVE FileTypeOK'
    <3>1. c \in Change /\ call[c] = "none" /\ call' = [call EXCEPT ![c] = "refused"]
      BY <2>2 DEF Refuse, Possible, Change
    <3>2. /\ call' \in [Change -> {"none", "waiting", "resolved", "rejected", "refused",
                                  "unsaved", "lost"}]
          /\ \A d \in Change : call'[d] = "waiting" <=> call[d] = "waiting"
      BY <3>1 DEF FileTypeOK
    <3>. QED
      BY <2>2, <3>2 DEF Refuse, FileTypeOK
  <2>3. ASSUME NEW c \in Epoch, AllocateEpoch(c) PROVE FileTypeOK'
    <3>1. /\ c \in Change /\ call[c] = "none" /\ call' = [call EXCEPT ![c] = "unsaved"]
          /\ memory' = Append(memory, c)
      BY <2>3 DEF AllocateEpoch, Change
    <3>2. /\ memory' \in Seq(Change)
          /\ call' \in [Change -> {"none", "waiting", "resolved", "rejected", "refused",
                                  "unsaved", "lost"}]
          /\ \A d \in Change : call'[d] = "waiting" <=> call[d] = "waiting"
      BY <3>1 DEF FileTypeOK
    <3>. QED
      BY <2>3, <3>2 DEF AllocateEpoch, FileTypeOK
  <2>4. CASE StartWrite
    BY <2>4 DEF StartWrite, FileTypeOK
  <2>5. CASE Serialize
    BY <2>5 DEF Serialize, FileTypeOK
  <2>6. CASE Rename
    BY <2>6 DEF Rename, FileTypeOK
  <2>7. CASE FailWrite
    BY <2>7 DEF FailWrite, FileTypeOK
  <2>8. CASE Complete
    BY <2>8 DEF Complete, Settle, FileTypeOK, IntentsOf, Idle
  <2>9. CASE Reject
    BY <2>9 DEF Reject, Settle, FileTypeOK
  <2>10. CASE Close
    BY <2>10 DEF Close, FileTypeOK
  <2>11. CASE FileRestart
    <3>1. restarts' \in Nat /\ durable' \in SUBSET Intent
      BY <2>11 DEF FileRestart, FileTypeOK, IntentsOf
    <3>2. /\ call' \in [Change -> {"none", "waiting", "resolved", "rejected", "refused",
                                   "unsaved", "lost"}]
          /\ \A c \in Change : call'[c] # "waiting"
      BY <2>11 DEF FileRestart, FileTypeOK
    <3>. QED
      BY <2>11, <3>1, <3>2 DEF FileRestart, FileTypeOK
  <2>12. CASE UNCHANGED fileVars
    BY <2>12 DEF fileVars, FileTypeOK
  <2>. QED
    BY <2>1, <2>2, <2>3, <2>4, <2>5, <2>6, <2>7, <2>8, <2>9, <2>10, <2>11, <2>12
    DEF FileNext
<1>. QED
  BY <1>1, <1>2, PTL DEF FileSpec

-----------------------------------------------------------------------------
(* The inductive invariant *)

\* What makes the file trustworthy: the file is a prefix of the memory, a
\* serialized write lies between them and holds the changes of every caller
\* awaiting it, a renamed one is the file.
FileInv ==
  /\ IsPrefix(disk, memory)
  /\ writer \in {"writing", "renamed"} =>
       IsPrefix(disk, temporary) /\ IsPrefix(temporary, memory)
  /\ writer = "renamed" => disk = temporary

\* Where the changes of the callers are, by what their callers were told.
CallersInv ==
  /\ sharing \cup awaiting \subseteq ToSet(memory)
  /\ writer \in {"writing", "renamed"} => awaiting \subseteq ToSet(temporary)
  /\ ResolvedSurvives

\* An intent #durableIntents names was written: it is in the file, or it was
\* and its removal is there too.
IntentsInv ==
  \A i \in durable : [op |-> "addIntent", id |-> i] \in ToSet(disk)

FileIInv == FileTypeOK /\ FileInv /\ CallersInv /\ IntentsInv

\* Every step keeps the file a prefix of what is being written, and that one of memory.
LEMMA FilePreserved == FileTypeOK /\ FileInv /\ [FileNext]_fileVars => FileInv'
<1>. SUFFICES ASSUME FileTypeOK, FileInv, [FileNext]_fileVars PROVE FileInv'
  OBVIOUS
<1>. memory \in Seq(Change) /\ disk \in Seq(Change) /\ temporary \in Seq(Change)
  BY DEF FileTypeOK
<1>1. ASSUME NEW c \in Change, memory' = Append(memory, c), UNCHANGED <<disk, temporary, writer>>
      PROVE  FileInv'
  <2>1. \A s \in Seq(Change) : IsPrefix(s, memory) => IsPrefix(s, memory')
    BY <1>1, PrefixOfAppend
  <2>. QED
    BY <1>1, <2>1 DEF FileInv
<1>2. ASSUME UNCHANGED <<memory, disk>>, writer' \notin {"writing", "renamed"} PROVE FileInv'
  BY <1>2 DEF FileInv
<1>3. CASE Serialize
  BY <1>3, PrefixReflexive DEF Serialize, FileInv
<1>4. CASE Rename
  BY <1>4, PrefixReflexive DEF Rename, FileInv
<1>5. CASE FileRestart
  <2>1. IsPrefix(disk, disk)
    BY PrefixReflexive
  <2>. QED
    BY <1>5, <2>1 DEF FileRestart, FileInv
<1>6. ASSUME UNCHANGED <<memory, disk, temporary, writer>> PROVE FileInv'
  BY <1>6 DEF FileInv
<1>. QED
  BY <1>1, <1>2, <1>3, <1>4, <1>5, <1>6
  DEF FileNext, Mutate, Refuse, AllocateEpoch, StartWrite, FailWrite, Complete, Reject, Settle,
      Close, fileVars, Change

\* Every step keeps what callers were told in the file, and what they await ahead of it.
LEMMA CallersPreserved == FileTypeOK /\ FileInv /\ CallersInv /\ [FileNext]_fileVars => CallersInv'
<1>. SUFFICES ASSUME FileTypeOK, FileInv, CallersInv, [FileNext]_fileVars PROVE CallersInv'
  OBVIOUS
<1>. /\ memory \in Seq(Change) /\ disk \in Seq(Change) /\ temporary \in Seq(Change)
     /\ call \in [Change -> {"none", "waiting", "resolved", "rejected", "refused",
                             "unsaved", "lost"}]
     /\ sharing \subseteq Change /\ awaiting \subseteq Change
  BY DEF FileTypeOK, Change
<1>1. ASSUME NEW c \in Saved, Mutate(c) PROVE CallersInv'
  <2>1. /\ c \in Change /\ memory' = Append(memory, c) /\ sharing' = sharing \cup {c}
        /\ call' = [call EXCEPT ![c] = "waiting"]
        /\ UNCHANGED <<awaiting, writer, temporary, disk>>
    BY <1>1 DEF Mutate, JoinQueued, Change
  <2>2. ToSet(memory') = ToSet(memory) \cup {c}
    BY <2>1, AppendElements
  <2>. QED
    BY <2>1, <2>2 DEF CallersInv, ResolvedSurvives
<1>2. ASSUME NEW c \in Saved, Refuse(c) PROVE CallersInv'
  BY <1>2 DEF Refuse, CallersInv, ResolvedSurvives
<1>3. ASSUME NEW c \in Epoch, AllocateEpoch(c) PROVE CallersInv'
  <2>1. /\ c \in Change /\ memory' = Append(memory, c)
        /\ call' = [call EXCEPT ![c] = "unsaved"]
        /\ UNCHANGED <<sharing, awaiting, writer, temporary, disk>>
    BY <1>3 DEF AllocateEpoch, Change
  <2>2. ToSet(memory') = ToSet(memory) \cup {c}
    BY <2>1, AppendElements
  <2>. QED
    BY <2>1, <2>2 DEF CallersInv, ResolvedSurvives
<1>4. CASE StartWrite
  BY <1>4 DEF StartWrite, CallersInv, ResolvedSurvives
<1>5. CASE Serialize
  BY <1>5 DEF Serialize, CallersInv, ResolvedSurvives
<1>6. CASE Rename
  <2>1. ToSet(disk) \subseteq ToSet(disk')
    BY <1>6, PrefixElements DEF Rename, FileInv
  <2>. QED
    BY <1>6, <2>1 DEF Rename, CallersInv, ResolvedSurvives
<1>7. CASE FailWrite
  BY <1>7 DEF FailWrite, CallersInv, ResolvedSurvives
<1>8. CASE Complete
  <2>1. awaiting \subseteq ToSet(disk)
    BY <1>8 DEF Complete, CallersInv, FileInv
  <2>. QED
    BY <1>8, <2>1 DEF Complete, Settle, CallersInv, ResolvedSurvives
<1>9. CASE Reject
  BY <1>9 DEF Reject, Settle, CallersInv, ResolvedSurvives
<1>10. CASE Close
  BY <1>10 DEF Close, CallersInv, ResolvedSurvives
<1>11. CASE FileRestart
  BY <1>11 DEF FileRestart, CallersInv, ResolvedSurvives
<1>12. CASE UNCHANGED fileVars
  BY <1>12 DEF fileVars, CallersInv, ResolvedSurvives
<1>. QED
  BY <1>1, <1>2, <1>3, <1>4, <1>5, <1>6, <1>7, <1>8, <1>9, <1>10, <1>11, <1>12 DEF FileNext

\* Every step keeps the durable intents those of the file or removed since.
LEMMA IntentsPreserved == FileTypeOK /\ FileInv /\ IntentsInv /\ [FileNext]_fileVars => IntentsInv'
<1>. SUFFICES ASSUME FileTypeOK, FileInv, IntentsInv, [FileNext]_fileVars PROVE IntentsInv'
  OBVIOUS
<1>. memory \in Seq(Change) /\ disk \in Seq(Change) /\ temporary \in Seq(Change)
  BY DEF FileTypeOK
<1>1. CASE Rename
  <2>1. ToSet(disk) \subseteq ToSet(disk')
    BY <1>1, PrefixElements DEF Rename, FileInv
  <2>. QED
    BY <1>1, <2>1 DEF Rename, IntentsInv
<1>2. CASE Complete
  BY <1>2 DEF Complete, Settle, IntentsInv, IntentsOf, FileInv
<1>3. CASE FileRestart
  BY <1>3 DEF FileRestart, IntentsInv, IntentsOf
<1>4. ASSUME UNCHANGED <<disk, durable>> PROVE IntentsInv'
  BY <1>4 DEF IntentsInv
<1>. QED
  BY <1>1, <1>2, <1>3, <1>4
  DEF FileNext, Mutate, Refuse, AllocateEpoch, StartWrite, Serialize, FailWrite, Reject, Settle,
      Close, fileVars

\* The four parts hold together in every reachable state.
LEMMA FileInvariance == FileSpec => []FileIInv
<1>1. FileInit => FileInv /\ CallersInv /\ IntentsInv
  <2>. SUFFICES ASSUME FileInit PROVE FileInv /\ CallersInv /\ IntentsInv
    OBVIOUS
  <2>1. IsPrefix(disk, memory)
    BY PrefixReflexive, <<>> \in Seq(Change) DEF FileInit
  <2>. QED
    BY <2>1 DEF FileInit, FileInv, CallersInv, IntentsInv, ResolvedSurvives
<1>2. FileTypeOK /\ FileInv /\ CallersInv /\ IntentsInv /\ [FileNext]_fileVars
        => (FileInv /\ CallersInv /\ IntentsInv)'
  BY FilePreserved, CallersPreserved, IntentsPreserved
<1>. QED
  BY <1>1, <1>2, FileTypeCorrect, PTL DEF FileSpec, FileIInv

-----------------------------------------------------------------------------
(* The theorems *)

\* A caller whose save resolved finds its change in the file from then on,
\* through any number of failed writes and restarts (#save, #write).
THEOREM Durability == FileSpec => []ResolvedSurvives
<1>1. FileIInv => ResolvedSurvives
  BY DEF FileIInv, CallersInv
<1>. QED
  BY <1>1, FileInvariance, PTL

\* isAppRequestIntentDurable never vouches for a live intent the file does not
\* hold: an intent live in memory has not been removed, so not in the file
\* either, which is a prefix of the memory.
THEOREM IntentDurability == FileSpec => []DurableIntentsOnDisk
<1>1. FileIInv => DurableIntentsOnDisk
  <2>. SUFFICES ASSUME FileIInv, NEW i \in durable \cap IntentsOf(memory) PROVE i \in IntentsOf(disk)
    BY DEF DurableIntentsOnDisk
  <2>1. ToSet(disk) \subseteq ToSet(memory)
    BY PrefixElements DEF FileIInv, FileTypeOK, FileInv
  <2>. QED
    BY <2>1 DEF FileIInv, IntentsInv, IntentsOf
<1>. QED
  BY <1>1, FileInvariance, PTL

\* Behind CloseFlushes: with no save left to write, only epochs are missing
\* from what was serialized last, and close() resolved on such a write.
FlushInv ==
  /\ Idle /\ lastWrite = "resolved" => ToSet(memory) \ ToSet(disk) \subseteq Epoch
  /\ writer \in {"writing", "renamed"} /\ sharing = {} =>
       ToSet(memory) \ ToSet(temporary) \subseteq Epoch
  /\ closing # "none" => closed
  /\ closing = "resolved" => Idle /\ lastWrite = "resolved"

\* With no save left to write, every step keeps what the file lacks to epochs.
LEMMA FlushPreserved == FileTypeOK /\ FileInv /\ FlushInv /\ [FileNext]_fileVars => FlushInv'
<1>. SUFFICES ASSUME FileTypeOK, FileInv, FlushInv, [FileNext]_fileVars PROVE FlushInv'
  OBVIOUS
<1>. memory \in Seq(Change) /\ disk \in Seq(Change) /\ temporary \in Seq(Change)
  BY DEF FileTypeOK
<1>1. ASSUME NEW c \in Saved, Mutate(c) PROVE FlushInv'
  BY <1>1 DEF Mutate, JoinQueued, FlushInv, Idle
<1>2. ASSUME NEW c \in Saved, Refuse(c) PROVE FlushInv'
  BY <1>2 DEF Refuse, FlushInv, Idle
<1>3. ASSUME NEW c \in Epoch, AllocateEpoch(c) PROVE FlushInv'
  <2>1. ToSet(memory') = ToSet(memory) \cup {c}
    BY <1>3, AppendElements DEF AllocateEpoch, Change
  <2>. QED
    BY <1>3, <2>1 DEF AllocateEpoch, FlushInv, Idle
<1>4. CASE StartWrite
  BY <1>4 DEF StartWrite, FlushInv, Idle
<1>5. CASE Serialize
  BY <1>5 DEF Serialize, FlushInv, Idle
<1>6. CASE Rename
  BY <1>6 DEF Rename, FlushInv, Idle
<1>7. CASE FailWrite
  BY <1>7 DEF FailWrite, FlushInv, Idle
<1>8. CASE Complete
  BY <1>8 DEF Complete, Settle, FlushInv, FileInv, Idle
<1>9. CASE Reject
  BY <1>9 DEF Reject, Settle, FlushInv, Idle
<1>10. CASE Close
  BY <1>10 DEF Close, FlushInv, Idle
<1>11. CASE FileRestart
  BY <1>11 DEF FileRestart, FlushInv, Idle
<1>12. CASE UNCHANGED fileVars
  BY <1>12 DEF fileVars, FlushInv, Idle
<1>. QED
  BY <1>1, <1>2, <1>3, <1>4, <1>5, <1>6, <1>7, <1>8, <1>9, <1>10, <1>11, <1>12 DEF FileNext

\* When close() resolves, the file holds every change a mutator accepted.
THEOREM CloseFlushed == FileSpec => []CloseFlushes
<1>1. FileInit => FlushInv
  BY DEF FileInit, FlushInv, Idle
<1>2. FlushInv => CloseFlushes
  BY DEF FlushInv, CloseFlushes
<1>. QED
  BY <1>1, <1>2, FlushPreserved, FileInvariance, PTL DEF FileSpec, FileIInv

\* StateFile implements DurableLog: Mutate and AllocateEpoch accept a change,
\* Rename persists, Complete acknowledges, FileRestart restarts, the rest stutters.
THEOREM Refinement == FileSpec => KeepsThePromise
<1>1. FileInit => Promise!Init
  BY DEF FileInit, Promise!Init
<1>2. FileIInv /\ [FileNext]_fileVars => [Promise!Next]_(Promise!vars)
  <2>. SUFFICES ASSUME FileIInv, [FileNext]_fileVars PROVE Promise!Next \/ UNCHANGED Promise!vars
    OBVIOUS
  <2>. DEFINE Acked == {c \in Change : call[c] = "resolved"}
  <2>. call \in [Change -> {"none", "waiting", "resolved", "rejected", "refused",
                          "unsaved", "lost"}]
    BY DEF FileIInv, FileTypeOK
  <2>1. ASSUME NEW c \in Change, memory' = Append(memory, c), UNCHANGED disk,
               call[c] = "none", call' \in {[call EXCEPT ![c] = "waiting"], [call EXCEPT ![c] = "unsaved"]}
        PROVE  Promise!Accept
    <3>1. Acked' = Acked
      BY <2>1
    <3>. QED
      BY <2>1, <3>1 DEF Promise!Accept
  <2>2. ASSUME Rename PROVE Promise!Persist
    <3>1. IsPrefix(disk, disk') /\ IsPrefix(disk', memory)
      BY <2>2 DEF Rename, FileIInv, FileInv
    <3>. QED
      BY <2>2, <3>1 DEF Rename, Promise!Persist, Promise!IsPrefix, IsPrefix
  <2>3. ASSUME Complete PROVE Promise!Acknowledge
    <3>1. Acked \subseteq Acked'
      BY <2>3 DEF Complete, Settle
    <3>2. Acked' \subseteq ToSet(disk)
      BY <2>3 DEF Complete, Settle, FileIInv, FileInv, CallersInv, ResolvedSurvives
    <3>. QED
      BY <2>3, <3>1, <3>2 DEF Complete, Settle, Promise!Acknowledge, Promise!ToSet, ToSet
  <2>4. ASSUME FileRestart PROVE Promise!Restart
    <3>1. Acked' = Acked
      BY <2>4 DEF FileRestart
    <3>. QED
      BY <2>4, <3>1 DEF FileRestart, Promise!Restart
  <2>5. ASSUME Reject PROVE UNCHANGED Promise!vars
    <3>1. \A c \in awaiting : c \in Change /\ call[c] = "waiting"
      BY DEF FileIInv, FileTypeOK, Change
    <3>2. Acked' = Acked
      BY <2>5, <3>1 DEF Reject, Settle
    <3>. QED
      BY <2>5, <3>2 DEF Reject, Settle, Promise!vars
  <2>6. ASSUME NEW c \in Saved, Refuse(c) PROVE UNCHANGED Promise!vars
    <3>1. Acked' = Acked
      BY <2>6 DEF Refuse, Possible
    <3>. QED
      BY <2>6, <3>1 DEF Refuse, Promise!vars
  <2>7. ASSUME UNCHANGED <<memory, disk, call>> PROVE UNCHANGED Promise!vars
    BY <2>7 DEF Promise!vars
  <2>. QED
    BY <2>1, <2>2, <2>3, <2>4, <2>5, <2>6, <2>7
    DEF FileNext, Mutate, AllocateEpoch, Possible, Change, StartWrite, Serialize, FailWrite, Close,
        fileVars, Promise!Next
<1>. QED
  BY <1>1, <1>2, FileInvariance, PTL DEF FileSpec, KeepsThePromise, Promise!Spec

-----------------------------------------------------------------------------
(* GrantStore: what its moves have still to do *)

\* What stays of a moved grant comes from the source, which nothing changes while
\* the move is under way: without it, retiring the source could bring back a request
\* revoked from it or a manual user marked there.
LeftFromSource == moving # NoMove =>
  /\ moving.leftover.requests \subseteq grants[moving.from].requests
  /\ moving.leftover.manual \subseteq grants[moving.from].manual

IInv == TypeOK /\ LeftFromSource /\ RevokedStaysOff /\ ManualUnmarked /\ NoDanglingGroups

-----------------------------------------------------------------------------
(* Helpers *)

\* The owners of an audience are users, whatever the memberships are.
LEMMA OwnersAreUsers ==
  ASSUME NEW a, a.requests \subseteq Request, a.manual \subseteq User, a.groups \subseteq Group,
         NEW membersNow \in [Group -> SUBSET User]
  PROVE  OwnersBy(membersNow, a) \subseteq User /\ a.manual \subseteq OwnersBy(membersNow, a)
  BY RequesterAssumption DEF OwnersBy

\* Whom a grant names once a household's members changed, or the household is gone.
LEMMA RelabelledFields ==
  ASSUME NEW a \in Grant, NEW groups, NEW owners, NEW place
  PROVE  /\ LET b == [a EXCEPT !.owners = owners, !.place = place]
            IN  b.requests = a.requests /\ b.manual = a.manual /\ b.groups = a.groups
         /\ LET b == [[a EXCEPT !.groups = groups] EXCEPT !.owners = owners, !.place = place]
            IN  b.requests = a.requests /\ b.manual = a.manual /\ b.groups = groups
  BY DEF Grant

\* Changing a household's members changes no grant but in its owners.
LEMMA UpsertFields ==
  ASSUME TypeOK, NEW g \in Group, NEW us \in SUBSET User, UpsertGroup(g, us), NEW j \in Item
  PROVE  /\ grants'[j].requests = grants[j].requests /\ grants'[j].manual = grants[j].manual
         /\ grants'[j].groups = grants[j].groups
<1>1. grants[j] \in Grant
  BY DEF TypeOK
<1>2. CASE g \in grants[j].groups
  <2>1. grants'[j] = [grants[j] EXCEPT !.owners = OwnersBy([members EXCEPT ![g] = us], grants[j]),
                                       !.place = IF grants[j].place = "orphaned" THEN "live" ELSE grants[j].place]
    BY <1>2 DEF UpsertGroup
  <2> QED BY <1>1, <2>1, RelabelledFields
<1>3. CASE g \notin grants[j].groups
  BY <1>3 DEF UpsertGroup
<1> QED BY <1>2, <1>3

\* Deleting a household takes it off every grant and changes nothing else but owners.
LEMMA DeleteFields ==
  ASSUME TypeOK, NEW g \in Group, DeleteGroup(g), NEW j \in Item
  PROVE  /\ grants'[j].requests = grants[j].requests /\ grants'[j].manual = grants[j].manual
         /\ grants'[j].groups = grants[j].groups \ {g}
<1> DEFINE left == [grants[j] EXCEPT !.groups = grants[j].groups \ {g}]
<1>1. grants[j] \in Grant
  BY DEF TypeOK
<1>2. CASE g \in grants[j].groups
  <2>1. left.place = grants[j].place
    BY <1>1 DEF Grant
  <2>2. grants'[j] = [left EXCEPT !.owners = OwnersBy([members EXCEPT ![g] = {}], left),
                                  !.place = IF left.place = "orphaned" THEN "live" ELSE left.place]
    BY <1>2, <2>1 DEF DeleteGroup
  <2> QED BY <1>1, <2>2, RelabelledFields
<1>3. CASE g \notin grants[j].groups
  BY <1>3 DEF DeleteGroup
<1> QED BY <1>2, <1>3

\* What #makeGrant returns, whatever grant it replaces.
LEMMA MakeGrantFacts ==
  ASSUME TypeOK, NEW previous \in Grant, NEW requests \in SUBSET Request,
         NEW manual \in SUBSET User, NEW groups \in SUBSET Group,
         NEW g, g = MakeGrant(previous, requests, manual, groups)
  PROVE  /\ g \in Grant /\ g.stored
         /\ g.requests = requests /\ g.manual = manual /\ g.groups = groups
<1> DEFINE a == [requests |-> requests, manual |-> manual, groups |-> groups]
<1>1. a.requests \subseteq Request /\ a.manual \subseteq User /\ a.groups \subseteq Group
  OBVIOUS
<1>2. members \in [Group -> SUBSET User]
  BY DEF TypeOK
<1>3. ResolveOwners(a) \subseteq User
  BY <1>1, <1>2, OwnersAreUsers DEF ResolveOwners
<1>4. previous.place \in Place
  BY DEF Grant
<1>5. g = [stored |-> TRUE, requests |-> requests, manual |-> manual, groups |-> groups,
           owners |-> ResolveOwners(a),
           place |-> IF previous.place = "orphaned" THEN "live" ELSE previous.place]
  BY DEF MakeGrant
<1> QED BY <1>3, <1>4, <1>5 DEF Grant, Place

\* A grant put in place of another, outside a move, keeps the invariant when nothing
\* on it is revoked, marked or gone, and the marks grow within what exists.
LEMMA ReplaceKeeps ==
  ASSUME IInv, Queue, NEW i \in Item, NEW g \in Grant, g.stored,
         grants' = [grants EXCEPT ![i] = g],
         revoked' \in [Request -> SUBSET Item],
         removedUsers' \in [Item -> SUBSET User], removedGroups' \in [Item -> SUBSET Group],
         \A j \in Item : j # i =>
           /\ removedUsers'[j] = removedUsers[j] /\ removedGroups'[j] = removedGroups[j]
           /\ \A r \in Request : j \in revoked'[r] => j \in revoked[r],
         \A r \in g.requests : i \notin revoked'[r],
         g.manual \cap removedUsers'[i] = {},
         g.groups \cup removedGroups'[i] \subseteq existing,
         handled' \subseteq Request, withdrawals' \in [Request -> Withdrawal],
         cancelling' \subseteq Request,
         UNCHANGED <<households, moving>>
  PROVE  IInv'
<1> USE DEF IInv
<1>1. grants' \in [Item -> Grant]
  BY DEF TypeOK
<1>2. grants'[i] = g /\ \A j \in Item : j # i => grants'[j] = grants[j]
  BY DEF TypeOK
<1>3. TypeOK'
  BY <1>1, <1>2 DEF TypeOK, MovingOK, Queue, households
<1>4. LeftFromSource'
  BY DEF LeftFromSource, Queue
<1>5. RevokedStaysOff'
  BY <1>2 DEF RevokedStaysOff, TypeOK
<1>6. ManualUnmarked'
  BY <1>2 DEF ManualUnmarked
<1>7. NoDanglingGroups'
  BY <1>2 DEF NoDanglingGroups, households
<1> QED BY <1>3, <1>4, <1>5, <1>6, <1>7

\* A step that changes no audience, mark or revocation keeps the invariant: households
\* may be added, members change, and a move end.
LEMMA AudiencesKept ==
  ASSUME IInv,
         grants' \in [Item -> Grant],
         \A j \in Item :
           /\ AudienceOf(grants'[j]) = AudienceOf(grants[j])
           /\ grants'[j].stored = grants[j].stored
           /\ grants[j] = Absent => grants'[j] = Absent,
         UNCHANGED <<revoked, marks>>,
         existing \subseteq existing', existing' \subseteq Group,
         members' \in [Group -> SUBSET User],
         handled' \subseteq Request, withdrawals' \in [Request -> Withdrawal],
         cancelling' \subseteq Request,
         moving' = moving \/ moving' = NoMove
  PROVE  IInv'
<1> USE DEF IInv
<1>1. \A j \in Item : /\ grants'[j].requests = grants[j].requests
                      /\ grants'[j].manual = grants[j].manual
                      /\ grants'[j].groups = grants[j].groups
  BY DEF AudienceOf
<1>2. TypeOK'
  BY DEF TypeOK, MovingOK, marks
<1>3. LeftFromSource'
  BY <1>1 DEF LeftFromSource, TypeOK, MovingOK
<1>4. RevokedStaysOff'
  BY <1>1 DEF RevokedStaysOff
<1>5. ManualUnmarked'
  BY <1>1 DEF ManualUnmarked, marks
<1>6. NoDanglingGroups'
  BY <1>1 DEF NoDanglingGroups, marks
<1> QED BY <1>2, <1>3, <1>4, <1>5, <1>6

\* Pruning keeps withdrawals or drops them.
LEMMA PruneType ==
  ASSUME NEW ws \in [Request -> Withdrawal], NEW gs, NEW handledNow
  PROVE  PruneWithdrawals(ws, gs, handledNow) \in [Request -> Withdrawal]
  BY DEF PruneWithdrawals, Withdrawal, NoWithdrawal

-----------------------------------------------------------------------------
(* Each action keeps the invariant *)

\* A granted request: no revoked item records it, nobody assigned by hand is marked.
LEMMA GrantedKeeps ==
  ASSUME IInv, Queue, NEW i \in Item, NEW r \in Request, Granted(i, r)
  PROVE  IInv'
<1> DEFINE previous == grants[i]
           requests == IF i \in revoked[r] THEN previous.requests ELSE previous.requests \cup {r}
           groups == previous.groups \cup GrantGroups(r)
           g == MakeGrant(previous, requests, previous.manual, groups)
<1>1. TypeOK /\ previous \in Grant
  BY DEF IInv, TypeOK
<1>2. requests \in SUBSET Request /\ previous.manual \in SUBSET User
  BY <1>1 DEF Grant
<1>3. GrantGroups(r) \subseteq existing
  BY DEF GrantGroups, ListGroupIdsForUser
<1>4. groups \in SUBSET Group /\ groups \subseteq existing
  BY <1>1, <1>3 DEF IInv, NoDanglingGroups, Grant, TypeOK
<1>5. /\ g \in Grant /\ g.stored /\ g.requests = requests
      /\ g.manual = previous.manual /\ g.groups = groups
  BY <1>1, <1>2, <1>4, MakeGrantFacts
<1>6. grants' = [grants EXCEPT ![i] = g]
  BY DEF Granted
<1>7. withdrawals' \in [Request -> Withdrawal] /\ handled' \subseteq Request
  BY <1>1, PruneType DEF Granted, TypeOK
<1>8. \A x \in requests : i \notin revoked[x]
  BY <1>2 DEF IInv, RevokedStaysOff
<1>9. UNCHANGED <<households, revoked, removedUsers, removedGroups, cancelling, moving>>
  BY DEF Granted, marks
<1>10. /\ g.manual \cap removedUsers'[i] = {}
       /\ g.groups \cup removedGroups'[i] \subseteq existing
  BY <1>4, <1>5, <1>9 DEF IInv, ManualUnmarked, NoDanglingGroups
<1>11. /\ revoked \in [Request -> SUBSET Item] /\ removedUsers \in [Item -> SUBSET User]
       /\ removedGroups \in [Item -> SUBSET Group] /\ cancelling \subseteq Request
  BY <1>1 DEF TypeOK
<1> HIDE DEF g, requests, groups
<1> QED
  BY <1>5, <1>6, <1>7, <1>8, <1>9, <1>10, <1>11, ReplaceKeeps

\* Revoking a request takes it off the grant and marks it as revoked there.
LEMMA RevokeRequestKeeps ==
  ASSUME IInv, NEW i \in Item, NEW r \in Request, RevokeRequest(i, r)
  PROVE  IInv'
<1> DEFINE previous == grants[i]
           requests == previous.requests \ {r}
           u == Requester[r]
           keeps == u \in previous.manual \/ \E x \in requests : Requester[x] = u
           g == MakeGrant(previous, requests, previous.manual, previous.groups)
<1>1. TypeOK /\ previous \in Grant /\ Queue
  BY DEF IInv, TypeOK, RevokeRequest
<1>2. requests \in SUBSET Request /\ previous.manual \in SUBSET User /\ previous.groups \in SUBSET Group
  BY <1>1 DEF Grant
<1>3. /\ g \in Grant /\ g.stored /\ g.requests = requests
      /\ g.manual = previous.manual /\ g.groups = previous.groups
  BY <1>1, <1>2, MakeGrantFacts
<1>4. /\ grants' = [grants EXCEPT ![i] = g]
      /\ revoked' = [revoked EXCEPT ![r] = revoked[r] \cup {i}]
      /\ removedUsers' = [removedUsers EXCEPT ![i] = IF keeps THEN removedUsers[i] ELSE removedUsers[i] \cup {u}]
  BY DEF RevokeRequest
<1>5. u \in User
  BY RequesterAssumption
<1>6. revoked' \in [Request -> SUBSET Item] /\ removedUsers' \in [Item -> SUBSET User]
  BY <1>1, <1>4, <1>5 DEF TypeOK
<1>7. withdrawals' \in [Request -> Withdrawal] /\ handled' \subseteq Request
  BY <1>1, PruneType DEF RevokeRequest, TypeOK
<1>8. \A x \in g.requests : i \notin revoked'[x]
  BY <1>1, <1>2, <1>3, <1>4 DEF IInv, RevokedStaysOff, TypeOK
<1>9. g.manual \cap removedUsers'[i] = {}
  BY <1>1, <1>3, <1>4 DEF IInv, ManualUnmarked, TypeOK
<1>10. g.groups \cup removedGroups[i] \subseteq existing
  BY <1>3 DEF IInv, NoDanglingGroups
<1>11. \A j \in Item : j # i => /\ removedUsers'[j] = removedUsers[j]
                                /\ \A x \in Request : j \in revoked'[x] => j \in revoked[x]
  BY <1>1, <1>4 DEF TypeOK
<1> HIDE DEF g, requests, keeps, u
<1> QED
  BY <1>1, <1>3, <1>4, <1>6, <1>7, <1>8, <1>9, <1>10, <1>11, ReplaceKeeps
  DEF RevokeRequest, TypeOK, households

\* Both ways an administrator sets an item's manual users and groups.
LEMMA AdministratorChangeKeeps ==
  ASSUME IInv, Queue, NEW i \in Item, NEW manual \in SUBSET User, NEW groups \in SUBSET Group,
         groups \subseteq existing,
         grants' = [grants EXCEPT ![i] = MakeGrant(grants[i], grants[i].requests, manual, groups)],
         RecordAdministratorChange(i, manual, groups),
         UNCHANGED <<households, handled, revoked, withdrawals, cancelling, moving>>
  PROVE  IInv'
<1> DEFINE previous == grants[i]
           g == MakeGrant(previous, previous.requests, manual, groups)
           mu == MarkedUsers(i, manual, groups)
           mg == MarkedGroups(i, groups)
<1>1. TypeOK /\ previous \in Grant
  BY DEF IInv, TypeOK
<1>2. /\ previous.requests \subseteq Request /\ previous.manual \subseteq User
      /\ previous.groups \subseteq Group
  BY <1>1 DEF Grant
<1>3. /\ g \in Grant /\ g.stored /\ g.requests = previous.requests
      /\ g.manual = manual /\ g.groups = groups
  BY <1>1, <1>2, MakeGrantFacts
<1>4. ResolveOwners(previous) \subseteq User
  BY <1>1, <1>2, OwnersAreUsers DEF ResolveOwners, TypeOK
<1>5. mu \subseteq User /\ manual \cap mu = {}
  BY <1>1, <1>2, <1>4 DEF MarkedUsers, TypeOK
<1>6. mg \subseteq existing
  BY DEF MarkedGroups, IInv, NoDanglingGroups
<1>7. /\ removedUsers' = [removedUsers EXCEPT ![i] = mu]
      /\ removedGroups' = [removedGroups EXCEPT ![i] = mg]
  BY DEF RecordAdministratorChange
<1>8. \A x \in g.requests : i \notin revoked[x]
  BY <1>3, <1>2 DEF IInv, RevokedStaysOff
<1> HIDE DEF g, mu, mg
<1>9. /\ removedUsers' \in [Item -> SUBSET User] /\ removedGroups' \in [Item -> SUBSET Group]
      /\ removedUsers'[i] = mu /\ removedGroups'[i] = mg
      /\ \A j \in Item : j # i => removedUsers'[j] = removedUsers[j] /\ removedGroups'[j] = removedGroups[j]
  BY <1>1, <1>5, <1>6, <1>7 DEF TypeOK
<1>10. grants' = [grants EXCEPT ![i] = g]
  BY DEF g
<1> QED
  BY <1>1, <1>3, <1>5, <1>6, <1>8, <1>9, <1>10, ReplaceKeeps
  DEF TypeOK, households

\* The owners are computed anew; audiences, marks and revocations stay.
LEMMA UpsertGroupKeeps ==
  ASSUME IInv, NEW g \in Group, NEW users \in SUBSET User, UpsertGroup(g, users)
  PROVE  IInv'
<1> DEFINE membersNow == [members EXCEPT ![g] = users]
           placed(i) == IF grants[i].place = "orphaned" THEN "live" ELSE grants[i].place
           renewed(i) == [grants[i] EXCEPT !.owners = OwnersBy(membersNow, grants[i]),
                                           !.place = placed(i)]
<1>1. TypeOK
  BY DEF IInv
<1>2. membersNow \in [Group -> SUBSET User]
  BY <1>1 DEF TypeOK
<1>3. grants' = [i \in Item |-> IF g \in grants[i].groups THEN renewed(i) ELSE grants[i]]
  BY DEF UpsertGroup
<1>4. \A i \in Item : renewed(i) \in Grant
  <2>1. TAKE i \in Item
  <2>2. grants[i] \in Grant
    BY <1>1 DEF TypeOK
  <2>3. grants[i].requests \subseteq Request /\ grants[i].manual \subseteq User /\ grants[i].groups \subseteq Group
    BY <2>2 DEF Grant
  <2>4. OwnersBy(membersNow, grants[i]) \subseteq User
    BY <1>2, <2>3, OwnersAreUsers
  <2>5. placed(i) \in Place
    BY <2>2 DEF Grant, Place
  <2> HIDE DEF membersNow, placed
  <2> QED BY <2>2, <2>4, <2>5 DEF Grant
<1>5. \A i \in Item : /\ AudienceOf(renewed(i)) = AudienceOf(grants[i])
                      /\ renewed(i).stored = grants[i].stored
  <2>1. TAKE i \in Item
  <2>2. grants[i] \in Grant
    BY <1>1 DEF TypeOK
  <2> HIDE DEF membersNow, placed
  <2> QED BY <2>2 DEF Grant, AudienceOf
<1>6. \A i \in Item : grants[i] = Absent => g \notin grants[i].groups
  BY DEF Absent
<1> HIDE DEF membersNow, renewed
<1>7. /\ grants' \in [Item -> Grant]
      /\ \A j \in Item :
           /\ AudienceOf(grants'[j]) = AudienceOf(grants[j])
           /\ grants'[j].stored = grants[j].stored
           /\ grants[j] = Absent => grants'[j] = Absent
  BY <1>1, <1>3, <1>4, <1>5, <1>6 DEF TypeOK
<1>8. /\ existing' = existing \cup {g} /\ members' = membersNow
      /\ UNCHANGED <<handled, revoked, marks, withdrawals, cancelling, moving>>
  BY DEF UpsertGroup, membersNow
<1>9. /\ existing \subseteq Group /\ handled \subseteq Request /\ cancelling \subseteq Request
      /\ withdrawals \in [Request -> Withdrawal]
  BY <1>1 DEF TypeOK
<1> QED BY <1>2, <1>7, <1>8, <1>9, AudiencesKept

\* The group leaves every grant and every mark at once.
LEMMA DeleteGroupKeeps ==
  ASSUME IInv, NEW g \in Group, DeleteGroup(g)
  PROVE  IInv'
<1> DEFINE membersNow == [members EXCEPT ![g] = {}]
           left(i) == [grants[i] EXCEPT !.groups = grants[i].groups \ {g}]
           placed(i) == IF grants[i].place = "orphaned" THEN "live" ELSE grants[i].place
           renewed(i) == [left(i) EXCEPT !.owners = OwnersBy(membersNow, left(i)),
                                         !.place = placed(i)]
<1>1. TypeOK /\ Queue
  BY DEF IInv, DeleteGroup
<1>2. membersNow \in [Group -> SUBSET User]
  BY <1>1 DEF TypeOK
<1>3. grants' = [i \in Item |-> IF g \in grants[i].groups THEN renewed(i) ELSE grants[i]]
  <2>1. \A i \in Item : g \in grants[i].groups => left(i).place = grants[i].place
    BY <1>1 DEF TypeOK, Grant
  <2> QED BY <2>1 DEF DeleteGroup
<1>4. \A i \in Item : /\ renewed(i) \in Grant
                      /\ renewed(i).stored = grants[i].stored
                      /\ renewed(i).requests = grants[i].requests
                      /\ renewed(i).manual = grants[i].manual
                      /\ renewed(i).groups = grants[i].groups \ {g}
  <2>1. TAKE i \in Item
  <2>2. grants[i] \in Grant
    BY <1>1 DEF TypeOK
  <2>3. /\ left(i) \in Grant /\ left(i).groups = grants[i].groups \ {g}
        /\ left(i).requests = grants[i].requests /\ left(i).manual = grants[i].manual
        /\ left(i).stored = grants[i].stored
    BY <2>2 DEF Grant
  <2>4. left(i).requests \subseteq Request /\ left(i).manual \subseteq User /\ left(i).groups \subseteq Group
    BY <2>3 DEF Grant
  <2>5. OwnersBy(membersNow, left(i)) \subseteq User
    BY <1>2, <2>4, OwnersAreUsers
  <2>6. placed(i) \in Place
    BY <2>2 DEF Grant, Place
  <2> HIDE DEF membersNow, placed, left
  <2> QED BY <2>3, <2>5, <2>6 DEF Grant
<1>5. \A i \in Item : grants[i] = Absent => g \notin grants[i].groups
  BY DEF Absent
<1>6. /\ existing' = existing \ {g} /\ members' = membersNow
      /\ removedGroups' = [i \in Item |-> removedGroups[i] \ {g}]
      /\ UNCHANGED <<handled, revoked, removedUsers, withdrawals, cancelling, moving>>
  BY DEF DeleteGroup
<1> HIDE DEF membersNow, renewed
<1>7. \A i \in Item : /\ grants'[i] \in Grant
                      /\ grants'[i].stored = grants[i].stored
                      /\ grants'[i].requests = grants[i].requests
                      /\ grants'[i].manual = grants[i].manual
                      /\ grants'[i].groups = grants[i].groups \ {g}
                      /\ grants[i] = Absent => grants'[i] = Absent
  BY <1>1, <1>3, <1>4, <1>5 DEF TypeOK
<1>8. grants' \in [Item -> Grant]
  BY <1>3, <1>7
<1>9. TypeOK'
  BY <1>1, <1>2, <1>6, <1>7, <1>8 DEF TypeOK, MovingOK, Queue
<1>10. LeftFromSource'
  BY <1>1, <1>6 DEF LeftFromSource, Queue
<1>11. RevokedStaysOff'
  BY <1>6, <1>7 DEF IInv, RevokedStaysOff
<1>12. ManualUnmarked'
  BY <1>6, <1>7 DEF IInv, ManualUnmarked
<1>13. NoDanglingGroups'
  BY <1>6, <1>7 DEF IInv, NoDanglingGroups
<1> QED BY <1>9, <1>10, <1>11, <1>12, <1>13 DEF IInv

\* A household joins only when it and its member are not marked as removed.
LEMMA JoinGrantKeeps ==
  ASSUME IInv, NEW i \in Item, NEW u \in User, NEW h \in Group, JoinGrant(i, u, h)
  PROVE  IInv'
<1> DEFINE previous == grants[i]
           g == MakeGrant(previous, previous.requests, previous.manual, previous.groups \cup {h})
<1>1. TypeOK /\ Queue /\ previous \in Grant /\ h \in existing
  BY DEF IInv, TypeOK, JoinGrant, PlanJoin
<1>2. previous.requests \in SUBSET Request /\ previous.manual \in SUBSET User /\ previous.groups \in SUBSET Group
  BY <1>1 DEF Grant
<1>3. /\ g \in Grant /\ g.stored /\ g.requests = previous.requests
      /\ g.manual = previous.manual /\ g.groups = previous.groups \cup {h}
  BY <1>1, <1>2, MakeGrantFacts
<1>4. /\ grants' = [grants EXCEPT ![i] = g]
      /\ UNCHANGED <<households, handled, revoked, removedUsers, removedGroups, withdrawals, cancelling, moving>>
  BY DEF JoinGrant, marks
<1>5. /\ \A r \in g.requests : i \notin revoked[r]
      /\ g.manual \cap removedUsers[i] = {}
      /\ g.groups \cup removedGroups[i] \subseteq existing
  BY <1>1, <1>2, <1>3 DEF IInv, RevokedStaysOff, ManualUnmarked, NoDanglingGroups
<1> HIDE DEF g
<1>6. /\ revoked \in [Request -> SUBSET Item] /\ removedUsers \in [Item -> SUBSET User]
      /\ removedGroups \in [Item -> SUBSET Group] /\ cancelling \subseteq Request
      /\ handled \subseteq Request /\ withdrawals \in [Request -> Withdrawal]
  BY <1>1 DEF TypeOK
<1> QED BY <1>1, <1>3, <1>4, <1>5, <1>6, ReplaceKeeps

\* The steps of cancels, joins by record and restarts: only who withdrew, what is
\* handled, what is being deleted and whether a move is under way change.
LEMMA RecordsKeep ==
  ASSUME IInv,
         UNCHANGED <<grants, households, revoked, marks>>,
         handled' \subseteq Request, withdrawals' \in [Request -> Withdrawal],
         cancelling' \subseteq Request,
         moving' = moving \/ moving' = NoMove
  PROVE  IInv'
<1>1. /\ grants \in [Item -> Grant] /\ existing \subseteq Group
      /\ members \in [Group -> SUBSET User]
  BY DEF IInv, TypeOK
<1> QED BY <1>1, AudiencesKept DEF households

\* Withdrawals, title holds and cancels.
LEMMA CancelsKeep ==
  ASSUME IInv, Cancels
  PROVE  IInv'
<1>1. PICK r \in Request :
        \/ \E gs \in SUBSET Group, byRequester, deletes \in BOOLEAN : Withdraw(r, gs, byRequester, deletes)
        \/ ForgetWithdrawal(r) \/ KeepCancelled(r)
        \/ \E holds \in BOOLEAN : RequestGone(r, holds)
        \/ DropTitleHold(r)
  BY DEF Cancels
<1>2. /\ handled \subseteq Request /\ cancelling \subseteq Request
      /\ withdrawals \in [Request -> Withdrawal] /\ NoWithdrawal \in Withdrawal
  BY DEF IInv, TypeOK, NoWithdrawal, Withdrawal
<1>3. ASSUME NEW gs \in SUBSET Group, NEW byRequester \in BOOLEAN, NEW deletes \in BOOLEAN,
             Withdraw(r, gs, byRequester, deletes)
      PROVE  IInv'
  <2>1. withdrawals' \in [Request -> Withdrawal]
    <3> DEFINE w == [withdrawals[r] EXCEPT !.groups = withdrawals[r].groups \cup gs,
                                           !.requester = withdrawals[r].requester \/ byRequester]
    <3>1. w \in Withdrawal
      BY <1>2 DEF Withdrawal
    <3>2. withdrawals' = [withdrawals EXCEPT ![r] = w]
      BY <1>2, <1>3 DEF Withdraw, Withdrawal
    <3> QED BY <1>2, <3>1, <3>2
  <2>2. cancelling' \subseteq Request
    BY <1>2, <1>3 DEF Withdraw
  <2> QED BY <1>2, <1>3, <2>1, <2>2, RecordsKeep DEF Withdraw
<1>4. ASSUME ForgetWithdrawal(r) PROVE IInv'
  <2>1. withdrawals' \in [Request -> Withdrawal]
    BY <1>2, <1>4, PruneType DEF ForgetWithdrawal
  <2> QED BY <1>2, <1>4, <2>1, RecordsKeep DEF ForgetWithdrawal
<1>5. ASSUME KeepCancelled(r) PROVE IInv'
  BY <1>2, <1>5, RecordsKeep DEF KeepCancelled
<1>6. ASSUME NEW holds \in BOOLEAN, RequestGone(r, holds) PROVE IInv'
  <2>1. withdrawals' \in [Request -> Withdrawal]
    BY <1>2, <1>6 DEF RequestGone, Withdrawal
  <2> QED BY <1>2, <1>6, <2>1, RecordsKeep DEF RequestGone
<1>7. ASSUME DropTitleHold(r) PROVE IInv'
  <2> DEFINE dropped == IF r \in handled THEN [withdrawals[r] EXCEPT !.gone = FALSE] ELSE NoWithdrawal
  <2>1. dropped \in Withdrawal
    BY <1>2 DEF Withdrawal
  <2>2. withdrawals' = PruneWithdrawals([withdrawals EXCEPT ![r] = dropped], grants, handled)
    BY <1>7 DEF DropTitleHold
  <2> HIDE DEF dropped
  <2>3. withdrawals' \in [Request -> Withdrawal]
    BY <1>2, <2>1, <2>2, PruneType
  <2> QED BY <1>2, <1>7, <2>3, RecordsKeep DEF DropTitleHold
<1> QED BY <1>1, <1>3, <1>4, <1>5, <1>6, <1>7

\* A grant's place changes, and with it perhaps the end of a move.
LEMMA PlaceKeeps ==
  ASSUME IInv, NEW i \in Item, NEW place \in Place, grants[i].stored,
         grants' = [grants EXCEPT ![i].place = place],
         UNCHANGED <<households, handled, revoked, marks, withdrawals, cancelling>>,
         moving' = moving \/ moving' = NoMove
  PROVE  IInv'
<1>1. /\ grants \in [Item -> Grant] /\ existing \subseteq Group
      /\ members \in [Group -> SUBSET User] /\ handled \subseteq Request
      /\ cancelling \subseteq Request /\ withdrawals \in [Request -> Withdrawal]
  BY DEF IInv, TypeOK
<1>2. grants' \in [Item -> Grant]
  BY <1>1 DEF Grant
<1>3. \A j \in Item : /\ AudienceOf(grants'[j]) = AudienceOf(grants[j])
                      /\ grants'[j].stored = grants[j].stored
  BY <1>1 DEF Grant, AudienceOf
<1>4. \A j \in Item : j # i => grants'[j] = grants[j]
  BY <1>1
<1>5. grants[i] # Absent
  BY DEF Absent
<1>6. \A j \in Item : grants[j] = Absent => grants'[j] = Absent
  BY <1>4, <1>5
<1> QED BY <1>1, <1>2, <1>3, <1>6, AudiencesKept DEF households

-----------------------------------------------------------------------------
(* Moves *)

\* What a move may take: targets other than the source, with audiences of the
\* source's own requests, manual users and groups.
MoveFrom(i, move) ==
  /\ move.from = i
  /\ DOMAIN move.moves \subseteq Item \ {i}
  /\ \A t \in DOMAIN move.moves :
       /\ move.moves[t] \in Audience
       /\ move.moves[t].requests \subseteq grants[i].requests
       /\ move.moves[t].manual \subseteq grants[i].manual
       /\ move.moves[t].groups \subseteq grants[i].groups
  /\ move.leftover \in Audience
  /\ move.leftover.requests \subseteq grants[i].requests
  /\ move.leftover.manual \subseteq grants[i].manual

\* A recovery takes only what the source has, and to other items.
LEMMA PartitionIsFromSource ==
  ASSUME TypeOK, NEW i \in Item, NEW resolves \in [grants[i].requests -> (Item \ {i}) \cup {NoItem}]
  PROVE  MoveFrom(i, PartitionMove(i, resolves))
<1> DEFINE source == grants[i]
           landed(t) == {r \in source.requests : resolves[r] = t /\ t \notin revoked[r]}
           targets == {t \in Item : landed(t) # {}}
           unresolved == {r \in source.requests : resolves[r] = NoItem}
           dropped == {r \in source.requests : resolves[r] \in revoked[r]}
           whole == /\ Cardinality(targets) = 1
                    /\ unresolved \cup dropped = {}
                    /\ source.place # "split"
           moves == [t \in targets |->
                       IF whole THEN AudienceOf(source)
                       ELSE [requests |-> landed(t), manual |-> {}, groups |-> Households(i, landed(t))]]
           moved == UNION {moves[t].groups : t \in targets}
           leftover == IF whole THEN Nobody
                       ELSE [requests |-> unresolved, manual |-> source.manual,
                             groups |-> (source.groups \ moved) \cup Households(i, unresolved)]
<1>1. PartitionMove(i, resolves) = [from |-> i, moves |-> moves, leftover |-> leftover]
  BY DEF PartitionMove
<1>2. /\ source.requests \subseteq Request /\ source.manual \subseteq User
      /\ source.groups \subseteq Group
  BY DEF TypeOK, Grant
<1>3. \A rs : Households(i, rs) \subseteq source.groups
  BY DEF Households
<1>4. \A t : landed(t) \subseteq source.requests /\ (t \in targets => \E r \in source.requests : resolves[r] = t)
  OBVIOUS
<1>5. targets \subseteq Item \ {i}
  <2>1. ASSUME NEW t \in targets PROVE t # i
    <3>1. PICK r \in source.requests : resolves[r] = t
      BY <2>1, <1>4
    <3>2. t \in Item
      BY <2>1
    <3> HIDE DEF targets
    <3> QED BY <3>1, <3>2, NoItemAssumption
  <2> QED BY <2>1
<1>6. ASSUME NEW t \in targets
      PROVE  /\ moves[t] \in Audience /\ moves[t].requests \subseteq source.requests
             /\ moves[t].manual \subseteq source.manual /\ moves[t].groups \subseteq source.groups
  <2>1. CASE whole
    <3>1. moves[t] = AudienceOf(source)
      BY <1>6, <2>1
    <3> HIDE DEF moves
    <3> QED BY <1>2, <3>1 DEF AudienceOf, Audience
  <2>2. CASE ~whole
    <3>1. moves[t] = [requests |-> landed(t), manual |-> {}, groups |-> Households(i, landed(t))]
      BY <1>6, <2>2
    <3>2. landed(t) \subseteq source.requests
      BY <1>4
    <3> HIDE DEF moves, landed
    <3> QED BY <1>2, <1>3, <3>1, <3>2 DEF Audience
  <2> QED BY <2>1, <2>2
<1>7. /\ leftover \in Audience /\ leftover.requests \subseteq source.requests
      /\ leftover.manual \subseteq source.manual
  <2>1. CASE whole
    <3>1. leftover = Nobody
      BY <2>1
    <3> HIDE DEF leftover
    <3> QED BY <3>1 DEF Nobody, Audience
  <2>2. CASE ~whole
    <3>1. leftover = [requests |-> unresolved, manual |-> source.manual,
                      groups |-> (source.groups \ moved) \cup Households(i, unresolved)]
      BY <2>2
    <3>2. unresolved \subseteq source.requests
      OBVIOUS
    <3> HIDE DEF leftover, moved, unresolved
    <3> QED BY <1>2, <1>3, <3>1, <3>2 DEF Audience
  <2> QED BY <2>1, <2>2
<1>8. DOMAIN moves = targets
  OBVIOUS
<1> HIDE DEF moves, leftover, targets
<1> QED BY <1>1, <1>5, <1>6, <1>7, <1>8 DEF MoveFrom

\* What merging a move makes of the targets' grants, marks and revocations.
LEMMA MergeFacts ==
  ASSUME TypeOK, NEW i \in Item, NEW move, MoveFrom(i, move), MergeGrants(move)
  PROVE  /\ \A t \in DOMAIN move.moves :
              /\ grants'[t] = MergedMove(t, move.moves[t])
              /\ grants'[t] \in Grant /\ grants'[t].stored
              /\ grants'[t].requests = grants[t].requests \cup {r \in move.moves[t].requests : t \notin revoked[r]}
              /\ grants'[t].manual = grants[t].manual \cup (move.moves[t].manual \ removedUsers[t])
              /\ grants'[t].groups = grants[t].groups \cup ((move.moves[t].groups \cap existing) \ removedGroups[t])
              /\ removedUsers'[t] = removedUsers[t] \cup (removedUsers[i] \ ResolveOwners(grants[t]))
              /\ removedGroups'[t] = removedGroups[t] \cup (removedGroups[i] \ grants[t].groups)
         /\ \A j \in Item \ DOMAIN move.moves :
              /\ grants'[j] = grants[j]
              /\ removedUsers'[j] = removedUsers[j] /\ removedGroups'[j] = removedGroups[j]
         /\ \A r \in Request : revoked'[r] = CarriedRevocations(i, DOMAIN move.moves, r)
<1> DEFINE targets == DOMAIN move.moves
<1>1. TypeOK /\ targets \subseteq Item \ {i} /\ move.from = i
  BY DEF MoveFrom
<1>2. ASSUME NEW t \in targets
      PROVE  /\ grants'[t] = MergedMove(t, move.moves[t])
             /\ grants'[t] \in Grant /\ grants'[t].stored
             /\ grants'[t].requests = grants[t].requests \cup {r \in move.moves[t].requests : t \notin revoked[r]}
             /\ grants'[t].manual = grants[t].manual \cup (move.moves[t].manual \ removedUsers[t])
             /\ grants'[t].groups = grants[t].groups \cup ((move.moves[t].groups \cap existing) \ removedGroups[t])
  <2>1. grants'[t] = MergedMove(t, move.moves[t])
    BY <1>1, <1>2 DEF MergeGrants
  <2>2. grants[t] \in Grant /\ move.moves[t] \in Audience
    BY <1>1, <1>2 DEF TypeOK, MoveFrom
  <2>3. /\ grants[t].requests \cup {r \in move.moves[t].requests : t \notin revoked[r]} \in SUBSET Request
        /\ grants[t].manual \cup (move.moves[t].manual \ removedUsers[t]) \in SUBSET User
        /\ grants[t].groups \cup ((move.moves[t].groups \cap existing) \ removedGroups[t]) \in SUBSET Group
    BY <2>2 DEF Grant, Audience
  <2> QED BY <1>1, <2>1, <2>2, <2>3, MakeGrantFacts DEF MergedMove
<1>3. \A j \in Item \ targets : /\ grants'[j] = grants[j]
                                /\ removedUsers'[j] = removedUsers[j]
                                /\ removedGroups'[j] = removedGroups[j]
  BY <1>1 DEF MergeGrants
<1>4. \A t \in targets : /\ removedUsers'[t] = removedUsers[t] \cup (removedUsers[i] \ ResolveOwners(grants[t]))
                         /\ removedGroups'[t] = removedGroups[t] \cup (removedGroups[i] \ grants[t].groups)
  BY <1>1 DEF MergeGrants, CarriedUsers, CarriedGroups
<1>5. \A r \in Request : revoked'[r] = CarriedRevocations(i, targets, r)
  BY <1>1 DEF MergeGrants
<1> QED BY <1>2, <1>3, <1>4, <1>5

\* Merging a move: nothing revoked from a target or marked on it arrives there, and
\* what is carried to a target as a mark or a revocation is not on it.
LEMMA MergeKeeps ==
  ASSUME IInv, Queue, NEW i \in Item, grants[i].stored, NEW move, MoveFrom(i, move),
         MergeGrants(move)
  PROVE  IInv'
<1> DEFINE targets == DOMAIN move.moves
<1>1. TypeOK /\ grants[i] \in Grant /\ targets \subseteq Item \ {i} /\ move.from = i
  BY DEF IInv, TypeOK, MoveFrom
<1>2. ASSUME NEW t \in targets
      PROVE  /\ grants'[t] \in Grant /\ grants'[t].stored
             /\ grants'[t].requests = grants[t].requests \cup {r \in move.moves[t].requests : t \notin revoked[r]}
             /\ grants'[t].manual = grants[t].manual \cup (move.moves[t].manual \ removedUsers[t])
             /\ grants'[t].groups = grants[t].groups \cup ((move.moves[t].groups \cap existing) \ removedGroups[t])
  BY <1>1, <1>2, MergeFacts
<1>3. \A j \in Item \ targets : /\ grants'[j] = grants[j]
                                /\ removedUsers'[j] = removedUsers[j]
                                /\ removedGroups'[j] = removedGroups[j]
  BY <1>1, MergeFacts
<1>4. \A t \in targets : /\ removedUsers'[t] = removedUsers[t] \cup (removedUsers[i] \ ResolveOwners(grants[t]))
                         /\ removedGroups'[t] = removedGroups[t] \cup (removedGroups[i] \ grants[t].groups)
  BY <1>1, MergeFacts
<1>5. \A r \in Request : revoked'[r] = CarriedRevocations(i, targets, r)
  BY <1>1, MergeFacts
<1>6. /\ moving' = move
      /\ UNCHANGED <<existing, members, handled, withdrawals, cancelling>>
  BY DEF MergeGrants, households
<1>7. DOMAIN grants' = Item /\ grants' = [j \in Item |-> grants'[j]]
  BY DEF MergeGrants
<1> HIDE DEF targets
<1>8. grants' \in [Item -> Grant] /\ \A j \in Item : grants'[j].stored \/ grants'[j] = Absent
  <2>1. \A j \in Item : grants'[j] \in Grant /\ (grants'[j].stored \/ grants'[j] = Absent)
    BY <1>1, <1>2, <1>3 DEF TypeOK
  <2> QED BY <1>7, <2>1
<1>9. /\ revoked' \in [Request -> SUBSET Item]
      /\ removedUsers' \in [Item -> SUBSET User]
      /\ removedGroups' \in [Item -> SUBSET Group]
  <2>1. \A r \in Request : revoked'[r] \in SUBSET Item
    BY <1>1, <1>5 DEF CarriedRevocations, TypeOK
  <2>2. \A j \in Item : removedUsers'[j] \in SUBSET User /\ removedGroups'[j] \in SUBSET Group
    BY <1>1, <1>3, <1>4 DEF TypeOK
  <2>3. /\ revoked' = [r \in Request |-> revoked'[r]]
        /\ removedUsers' = [j \in Item |-> removedUsers'[j]]
        /\ removedGroups' = [j \in Item |-> removedGroups'[j]]
    BY DEF MergeGrants
  <2> QED BY <2>1, <2>2, <2>3
<1>10. MovingOK'
  BY <1>1, <1>3, <1>6 DEF MovingOK, MoveFrom, targets
<1>11. TypeOK'
  BY <1>1, <1>6, <1>8, <1>9, <1>10 DEF TypeOK
<1>12. LeftFromSource'
  BY <1>1, <1>3, <1>6 DEF LeftFromSource, MoveFrom
<1>13. RevokedStaysOff'
  <2> SUFFICES ASSUME NEW j \in Item, NEW r \in Request, j \in revoked'[r]
               PROVE  r \notin grants'[j].requests
    BY DEF RevokedStaysOff
  <2>1. \A k \in Item : k \in revoked[r] => r \notin grants[k].requests
    BY DEF IInv, RevokedStaysOff
  <2>2. CASE j \notin targets
    BY <1>3, <1>5, <2>1, <2>2 DEF CarriedRevocations
  <2>3. CASE j \in targets
    <3>1. move.moves[j].requests \subseteq grants[i].requests
      BY <2>3 DEF MoveFrom, targets
    <3>2. r \notin grants[j].requests
      BY <1>5, <2>1 DEF CarriedRevocations
    <3>3. j \in revoked[r] \/ r \notin grants[i].requests
      BY <1>5, <2>1 DEF CarriedRevocations
    <3> QED BY <1>2, <2>3, <3>1, <3>2, <3>3
  <2> QED BY <2>2, <2>3
<1>14. ManualUnmarked'
  <2> SUFFICES ASSUME NEW j \in Item
               PROVE  grants'[j].manual \cap removedUsers'[j] = {}
    BY DEF ManualUnmarked
  <2>1. /\ grants[j].manual \cap removedUsers[j] = {}
        /\ grants[i].manual \cap removedUsers[i] = {}
    BY DEF IInv, ManualUnmarked
  <2>2. CASE j \notin targets
    BY <1>3, <2>1, <2>2
  <2>3. CASE j \in targets
    <3>1. move.moves[j].manual \subseteq grants[i].manual
      BY <2>3 DEF MoveFrom, targets
    <3>2. grants[j].manual \subseteq ResolveOwners(grants[j])
      BY DEF ResolveOwners, OwnersBy
    <3> QED BY <1>2, <1>4, <2>1, <2>3, <3>1, <3>2
  <2> QED BY <2>2, <2>3
<1>15. NoDanglingGroups'
  <2>1. \A j \in Item : grants[j].groups \cup removedGroups[j] \subseteq existing
    BY DEF IInv, NoDanglingGroups
  <2>2. \A j \in Item : grants'[j].groups \cup removedGroups'[j] \subseteq existing
    BY <1>2, <1>3, <1>4, <2>1
  <2> QED BY <1>6, <2>2 DEF NoDanglingGroups
<1> QED BY <1>11, <1>12, <1>13, <1>14, <1>15 DEF IInv

\* Retiring the source removes its grant or leaves a part of it there.
LEMMA RetireKeeps ==
  ASSUME IInv, RetireMovedGrant
  PROVE  IInv'
<1> DEFINE i == moving.from
           rest == moving.leftover
           made == MakeGrant(grants[i], rest.requests, rest.manual, rest.groups \cap existing)
           split == [made EXCEPT !.place = "split"]
           g == IF ActiveAudience(rest) THEN split ELSE Absent
<1>1. TypeOK /\ MovingOK /\ moving # NoMove /\ i \in Item /\ grants[i] \in Grant
  BY DEF IInv, TypeOK, MovingOK, RetireMovedGrant, Queue
<1>2. /\ rest.requests \in SUBSET Request /\ rest.manual \in SUBSET User
      /\ rest.groups \cap existing \in SUBSET Group
      /\ rest.requests \subseteq grants[i].requests /\ rest.manual \subseteq grants[i].manual
  BY <1>1 DEF MovingOK, Audience, IInv, LeftFromSource
<1>3. /\ made \in Grant /\ made.stored /\ made.requests = rest.requests
      /\ made.manual = rest.manual /\ made.groups = rest.groups \cap existing
  BY <1>1, <1>2, MakeGrantFacts
<1>4. grants' = [grants EXCEPT ![i] = g]
  BY DEF RetireMovedGrant
<1> HIDE DEF made
<1>5. /\ split \in Grant /\ split.stored /\ split.requests = rest.requests
      /\ split.manual = rest.manual /\ split.groups = rest.groups \cap existing
  BY <1>3 DEF Grant, Place
<1>6. /\ Absent \in Grant /\ Absent.requests = {} /\ Absent.manual = {} /\ Absent.groups = {}
  BY DEF Absent, Grant, Place
<1> HIDE DEF split
<1>7. /\ g \in Grant /\ (g.stored \/ g = Absent)
      /\ g.requests \subseteq grants[i].requests /\ g.manual \subseteq grants[i].manual
      /\ g.groups \subseteq existing
  BY <1>2, <1>5, <1>6
<1> HIDE DEF g
<1>8. moving' = NoMove /\ UNCHANGED <<households, handled, revoked, marks, withdrawals, cancelling>>
  BY DEF RetireMovedGrant
<1> HIDE DEF i, rest
<1>9. /\ grants' \in [Item -> Grant] /\ grants'[i] = g
      /\ \A j \in Item : j # i => grants'[j] = grants[j]
  BY <1>1, <1>4, <1>7 DEF TypeOK
<1>10. TypeOK'
  BY <1>1, <1>7, <1>8, <1>9 DEF TypeOK, households, marks
<1>11. LeftFromSource'
  BY <1>8 DEF LeftFromSource
<1>12. RevokedStaysOff'
  BY <1>1, <1>7, <1>8, <1>9 DEF IInv, RevokedStaysOff
<1>13. ManualUnmarked'
  BY <1>1, <1>7, <1>8, <1>9 DEF IInv, ManualUnmarked, marks
<1>14. NoDanglingGroups'
  BY <1>1, <1>7, <1>8, <1>9 DEF IInv, NoDanglingGroups, marks, households
<1> QED BY <1>10, <1>11, <1>12, <1>13, <1>14 DEF IInv

\* A grant that gives nobody access goes; the source of a move is not one of its
\* targets, so it stays.
LEMMA PurgeKeeps ==
  ASSUME IInv, NEW i \in Item, PurgeInactive(i)
  PROVE  IInv'
<1>1. TypeOK /\ Absent \in Grant
  BY DEF IInv, Absent, Grant, Place
<1>2. /\ grants' \in [Item -> Grant] /\ grants'[i] = Absent
      /\ \A j \in Item : j # i => grants'[j] = grants[j]
  BY <1>1 DEF PurgeInactive, TypeOK
<1>3. moving = NoMove \/ i # moving.from
  BY <1>1 DEF PurgeInactive, Queue, TypeOK, MovingOK
<1>4. UNCHANGED <<households, handled, revoked, marks, withdrawals, cancelling, moving>>
  BY DEF PurgeInactive
<1>5. TypeOK'
  BY <1>1, <1>2, <1>3, <1>4 DEF TypeOK, MovingOK, households, marks
<1>6. LeftFromSource'
  BY <1>1, <1>2, <1>3, <1>4 DEF IInv, LeftFromSource, TypeOK, MovingOK
<1>7. Absent.requests = {} /\ Absent.manual = {} /\ Absent.groups = {}
  BY DEF Absent
<1>8. RevokedStaysOff' /\ ManualUnmarked' /\ NoDanglingGroups'
  BY <1>2, <1>4, <1>7 DEF IInv, RevokedStaysOff, ManualUnmarked, NoDanglingGroups, marks, households
<1> QED BY <1>5, <1>6, <1>8 DEF IInv

-----------------------------------------------------------------------------
(* The invariant *)

\* With no grants stored there is nothing to contradict.
LEMMA InitKeeps == Init => IInv
<1> SUFFICES ASSUME Init PROVE IInv
  OBVIOUS
<1>1. Absent \in Grant /\ NoWithdrawal \in Withdrawal
  BY DEF Absent, Grant, Place, NoWithdrawal, Withdrawal
<1>2. TypeOK
  BY <1>1 DEF Init, TypeOK
<1>3. RevokedStaysOff /\ ManualUnmarked /\ NoDanglingGroups
  BY DEF Init, RevokedStaysOff, ManualUnmarked, NoDanglingGroups, Absent
<1> QED BY <1>2, <1>3 DEF Init, IInv, LeftFromSource

\* Grants of requests, their revocations and requests handled as joins.
LEMMA RequestsKeep ==
  ASSUME IInv, Requests
  PROVE  IInv'
<1>1. ASSUME NEW i \in Item, NEW r \in Request, GrantRequest(i, r) PROVE IInv'
  BY <1>1, GrantedKeeps DEF GrantRequest
<1>2. ASSUME NEW i \in Item, NEW r \in Request, HoldItem(i, r) PROVE IInv'
  BY <1>2, GrantedKeeps DEF HoldItem
<1>3. ASSUME NEW r \in Request, MarkRequestHandled(r) PROVE IInv'
  <2>1. /\ handled \subseteq Request /\ cancelling \subseteq Request
        /\ withdrawals \in [Request -> Withdrawal]
    BY DEF IInv, TypeOK
  <2> QED BY <1>3, <2>1, RecordsKeep DEF MarkRequestHandled
<1> QED BY <1>1, <1>2, <1>3, RevokeRequestKeeps DEF Requests

\* An administrator's assignments and households.
LEMMA AdministratorsKeep ==
  ASSUME IInv, Administrators
  PROVE  IInv'
<1>1. ASSUME NEW i \in Item, NEW gs \in SUBSET Group, SetGrantGroups(i, gs) PROVE IInv'
  <2>1. grants[i].manual \in SUBSET User
    BY DEF IInv, TypeOK, Grant
  <2> QED BY <1>1, <2>1, AdministratorChangeKeeps DEF SetGrantGroups
<1>2. ASSUME NEW i \in Item, NEW gs \in SUBSET Group, NEW us \in SUBSET User,
             SetManualAccess(i, us, gs)
      PROVE  IInv'
  BY <1>2, AdministratorChangeKeeps DEF SetManualAccess
<1> QED BY <1>1, <1>2, UpsertGroupKeeps, DeleteGroupKeeps DEF Administrators

\* Each step of moving a grant to other items.
LEMMA MovesKeep ==
  ASSUME IInv, Moves
  PROVE  IInv'
<1>1. TypeOK
  BY DEF IInv
<1>2. ASSUME NEW i \in Item, MarkOrphaned(i) PROVE IInv'
  <2>1. grants[i].stored /\ "orphaned" \in Place
    BY <1>2 DEF MarkOrphaned, Active, Place
  <2> QED BY <1>2, <2>1, PlaceKeeps DEF MarkOrphaned
<1>3. ASSUME NEW i \in Item, NEW t \in Item, RemapGrant(i, t) PROVE IInv'
  <2> DEFINE move == [from |-> i, moves |-> [x \in {t} |-> AudienceOf(grants[i])], leftover |-> Nobody]
  <2>1. grants[i] \in Grant /\ grants[i].stored /\ Queue /\ i # t
    BY <1>1, <1>3 DEF RemapGrant, TypeOK
  <2>2. AudienceOf(grants[i]) \in Audience /\ Nobody \in Audience
    BY <2>1 DEF Grant, AudienceOf, Audience, Nobody
  <2>3. MoveFrom(i, move)
    BY <2>1, <2>2 DEF MoveFrom, AudienceOf, Nobody
  <2>4. MergeGrants(move)
    BY <1>3 DEF RemapGrant
  <2> HIDE DEF move
  <2> QED BY <2>1, <2>3, <2>4, MergeKeeps
<1>4. ASSUME NEW i \in Item, NEW resolves \in [grants[i].requests -> (Item \ {i}) \cup {NoItem}],
             RecoverMissingItem(i, resolves)
      PROVE  IInv'
  <2>1. MoveFrom(i, PartitionMove(i, resolves))
    BY <1>1, PartitionIsFromSource
  <2> QED BY <1>4, <2>1, MergeKeeps DEF RecoverMissingItem, Active
<1>5. ~Queue => moving.from \in Item /\ grants[moving.from] \in Grant /\ grants[moving.from].stored
  BY <1>1 DEF TypeOK, MovingOK, Queue
<1>6. ASSUME KeepReappearedSource PROVE IInv'
  <2> DEFINE i == moving.from
             place == IF grants[i].place = "split" THEN "split" ELSE "reappeared"
  <2>1. /\ i \in Item /\ grants[i].stored /\ place \in Place
        /\ grants' = [grants EXCEPT ![i].place = place] /\ moving' = NoMove
        /\ UNCHANGED <<households, handled, revoked, marks, withdrawals, cancelling>>
    BY <1>5, <1>6 DEF KeepReappearedSource, Place
  <2> HIDE DEF i, place
  <2> QED BY <2>1, PlaceKeeps
<1>7. ASSUME NEW recovery \in BOOLEAN, FailMove(recovery) PROVE IInv'
  <2>1. CASE recovery /\ grants[moving.from].place = "orphaned"
    <3>1. /\ grants' = [grants EXCEPT ![moving.from].place = "live"] /\ "live" \in Place
          /\ moving' = NoMove /\ moving.from \in Item /\ grants[moving.from].stored
          /\ UNCHANGED <<households, handled, revoked, marks, withdrawals, cancelling>>
      BY <1>5, <1>7, <2>1 DEF FailMove, Place
    <3> QED BY <3>1, PlaceKeeps
  <2>2. CASE ~(recovery /\ grants[moving.from].place = "orphaned")
    <3>1. /\ handled \subseteq Request /\ cancelling \subseteq Request
          /\ withdrawals \in [Request -> Withdrawal]
      BY <1>1 DEF TypeOK
    <3> QED BY <1>7, <2>2, <3>1, RecordsKeep DEF FailMove
  <2> QED BY <2>1, <2>2
<1> QED BY <1>2, <1>3, <1>4, <1>6, <1>7, RetireKeeps DEF Moves

\* Restarts, sync marks and the purge of inactive grants.
LEMMA ReconciliationKeeps ==
  ASSUME IInv, Reconciliation
  PROVE  IInv'
<1>1. TypeOK
  BY DEF IInv
<1>2. ASSUME Restart PROVE IInv'
  <2>1. handled \subseteq Request /\ withdrawals \in [Request -> Withdrawal]
    BY <1>1 DEF TypeOK
  <2> QED BY <1>2, <2>1, RecordsKeep DEF Restart
<1>3. ASSUME NEW i \in Item, MarkSync(i) PROVE IInv'
  <2>1. grants[i].stored /\ "live" \in Place
    BY <1>1, <1>3 DEF MarkSync, TypeOK, Absent, Place
  <2> QED BY <1>3, <2>1, PlaceKeeps DEF MarkSync
<1> QED BY <1>2, <1>3, PurgeKeeps DEF Reconciliation

\* Every step keeps the invariant.
LEMMA StepKeeps == IInv /\ [Next]_vars => IInv'
<1> SUFFICES ASSUME IInv, [Next]_vars PROVE IInv'
  OBVIOUS
<1>1. CASE UNCHANGED vars
  <2>1. /\ handled \subseteq Request /\ cancelling \subseteq Request
        /\ withdrawals \in [Request -> Withdrawal]
    BY DEF IInv, TypeOK
  <2> QED BY <1>1, <2>1, RecordsKeep DEF vars
<1>2. CASE Joins
  BY <1>2, JoinGrantKeeps DEF Joins
<1> QED BY <1>1, <1>2, RequestsKeep, AdministratorsKeep, CancelsKeep, MovesKeep,
           ReconciliationKeeps DEF Next

\* The inductive invariant: types, revocations, marks and groups hold together with
\* LeftFromSource, which ties what a move still has to do to the grant it started from.
THEOREM Invariant == Spec => []IInv
  BY InitKeeps, StepKeeps, PTL DEF Spec

\* Whatever is requested, assigned, joined, cancelled, moved and restarted, the state
\* has the types store.ts gives it and a move's source is a stored grant that is none
\* of its own targets.
THEOREM TypeCorrect == Spec => []TypeOK
  BY Invariant, PTL DEF IInv

\* A request an administrator revoked from an item is never recorded on it again.
THEOREM Revocations == Spec => []RevokedStaysOff
  BY Invariant, PTL DEF IInv

\* Nobody is both assigned to an item by hand and marked as removed from it.
THEOREM ManualUnmarkedAlways == Spec => []ManualUnmarked
  BY Invariant, PTL DEF IInv

\* No grant or mark outlives the household it names.
THEOREM NoDangling == Spec => []NoDanglingGroups
  BY Invariant, PTL DEF IInv

-----------------------------------------------------------------------------
(* What a step may bring back *)

\* What a step records somewhere was recorded somewhere before, or is not handled.
NothingComesBack ==
  \A j \in Item : \A x \in grants'[j].requests : RecordedIn(grants, x) \/ x \notin handled

\* A step that lets every grant keep some of the requests it had.
LEMMA RequestsStay ==
  ASSUME \A j \in Item : grants'[j].requests \subseteq grants[j].requests
  PROVE  NothingComesBack
  BY DEF NothingComesBack, RecordedIn

\* A step that puts another grant in the place of one.
LEMMA RequestsPut ==
  ASSUME TypeOK, NEW i \in Item, NEW g, grants' = [grants EXCEPT ![i] = g],
         \A x \in g.requests : RecordedIn(grants, x) \/ x \notin handled
  PROVE  NothingComesBack
<1>1. grants'[i] = g /\ \A j \in Item : j # i => grants'[j] = grants[j]
  BY DEF TypeOK
<1> QED BY <1>1 DEF NothingComesBack, RecordedIn

\* Granting a request recorded, or never handled, brings none back.
LEMMA GrantedBringsNothingBack ==
  ASSUME TypeOK, NEW i \in Item, NEW r \in Request, Granted(i, r),
         RecordedIn(grants, r) \/ r \notin handled
  PROVE  NothingComesBack
<1> DEFINE requests == IF i \in revoked[r] THEN grants[i].requests ELSE grants[i].requests \cup {r}
           g == MakeGrant(grants[i], requests, grants[i].manual, grants[i].groups \cup GrantGroups(r))
<1>1. grants' = [grants EXCEPT ![i] = g]
  BY DEF Granted
<1>2. g.requests = requests
  BY DEF MakeGrant
<1>3. \A x \in requests : RecordedIn(grants, x) \/ x \notin handled
  BY DEF RecordedIn
<1> HIDE DEF g, requests
<1> QED BY <1>1, <1>2, <1>3, RequestsPut

\* A merge into the targets of a move brings no handled request back.
LEMMA MergeBringsNothingBack ==
  ASSUME TypeOK, NEW i \in Item, NEW move, MoveFrom(i, move), MergeGrants(move)
  PROVE  NothingComesBack
<1> DEFINE targets == DOMAIN move.moves
<1>1. \A t \in targets : /\ t \in Item /\ move.moves[t].requests \subseteq grants[i].requests
                         /\ grants'[t] = MergedMove(t, move.moves[t])
  BY DEF MoveFrom, MergeGrants
<1>2. \A j \in Item \ targets : grants'[j] = grants[j]
  BY DEF MergeGrants
<1>3. \A t \in targets : grants'[t].requests \subseteq grants[t].requests \cup grants[i].requests
  <2>1. \A t \in targets : MergedMove(t, move.moves[t]).requests =
          grants[t].requests \cup {r \in move.moves[t].requests : t \notin revoked[r]}
    BY DEF MergedMove, MakeGrant
  <2> HIDE DEF targets
  <2> QED BY <1>1, <2>1
<1> HIDE DEF targets
<1> QED BY <1>2, <1>3 DEF NothingComesBack, RecordedIn

\* No step brings a handled request back that no grant records.
LEMMA StepBringsNothingBack ==
  ASSUME IInv, Next
  PROVE  NothingComesBack
<1>1. TypeOK
  BY DEF IInv
<1>2. CASE Requests
  <2>1. ASSUME NEW i \in Item, NEW r \in Request, GrantRequest(i, r) PROVE NothingComesBack
    BY <1>1, <2>1, GrantedBringsNothingBack DEF GrantRequest
  <2>2. ASSUME NEW i \in Item, NEW r \in Request, HoldItem(i, r) PROVE NothingComesBack
    BY <1>1, <2>2, GrantedBringsNothingBack DEF HoldItem, TitleHold
  <2>3. ASSUME NEW i \in Item, NEW r \in Request, RevokeRequest(i, r) PROVE NothingComesBack
    <3> DEFINE g == MakeGrant(grants[i], grants[i].requests \ {r}, grants[i].manual, grants[i].groups)
    <3>1. grants' = [grants EXCEPT ![i] = g] /\ g.requests \subseteq grants[i].requests
      BY <2>3 DEF RevokeRequest, MakeGrant
    <3> HIDE DEF g
    <3> QED BY <1>1, <3>1, RequestsPut DEF RecordedIn
  <2>4. ASSUME NEW r \in Request, MarkRequestHandled(r) PROVE NothingComesBack
    BY <2>4, RequestsStay DEF MarkRequestHandled
  <2> QED BY <1>2, <2>1, <2>2, <2>3, <2>4 DEF Requests
<1>3. CASE Administrators
  <2>1. ASSUME NEW i \in Item, NEW manual, NEW groups,
               grants' = [grants EXCEPT ![i] = MakeGrant(grants[i], grants[i].requests, manual, groups)]
        PROVE  NothingComesBack
    <3> DEFINE g == MakeGrant(grants[i], grants[i].requests, manual, groups)
    <3>1. grants' = [grants EXCEPT ![i] = g] /\ g.requests = grants[i].requests
      BY <2>1 DEF MakeGrant
    <3> HIDE DEF g
    <3> QED BY <1>1, <3>1, RequestsPut DEF RecordedIn
  <2>2. ASSUME NEW g \in Group, DeleteGroup(g) PROVE NothingComesBack
    <3>1. \A j \in Item : grants'[j].requests = grants[j].requests
      BY <1>1, <2>2, DeleteFields
    <3> QED BY <3>1, RequestsStay
  <2>3. ASSUME NEW g \in Group, NEW us \in SUBSET User, UpsertGroup(g, us) PROVE NothingComesBack
    <3>1. \A j \in Item : grants'[j].requests = grants[j].requests
      BY <1>1, <2>3, UpsertFields
    <3> QED BY <3>1, RequestsStay
  <2> QED BY <1>3, <2>1, <2>2, <2>3 DEF Administrators, SetGrantGroups, SetManualAccess
<1>4. CASE Joins
  <2>1. PICK i \in Item, u \in User, h \in Group : JoinGrant(i, u, h)
    BY <1>4 DEF Joins
  <2> DEFINE g == MakeGrant(grants[i], grants[i].requests, grants[i].manual, grants[i].groups \cup {h})
  <2>2. grants' = [grants EXCEPT ![i] = g] /\ g.requests = grants[i].requests
    BY <2>1 DEF JoinGrant, MakeGrant
  <2> HIDE DEF g
  <2> QED BY <1>1, <2>2, RequestsPut DEF RecordedIn
<1>5. CASE Cancels
  <2>1. UNCHANGED grants
    BY <1>5 DEF Cancels, Withdraw, ForgetWithdrawal, KeepCancelled, RequestGone, DropTitleHold
  <2> QED BY <2>1, RequestsStay
<1>6. CASE Moves
  <2>1. ASSUME NEW i \in Item, NEW t \in Item, RemapGrant(i, t) PROVE NothingComesBack
    <3> DEFINE move == [from |-> i, moves |-> [x \in {t} |-> AudienceOf(grants[i])], leftover |-> Nobody]
    <3>1. AudienceOf(grants[i]) \in Audience /\ Nobody \in Audience
      BY <1>1 DEF TypeOK, Grant, AudienceOf, Audience, Nobody
    <3>2. MoveFrom(i, move) /\ MergeGrants(move)
      BY <2>1, <3>1 DEF RemapGrant, MoveFrom, AudienceOf, Nobody
    <3> HIDE DEF move
    <3> QED BY <1>1, <3>2, MergeBringsNothingBack
  <2>2. ASSUME NEW i \in Item, NEW resolves \in [grants[i].requests -> (Item \ {i}) \cup {NoItem}],
               RecoverMissingItem(i, resolves)
        PROVE  NothingComesBack
    BY <1>1, <2>2, PartitionIsFromSource, MergeBringsNothingBack DEF RecoverMissingItem
  <2>3. ASSUME NEW i \in Item, NEW place, grants' = [grants EXCEPT ![i].place = place]
        PROVE  NothingComesBack
    <3>1. \A j \in Item : grants'[j].requests = grants[j].requests
      BY <1>1, <2>3 DEF TypeOK, Grant
    <3> QED BY <3>1, RequestsStay
  <2>4. ~Queue => moving.from \in Item
    BY <1>1 DEF TypeOK, MovingOK, Queue
  <2>5. ASSUME RetireMovedGrant PROVE NothingComesBack
    <3> DEFINE i == moving.from
               rest == moving.leftover
               made == MakeGrant(grants[i], rest.requests, rest.manual, rest.groups \cap existing)
               g == IF ActiveAudience(rest) THEN [made EXCEPT !.place = "split"] ELSE Absent
    <3>1. grants' = [grants EXCEPT ![i] = g] /\ i \in Item /\ rest.requests \subseteq grants[i].requests
      BY <2>4, <2>5 DEF RetireMovedGrant, IInv, LeftFromSource, Queue
    <3>2. g.requests \subseteq rest.requests
      BY DEF MakeGrant, Absent
    <3> HIDE DEF g, i
    <3> QED BY <1>1, <3>1, <3>2, RequestsPut DEF RecordedIn
  <2>6. CASE KeepReappearedSource
    BY <2>3, <2>4, <2>6 DEF KeepReappearedSource
  <2>7. ASSUME NEW recovery \in BOOLEAN, FailMove(recovery) PROVE NothingComesBack
    <3>1. CASE grants' = grants
      BY <3>1, RequestsStay
    <3> QED BY <2>3, <2>4, <2>7, <3>1 DEF FailMove
  <2>8. ASSUME NEW i \in Item, MarkOrphaned(i) PROVE NothingComesBack
    BY <2>3, <2>8 DEF MarkOrphaned
  <2> QED BY <1>6, <2>1, <2>2, <2>5, <2>6, <2>7, <2>8 DEF Moves
<1>7. CASE Reconciliation
  <2>1. \A j \in Item : grants'[j].requests \subseteq grants[j].requests
    BY <1>1, <1>7 DEF Reconciliation, Restart, MarkSync, PurgeInactive, TypeOK, Grant, Absent
  <2> QED BY <2>1, RequestsStay
<1> QED BY <1>2, <1>3, <1>4, <1>5, <1>6, <1>7 DEF Next

\* What an administrator revoked everywhere stays revoked: no step records again a
\* handled request that no grant records.
THEOREM NothingResurrected == Spec => NoResurrection
<1>1. IInv /\ [Next]_vars =>
        [\A r \in handled : ~RecordedIn(grants, r) => ~RecordedIn(grants', r)]_vars
  <2> SUFFICES ASSUME IInv, Next, NEW r \in handled, RecordedIn(grants', r)
               PROVE  RecordedIn(grants, r)
    OBVIOUS
  <2>1. NothingComesBack
    BY StepBringsNothingBack
  <2> QED BY <2>1 DEF NothingComesBack, RecordedIn
<1> QED BY <1>1, Invariant, PTL DEF Spec, NoResurrection

-----------------------------------------------------------------------------
(* What was computed once stays right, and a move keeps the audience it found *)

\* A grant records only requests that are handled.
HandledInv == \A i \in Item : grants[i].requests \subseteq handled

\* A title hold is a withdrawal by its requester.
HoldInv == \A r \in Request : withdrawals[r].gone => withdrawals[r].requester

\* All of the source's audience goes to a target or stays, but for requests revoked elsewhere.
Covers(i, move) ==
  /\ \A r \in grants[i].requests :
       \/ \E t \in DOMAIN move.moves : r \in move.moves[t].requests
       \/ r \in move.leftover.requests \/ revoked[r] \ {i} # {}
  /\ \A u \in grants[i].manual : u \in move.leftover.manual \/ \E t \in DOMAIN move.moves : u \in move.moves[t].manual
  /\ \A g \in grants[i].groups : g \in move.leftover.groups \/ \E t \in DOMAIN move.moves : g \in move.moves[t].groups
  /\ move.leftover.groups \subseteq grants[i].groups

\* What a move took to a target is there, or had been taken off it.
Arrived(t, a) ==
  /\ \A r \in a.requests : r \in grants[t].requests \/ t \in revoked[r]
  /\ a.manual \subseteq grants[t].manual \cup removedUsers[t]
  /\ a.groups \cap existing \subseteq grants[t].groups \cup removedGroups[t]

\* The source's marks and revocations are on the target, but for what it gives access to.
Carried(i, t) ==
  /\ removedUsers[i] \ ResolveOwners(grants[t]) \subseteq removedUsers[t]
  /\ removedGroups[i] \ grants[t].groups \subseteq removedGroups[t]
  /\ \A r \in Request : i \in revoked[r] /\ r \notin grants[t].requests => t \in revoked[r]

MoveInv == moving # NoMove =>
  /\ Covers(moving.from, moving)
  /\ \A t \in DOMAIN moving.moves : Arrived(t, moving.moves[t]) /\ (Active(t) => Carried(moving.from, t))

KeepInv == HandledInv /\ HoldInv /\ OwnersFresh /\ MoveInv

\* Stored owners that are neither too many nor too few, grant by grant.
FreshGrant(g) ==
  /\ g.owners \subseteq ResolveOwners(g)
  /\ g.manual \subseteq g.owners
  /\ \A h \in g.groups : members[h] \subseteq g.owners

AllFresh == \A i \in Item : FreshGrant(grants[i])

\* Stored owners are right exactly when each grant is fresh.
LEMMA FreshGrants == TypeOK => (OwnersFresh <=> AllFresh)
<1> SUFFICES ASSUME TypeOK PROVE OwnersFresh <=> AllFresh
  OBVIOUS
<1>1. ASSUME NEW g \in Grant
      PROVE  ResolveOwners([g EXCEPT !.requests = {}]) = g.manual \cup UNION {members[h] : h \in g.groups}
  <2> DEFINE b == [g EXCEPT !.requests = {}]
  <2>1. b.requests = {} /\ b.manual = g.manual /\ b.groups = g.groups
    BY DEF Grant
  <2> HIDE DEF b
  <2> QED BY <2>1 DEF ResolveOwners, OwnersBy
<1>2. ASSUME NEW i \in Item
      PROVE  FreshGrant(grants[i]) <=>
               /\ grants[i].owners \subseteq ResolveOwners(grants[i])
               /\ ResolveOwners([grants[i] EXCEPT !.requests = {}]) \subseteq grants[i].owners
  <2>1. grants[i] \in Grant
    BY DEF TypeOK
  <2>2. PICK g \in Grant : g = grants[i]
    BY <2>1
  <2>3. ResolveOwners([g EXCEPT !.requests = {}]) \subseteq g.owners <=>
          g.manual \subseteq g.owners /\ \A h \in g.groups : members[h] \subseteq g.owners
    BY <1>1
  <2> QED BY <2>2, <2>3 DEF FreshGrant
<1> QED BY <1>2 DEF OwnersFresh, AllFresh

\* #makeGrant stores the owners its audience has.
LEMMA MadeOwners ==
  ASSUME NEW previous, NEW requests, NEW manual, NEW groups, NEW g,
         g = MakeGrant(previous, requests, manual, groups)
  PROVE  g.owners = ResolveOwners(g)
<1> DEFINE a == [requests |-> requests, manual |-> manual, groups |-> groups]
<1>1. g.owners = ResolveOwners(a) /\ g.requests = requests /\ g.manual = manual /\ g.groups = groups
  BY DEF MakeGrant
<1>2. a.requests = requests /\ a.manual = manual /\ a.groups = groups
  OBVIOUS
<1> HIDE DEF a
<1> QED BY <1>1, <1>2 DEF ResolveOwners, OwnersBy

\* No requester is newly withdrawn from these requests.
Eased(rs) == \A r \in rs : withdrawals'[r].requester => withdrawals[r].requester

\* A fresh grant stays fresh while members do not change and no withdrawal of its requests grows.
LEMMA FreshStays ==
  ASSUME NEW g, FreshGrant(g), UNCHANGED members, Eased(g.requests)
  PROVE  FreshGrant(g)'
  BY DEF FreshGrant, Eased, ResolveOwners, OwnersBy

\* A grant made with resolved owners is fresh.
LEMMA MadeIsFresh == ASSUME NEW g, g.owners = ResolveOwners(g) PROVE FreshGrant(g)
  BY DEF FreshGrant, ResolveOwners, OwnersBy

\* Every grant is as it was but for its place, or made anew, or gone.
Remade(j) ==
  \/ AudienceOf(grants'[j]) = AudienceOf(grants[j]) /\ grants'[j].owners = grants[j].owners
  \/ grants'[j].owners = ResolveOwners(grants'[j])
  \/ grants'[j] = Absent

\* Owners stay right when grants are left alone or made anew and members do not change.
LEMMA OwnersStayFresh ==
  ASSUME TypeOK, TypeOK', OwnersFresh, UNCHANGED members, \A j \in Item : Remade(j) /\ Eased(grants'[j].requests)
  PROVE  OwnersFresh'
<1> SUFFICES ASSUME NEW j \in Item PROVE FreshGrant(grants[j])'
  <2>1. TypeOK' => (OwnersFresh' <=> AllFresh')
    BY FreshGrants, PTL
  <2> QED BY <2>1 DEF AllFresh
<1>1. PICK g : g = grants'[j]
  OBVIOUS
<1>2. FreshGrant(g)
  <2>1. CASE AudienceOf(g) = AudienceOf(grants[j]) /\ g.owners = grants[j].owners
    <3>1. FreshGrant(grants[j])
      BY FreshGrants DEF AllFresh
    <3>2. g.requests = grants[j].requests /\ g.manual = grants[j].manual /\ g.groups = grants[j].groups
      BY <2>1 DEF AudienceOf
    <3> QED BY <2>1, <3>1, <3>2 DEF FreshGrant, ResolveOwners, OwnersBy
  <2>2. CASE g.owners = ResolveOwners(g)
    BY <2>2, MadeIsFresh
  <2>3. CASE g = Absent
    BY <2>3 DEF FreshGrant, Absent
  <2> QED BY <1>1, <2>1, <2>2, <2>3 DEF Remade
<1>3. FreshGrant(g)'
  BY <1>1, <1>2, FreshStays
<1> QED BY <1>1, <1>3 DEF FreshGrant, ResolveOwners, OwnersBy

\* No move is under way after the step, and no household changed.
LEMMA NoMoveKeeps ==
  ASSUME IInv, IInv', KeepInv, UNCHANGED members, moving' = NoMove, HoldInv',
         \A j \in Item : Remade(j) /\ Eased(grants'[j].requests) /\ grants'[j].requests \subseteq handled'
  PROVE  KeepInv'
<1>1. TypeOK /\ TypeOK'
  BY DEF IInv
<1>2. OwnersFresh'
  BY <1>1, OwnersStayFresh DEF KeepInv
<1>3. HandledInv' /\ MoveInv'
  BY DEF HandledInv, MoveInv
<1> QED BY <1>2, <1>3 DEF KeepInv

\* One grant is made anew, between the queue's moves.
LEMMA MadeKeeps ==
  ASSUME IInv, IInv', KeepInv, Queue, NEW i \in Item, NEW g, grants' = [grants EXCEPT ![i] = g],
         g.owners = ResolveOwners(g), g.requests \subseteq handled', handled \subseteq handled',
         UNCHANGED <<members, moving>>, HoldInv', Eased(Request)
  PROVE  KeepInv'
<1>1. grants'[i] = g /\ \A j \in Item : j # i => grants'[j] = grants[j]
  BY DEF IInv, TypeOK
<1>2. \A j \in Item : grants'[j].requests \subseteq Request
  BY DEF IInv, TypeOK, Grant
<1>3. \A j \in Item : Remade(j) /\ grants'[j].requests \subseteq handled'
  <2> SUFFICES ASSUME NEW j \in Item PROVE Remade(j) /\ grants'[j].requests \subseteq handled'
    OBVIOUS
  <2>1. CASE j = i
    BY <2>1, <1>1 DEF Remade
  <2>2. CASE j # i
    BY <2>2, <1>1 DEF Remade, KeepInv, HandledInv
  <2> QED BY <2>1, <2>2
<1>4. \A j \in Item : Eased(grants'[j].requests)
  BY <1>2 DEF Eased
<1>5. moving' = NoMove
  BY DEF Queue
<1> QED BY <1>3, <1>4, <1>5, NoMoveKeeps

\* Audiences, owners, marks and revocations stay.
LEMMA SameKeeps ==
  ASSUME IInv, IInv', KeepInv,
         \A j \in Item : AudienceOf(grants'[j]) = AudienceOf(grants[j]) /\ grants'[j].owners = grants[j].owners
                         /\ grants'[j].stored = grants[j].stored,
         UNCHANGED <<existing, members, revoked, removedUsers, removedGroups>>, handled \subseteq handled', HoldInv',
         \/ moving' = NoMove /\ Eased(handled)
         \/ UNCHANGED <<moving, withdrawals>>
  PROVE  KeepInv'
<1>1. \A j \in Item : /\ grants'[j].requests = grants[j].requests /\ grants'[j].manual = grants[j].manual
                      /\ grants'[j].groups = grants[j].groups /\ Remade(j)
  BY DEF AudienceOf, Remade
<1>2. \A j \in Item : grants'[j].requests \subseteq handled /\ grants'[j].requests \subseteq handled'
  BY <1>1 DEF KeepInv, HandledInv
<1>3. \A j \in Item : Eased(grants'[j].requests)
  BY <1>2 DEF Eased
<1>4. CASE moving' = NoMove
  BY <1>1, <1>2, <1>3, <1>4, NoMoveKeeps
<1>5. CASE UNCHANGED <<moving, withdrawals>> /\ moving # NoMove
  <2>1. TypeOK /\ TypeOK' /\ moving.from \in Item /\ DOMAIN moving.moves \subseteq Item
    BY <1>5 DEF IInv, TypeOK, MovingOK
  <2>2. OwnersFresh' /\ HandledInv'
    BY <1>1, <1>2, <1>3, <2>1, OwnersStayFresh DEF KeepInv, HandledInv
  <2>3. Covers(moving.from, moving)'
    BY <1>1, <1>5, <2>1 DEF KeepInv, MoveInv, Covers
  <2>4. ASSUME NEW t \in DOMAIN moving.moves
        PROVE  Arrived(t, moving.moves[t])' /\ (Active(t)' => Carried(moving.from, t)')
    <3>1. Arrived(t, moving.moves[t]) /\ (Active(t) => Carried(moving.from, t)) /\ t \in Item
      BY <1>5, <2>1 DEF KeepInv, MoveInv
    <3>2. Arrived(t, moving.moves[t])'
      BY <1>1, <1>5, <3>1 DEF Arrived
    <3>3. Active(t)' => Active(t)
      BY <1>1, <3>1 DEF Active, ActiveAudience
    <3>4. ResolveOwners(grants[t])' = ResolveOwners(grants[t])
      BY <1>1, <1>5, <3>1 DEF ResolveOwners, OwnersBy
    <3>5. Carried(moving.from, t) => Carried(moving.from, t)'
      BY <1>1, <1>5, <2>1, <3>1, <3>4 DEF Carried
    <3> QED BY <3>1, <3>2, <3>3, <3>5
  <2>5. MoveInv'
    BY <1>5, <2>3, <2>4 DEF MoveInv
  <2> QED BY <2>2, <2>5 DEF KeepInv
<1>6. CASE UNCHANGED <<moving, withdrawals>> /\ moving = NoMove
  BY <1>4, <1>6
<1> QED BY <1>4, <1>5, <1>6

\* Pruning keeps a withdrawal or drops it.
LEMMA Prunes ==
  ASSUME NEW ws, NEW gs, NEW done, NEW r \in Request
  PROVE  PruneWithdrawals(ws, gs, done)[r] \in {ws[r], NoWithdrawal}
  BY DEF PruneWithdrawals

\* A grant of a request keeps the second invariant.
LEMMA GrantedStays ==
  ASSUME IInv, IInv', KeepInv, Queue, NEW i \in Item, NEW r \in Request, Granted(i, r)
  PROVE  KeepInv'
<1> DEFINE requests == IF i \in revoked[r] THEN grants[i].requests ELSE grants[i].requests \cup {r}
           g == MakeGrant(grants[i], requests, grants[i].manual, grants[i].groups \cup GrantGroups(r))
<1>1. /\ grants' = [grants EXCEPT ![i] = g] /\ handled' = handled \cup {r}
      /\ withdrawals' = PruneWithdrawals(withdrawals, grants', handled')
      /\ UNCHANGED <<members, moving>>
  BY DEF Granted, households
<1>2. g.owners = ResolveOwners(g) /\ g.requests = requests
  BY MadeOwners DEF MakeGrant
<1> HIDE DEF g
<1>3. HoldInv' /\ Eased(Request)
  BY <1>1, Prunes DEF KeepInv, HoldInv, Eased, NoWithdrawal
<1>4. requests \subseteq handled'
  BY <1>1 DEF KeepInv, HandledInv
<1> QED BY <1>1, <1>2, <1>3, <1>4, MadeKeeps

\* Webhooks, withdrawals and holds keep the second invariant.
LEMMA RequestsStayRight ==
  ASSUME IInv, IInv', KeepInv, Requests PROVE KeepInv'
<1>1. ASSUME NEW i \in Item, NEW r \in Request, GrantRequest(i, r) \/ HoldItem(i, r) PROVE KeepInv'
  BY <1>1, GrantedStays DEF GrantRequest, HoldItem
<1>2. ASSUME NEW i \in Item, NEW r \in Request, RevokeRequest(i, r) PROVE KeepInv'
  <2> DEFINE g == MakeGrant(grants[i], grants[i].requests \ {r}, grants[i].manual, grants[i].groups)
  <2>1. /\ Queue /\ grants' = [grants EXCEPT ![i] = g] /\ UNCHANGED <<members, moving, handled>>
        /\ withdrawals' = PruneWithdrawals(withdrawals, grants', handled)
    BY <1>2 DEF RevokeRequest, households
  <2>2. g.owners = ResolveOwners(g) /\ g.requests = grants[i].requests \ {r}
    BY MadeOwners DEF MakeGrant
  <2> HIDE DEF g
  <2>3. HoldInv' /\ Eased(Request)
    BY <2>1, Prunes DEF KeepInv, HoldInv, Eased, NoWithdrawal
  <2>4. g.requests \subseteq handled'
    BY <2>1, <2>2 DEF KeepInv, HandledInv
  <2> QED BY <2>1, <2>2, <2>3, <2>4, MadeKeeps
<1>3. ASSUME NEW r \in Request, MarkRequestHandled(r) PROVE KeepInv'
  <2>1. /\ UNCHANGED <<grants, existing, members, revoked, removedUsers, removedGroups, withdrawals, moving>>
        /\ handled \subseteq handled'
    BY <1>3 DEF MarkRequestHandled, households, marks
  <2>2. HoldInv'
    BY <2>1 DEF KeepInv, HoldInv
  <2> QED BY <2>1, <2>2, SameKeeps
<1> QED BY <1>1, <1>2, <1>3 DEF Requests

\* Setting an item's manual users and households keeps the second invariant.
LEMMA SettingsStayRight ==
  ASSUME IInv, IInv', KeepInv, Queue, NEW i \in Item, NEW manual, NEW groups,
         grants' = [grants EXCEPT ![i] = MakeGrant(grants[i], grants[i].requests, manual, groups)],
         UNCHANGED <<members, handled, withdrawals, moving>>
  PROVE  KeepInv'
<1> DEFINE g == MakeGrant(grants[i], grants[i].requests, manual, groups)
<1>1. g.owners = ResolveOwners(g) /\ g.requests = grants[i].requests
  BY MadeOwners DEF MakeGrant
<1>2. grants' = [grants EXCEPT ![i] = g]
  OBVIOUS
<1> HIDE DEF g
<1>3. HoldInv' /\ Eased(Request) /\ g.requests \subseteq handled'
  BY <1>1 DEF KeepInv, HoldInv, Eased, HandledInv
<1> QED BY <1>1, <1>2, <1>3, MadeKeeps

\* A household's members change: the grants that name it get their owners again.
LEMMA HouseholdStaysRight ==
  ASSUME IInv, IInv', KeepInv, Queue, NEW g \in Group, NEW users, members' = [members EXCEPT ![g] = users],
         UNCHANGED <<handled, withdrawals, moving>>,
         \A j \in Item : /\ grants'[j].requests = grants[j].requests /\ grants'[j].manual = grants[j].manual
                         /\ \/ grants'[j].owners = OwnersBy(members', grants'[j])
                            \/ grants'[j] = grants[j] /\ g \notin grants[j].groups
  PROVE  KeepInv'
<1>1. TypeOK /\ TypeOK'
  BY DEF IInv
<1>2. HandledInv' /\ HoldInv' /\ MoveInv'
  BY DEF KeepInv, HandledInv, HoldInv, MoveInv, Queue
<1>3. OwnersFresh'
  <2>1. TypeOK' => (OwnersFresh' <=> AllFresh')
    BY FreshGrants, PTL
  <2> SUFFICES ASSUME NEW j \in Item PROVE FreshGrant(grants[j])'
    BY <1>1, <2>1 DEF AllFresh
  <2>2. CASE grants'[j].owners = OwnersBy(members', grants'[j])
    BY <2>2 DEF FreshGrant, ResolveOwners, OwnersBy
  <2>3. CASE grants'[j] = grants[j] /\ g \notin grants[j].groups
    <3>1. FreshGrant(grants[j])
      BY <1>1, FreshGrants DEF AllFresh, KeepInv
    <3>2. \A h \in grants[j].groups : members'[h] = members[h]
      BY <1>1, <2>3 DEF TypeOK, Grant
    <3> QED BY <2>3, <3>1, <3>2 DEF FreshGrant, ResolveOwners, OwnersBy
  <2> QED BY <2>2, <2>3
<1> QED BY <1>2, <1>3 DEF KeepInv

\* Administrators' changes keep the second invariant.
LEMMA AdministratorsStayRight ==
  ASSUME IInv, IInv', KeepInv, Administrators PROVE KeepInv'
<1>1. ASSUME NEW i \in Item, NEW gs \in SUBSET Group, SetGrantGroups(i, gs) PROVE KeepInv'
  BY <1>1, SettingsStayRight DEF SetGrantGroups, households
<1>2. ASSUME NEW i \in Item, NEW gs \in SUBSET Group, NEW us \in SUBSET User, SetManualAccess(i, us, gs)
      PROVE  KeepInv'
  BY <1>2, SettingsStayRight DEF SetManualAccess, households
<1>3. ASSUME NEW g \in Group, NEW us \in SUBSET User, UpsertGroup(g, us) PROVE KeepInv'
  <2> DEFINE ms == [members EXCEPT ![g] = us]
  <2>1. Queue /\ members' = ms /\ UNCHANGED <<handled, withdrawals, moving>>
    BY <1>3 DEF UpsertGroup
  <2>2. ASSUME NEW j \in Item
        PROVE  /\ grants'[j].requests = grants[j].requests /\ grants'[j].manual = grants[j].manual
               /\ \/ grants'[j].owners = OwnersBy(members', grants'[j])
                  \/ grants'[j] = grants[j] /\ g \notin grants[j].groups
    <3> DEFINE o == OwnersBy(ms, grants[j])
               place == IF grants[j].place = "orphaned" THEN "live" ELSE grants[j].place
               n == [grants[j] EXCEPT !.owners = o, !.place = place]
    <3>1. grants'[j] = IF g \in grants[j].groups THEN n ELSE grants[j]
      BY <1>3 DEF UpsertGroup
    <3>2. /\ n.requests = grants[j].requests /\ n.manual = grants[j].manual /\ n.groups = grants[j].groups
          /\ n.owners = o
      BY DEF IInv, TypeOK, Grant
    <3> HIDE DEF n
    <3>3. o = OwnersBy(ms, n)
      BY <3>2 DEF OwnersBy
    <3> HIDE DEF o, ms
    <3> QED BY <2>1, <3>1, <3>2, <3>3
  <2> HIDE DEF ms
  <2>3. members' = [members EXCEPT ![g] = us]
    BY <2>1 DEF ms
  <2> QED BY <2>1, <2>2, <2>3, HouseholdStaysRight
<1>4. ASSUME NEW g \in Group, DeleteGroup(g) PROVE KeepInv'
  <2> DEFINE ms == [members EXCEPT ![g] = {}]
  <2>1. Queue /\ members' = ms /\ UNCHANGED <<handled, withdrawals, moving>>
    BY <1>4 DEF DeleteGroup
  <2>2. ASSUME NEW j \in Item
        PROVE  /\ grants'[j].requests = grants[j].requests /\ grants'[j].manual = grants[j].manual
               /\ \/ grants'[j].owners = OwnersBy(members', grants'[j])
                  \/ grants'[j] = grants[j] /\ g \notin grants[j].groups
    <3> DEFINE left == [grants[j] EXCEPT !.groups = grants[j].groups \ {g}]
               o == OwnersBy(ms, left)
               place == IF left.place = "orphaned" THEN "live" ELSE left.place
               n == [left EXCEPT !.owners = o, !.place = place]
    <3>1. grants'[j] = IF g \in grants[j].groups THEN n ELSE grants[j]
      BY <1>4 DEF DeleteGroup
    <3>0. grants[j] \in Grant
      BY DEF IInv, TypeOK
    <3>2. left \in Grant /\ left.requests = grants[j].requests /\ left.manual = grants[j].manual
      BY <3>0 DEF Grant
    <3> HIDE DEF left
    <3>3. /\ n.requests = left.requests /\ n.manual = left.manual /\ n.groups = left.groups
          /\ n.owners = o
      BY <3>2 DEF Grant
    <3> HIDE DEF n
    <3>4. o = OwnersBy(ms, n)
      BY <3>3 DEF OwnersBy
    <3> HIDE DEF o, ms
    <3> QED BY <2>1, <3>1, <3>2, <3>3, <3>4
  <2> HIDE DEF ms
  <2>3. members' = [members EXCEPT ![g] = {}]
    BY <2>1 DEF ms
  <2> QED BY <2>1, <2>2, <2>3, HouseholdStaysRight
<1> QED BY <1>1, <1>2, <1>3, <1>4 DEF Administrators

\* Households that join a grant keep the second invariant.
LEMMA JoinsStayRight == ASSUME IInv, IInv', KeepInv, Joins PROVE KeepInv'
  BY SettingsStayRight DEF Joins, JoinGrant, households

\* Withdrawals come and go while their request is not granted.
LEMMA CancelsStayRight == ASSUME IInv, IInv', KeepInv, Cancels PROVE KeepInv'
<1>1. PICK r \in Request :
        \/ \E gs \in SUBSET Group, byRequester, deletes \in BOOLEAN : Withdraw(r, gs, byRequester, deletes)
        \/ ForgetWithdrawal(r) \/ KeepCancelled(r)
        \/ \E holds \in BOOLEAN : RequestGone(r, holds)
        \/ DropTitleHold(r)
  BY DEF Cancels
<1>2. /\ UNCHANGED <<grants, existing, members, revoked, removedUsers, removedGroups>>
      /\ handled' = handled /\ moving' = moving
  BY <1>1 DEF Withdraw, ForgetWithdrawal, KeepCancelled, RequestGone, DropTitleHold, households, marks
<1>3. withdrawals \in [Request -> Withdrawal] /\ handled \subseteq Request
  BY DEF IInv, TypeOK
<1>4. ASSUME Queue, HoldInv', Eased(handled) PROVE KeepInv'
  BY <1>2, <1>4, SameKeeps DEF Queue
<1>5. ASSUME NEW gs \in SUBSET Group, NEW byRequester \in BOOLEAN, NEW deletes \in BOOLEAN,
             Withdraw(r, gs, byRequester, deletes)
      PROVE  KeepInv'
  <2> DEFINE w == [withdrawals[r] EXCEPT !.groups = withdrawals[r].groups \cup gs,
                                         !.requester = withdrawals[r].requester \/ byRequester]
  <2>1. w.requester = (withdrawals[r].requester \/ byRequester) /\ w.gone = withdrawals[r].gone
    BY <1>3 DEF Withdrawal
  <2>2. withdrawals' = [withdrawals EXCEPT ![r] = w]
    BY <1>3, <1>5 DEF Withdraw, Withdrawal
  <2> HIDE DEF w
  <2>3. \A x \in Request : withdrawals'[x] = IF x = r THEN w ELSE withdrawals[x]
    BY <1>3, <2>2
  <2>4. HoldInv'
    BY <2>1, <2>3 DEF KeepInv, HoldInv
  <2>5. Eased(handled)
    BY <1>3, <1>5, <2>3 DEF Withdraw, Eased
  <2> QED BY <1>4, <1>5, <2>4, <2>5 DEF Withdraw
<1>6. ASSUME NEW ws, ws \in [Request -> Withdrawal], Queue,
             \A x \in Request : ws[x].gone => ws[x].requester,
             \A x \in handled : ws[x].requester => withdrawals[x].requester,
             withdrawals' = PruneWithdrawals(ws, grants, handled)
      PROVE  KeepInv'
  <2>1. \A x \in Request : withdrawals'[x] \in {ws[x], NoWithdrawal}
    BY <1>6, Prunes
  <2> QED BY <1>3, <1>4, <1>6, <2>1 DEF HoldInv, Eased, NoWithdrawal
<1>7. ASSUME ForgetWithdrawal(r) PROVE KeepInv'
  <2> DEFINE ws == [withdrawals EXCEPT ![r] = NoWithdrawal]
  <2>1. /\ ws \in [Request -> Withdrawal]
        /\ \A x \in Request : ws[x] = IF x = r THEN NoWithdrawal ELSE withdrawals[x]
    BY <1>3 DEF NoWithdrawal, Withdrawal
  <2>2. withdrawals' = PruneWithdrawals(ws, grants, handled) /\ Queue
    BY <1>7 DEF ForgetWithdrawal
  <2> HIDE DEF ws
  <2>3. /\ \A x \in Request : ws[x].gone => ws[x].requester
        /\ \A x \in handled : ws[x].requester => withdrawals[x].requester
    BY <1>3, <2>1 DEF KeepInv, HoldInv, NoWithdrawal
  <2> QED BY <1>6, <2>1, <2>2, <2>3
<1>8. ASSUME KeepCancelled(r) PROVE KeepInv'
  <2>1. UNCHANGED withdrawals
    BY <1>8 DEF KeepCancelled
  <2>2. HoldInv'
    BY <2>1 DEF KeepInv, HoldInv
  <2> QED BY <1>2, <2>1, <2>2, SameKeeps
<1>9. ASSUME NEW holds \in BOOLEAN, RequestGone(r, holds) PROVE KeepInv'
  <2> DEFINE w == IF holds THEN [withdrawals[r] EXCEPT !.gone = TRUE] ELSE NoWithdrawal
  <2>1. w.requester => withdrawals[r].requester
    BY <1>3 DEF Withdrawal, NoWithdrawal
  <2>2. w.gone => w.requester
    BY <1>3, <1>9 DEF Withdrawal, NoWithdrawal, RequestGone
  <2>3. withdrawals' = [withdrawals EXCEPT ![r] = w]
    BY <1>9 DEF RequestGone
  <2> HIDE DEF w
  <2>4. \A x \in Request : withdrawals'[x] = IF x = r THEN w ELSE withdrawals[x]
    BY <1>3, <2>3
  <2>5. HoldInv' /\ Eased(handled)
    BY <1>3, <2>1, <2>2, <2>4 DEF KeepInv, HoldInv, Eased
  <2> QED BY <1>4, <1>9, <2>5 DEF RequestGone
<1>10. ASSUME DropTitleHold(r) PROVE KeepInv'
  <2> DEFINE w == IF r \in handled THEN [withdrawals[r] EXCEPT !.gone = FALSE] ELSE NoWithdrawal
             ws == [withdrawals EXCEPT ![r] = w]
  <2>1. w \in Withdrawal /\ (w.requester => withdrawals[r].requester) /\ (w.gone => w.requester)
    BY <1>3 DEF Withdrawal, NoWithdrawal
  <2> HIDE DEF w
  <2>2. ws \in [Request -> Withdrawal] /\ \A x \in Request : ws[x] = IF x = r THEN w ELSE withdrawals[x]
    BY <1>3, <2>1
  <2>3. withdrawals' = PruneWithdrawals(ws, grants, handled) /\ Queue
    BY <1>10 DEF DropTitleHold, w
  <2> HIDE DEF ws
  <2>4. /\ \A x \in Request : ws[x].gone => ws[x].requester
        /\ \A x \in handled : ws[x].requester => withdrawals[x].requester
    BY <1>3, <2>1, <2>2 DEF KeepInv, HoldInv
  <2> QED BY <1>6, <2>2, <2>3, <2>4
<1> QED BY <1>1, <1>5, <1>7, <1>8, <1>9, <1>10

\* Whatever a recovery does not send on stays, but for requests revoked elsewhere.
LEMMA PartitionCovers ==
  ASSUME TypeOK, NEW i \in Item, NEW resolves \in [grants[i].requests -> (Item \ {i}) \cup {NoItem}]
  PROVE  Covers(i, PartitionMove(i, resolves))
<1> DEFINE source == grants[i]
           landed(t) == {r \in source.requests : resolves[r] = t /\ t \notin revoked[r]}
           targets == {t \in Item : landed(t) # {}}
           unresolved == {r \in source.requests : resolves[r] = NoItem}
           dropped == {r \in source.requests : resolves[r] \in revoked[r]}
           whole == /\ Cardinality(targets) = 1
                    /\ unresolved \cup dropped = {}
                    /\ source.place # "split"
           moves == [t \in targets |->
                       IF whole THEN AudienceOf(source)
                       ELSE [requests |-> landed(t), manual |-> {}, groups |-> Households(i, landed(t))]]
           moved == UNION {moves[t].groups : t \in targets}
           leftover == IF whole THEN Nobody
                       ELSE [requests |-> unresolved, manual |-> source.manual,
                             groups |-> (source.groups \ moved) \cup Households(i, unresolved)]
           move == PartitionMove(i, resolves)
<1>1. move.moves = moves /\ move.leftover = leftover /\ DOMAIN move.moves = targets
  BY DEF PartitionMove
<1>2. \A rs : Households(i, rs) \subseteq source.groups
  BY DEF Households
<1>3. \A r \in source.requests :
        \/ r \in unresolved
        \/ resolves[r] \in revoked[r] \ {i}
        \/ resolves[r] \in targets /\ r \in landed(resolves[r])
  OBVIOUS
<1>4. ASSUME whole PROVE Covers(i, move)
  <2>1. \A t \in targets : /\ moves[t].requests = source.requests /\ moves[t].manual = source.manual
                           /\ moves[t].groups = source.groups
    BY <1>4 DEF AudienceOf
  <2>2. PICK t : t \in targets
    <3>1. Cardinality(targets) = 1
      BY <1>4
    <3> HIDE DEF targets
    <3> QED BY <3>1, FS_EmptySet
  <2>3. leftover.groups = {}
    BY <1>4 DEF Nobody
  <2> HIDE DEF moves, leftover, targets, move
  <2> QED BY <1>1, <2>1, <2>2, <2>3 DEF Covers
<1>5. ASSUME ~whole PROVE Covers(i, move)
  <2>1. \A t \in targets : moves[t].requests = landed(t)
    BY <1>5
  <2>2. /\ leftover.requests = unresolved /\ leftover.manual = source.manual
        /\ leftover.groups = (source.groups \ moved) \cup Households(i, unresolved)
    BY <1>5
  <2>3. \A g \in moved : \E t \in targets : g \in moves[t].groups
    OBVIOUS
  <2> HIDE DEF moves, leftover, targets, unresolved, landed, moved, move
  <2> QED BY <1>1, <1>2, <1>3, <2>1, <2>2, <2>3 DEF Covers
<1> HIDE DEF whole
<1> QED BY <1>4, <1>5

\* A move takes to its targets what the source has.
LEMMA MergeStaysRight ==
  ASSUME IInv, IInv', KeepInv, NEW i \in Item, NEW move, MoveFrom(i, move), Covers(i, move),
         MergeGrants(move)
  PROVE  KeepInv'
<1> DEFINE targets == DOMAIN move.moves
<1>1. /\ TypeOK /\ TypeOK' /\ targets \subseteq Item \ {i} /\ move.from = i /\ grants[i].requests \subseteq Request
      /\ moving' = move /\ UNCHANGED <<existing, members, handled, withdrawals>>
  BY DEF IInv, TypeOK, Grant, MoveFrom, MergeGrants, households
<1>2. /\ \A t \in targets :
           /\ grants'[t] = MergedMove(t, move.moves[t])
           /\ grants'[t].requests = grants[t].requests \cup {r \in move.moves[t].requests : t \notin revoked[r]}
           /\ grants'[t].manual = grants[t].manual \cup (move.moves[t].manual \ removedUsers[t])
           /\ grants'[t].groups = grants[t].groups \cup ((move.moves[t].groups \cap existing) \ removedGroups[t])
           /\ removedUsers'[t] = removedUsers[t] \cup (removedUsers[i] \ ResolveOwners(grants[t]))
           /\ removedGroups'[t] = removedGroups[t] \cup (removedGroups[i] \ grants[t].groups)
      /\ \A j \in Item \ targets :
           grants'[j] = grants[j] /\ removedUsers'[j] = removedUsers[j] /\ removedGroups'[j] = removedGroups[j]
      /\ \A r \in Request : revoked'[r] = CarriedRevocations(i, targets, r)
  BY <1>1, MergeFacts
<1>3. \A t \in targets : /\ move.moves[t].requests \subseteq grants[i].requests
                         /\ move.moves[t].requests \subseteq Request
  BY <1>1 DEF MoveFrom
<1>4. \A r \in Request : revoked[r] \subseteq revoked'[r]
  BY <1>2 DEF CarriedRevocations
<1> HIDE DEF targets
<1>5. HandledInv'
  BY <1>1, <1>2, <1>3 DEF KeepInv, HandledInv
<1>6. HoldInv'
  BY <1>1 DEF KeepInv, HoldInv
<1>7. OwnersFresh'
  <2>1. ASSUME NEW t \in targets PROVE grants'[t].owners = ResolveOwners(grants'[t])
    <3>1. PICK g : g = grants'[t]
      OBVIOUS
    <3>2. g = MergedMove(t, move.moves[t])
      BY <1>2, <2>1, <3>1
    <3>3. g.owners = ResolveOwners(g)
      BY <3>2, MadeOwners DEF MergedMove
    <3> QED BY <3>1, <3>3
  <2>2. \A j \in Item : Remade(j) /\ Eased(grants'[j].requests)
    BY <1>1, <1>2, <2>1 DEF Remade, Eased
  <2> QED BY <1>1, <2>2, OwnersStayFresh DEF KeepInv
<1>8. Covers(i, move)'
  <2>1. grants'[i] = grants[i]
    BY <1>1, <1>2
  <2> QED BY <1>1, <1>4, <2>1 DEF Covers
<1>9. ASSUME NEW t \in targets PROVE Arrived(t, move.moves[t])'
  BY <1>1, <1>2, <1>3, <1>4 DEF Arrived
<1>10. ASSUME NEW t \in targets PROVE Carried(i, t)'
  <2>1. /\ grants[t].requests \subseteq grants'[t].requests /\ grants[t].manual \subseteq grants'[t].manual
        /\ grants[t].groups \subseteq grants'[t].groups
    BY <1>2
  <2>2. ResolveOwners(grants[t]) \subseteq ResolveOwners(grants[t])'
    BY <1>1, <2>1 DEF ResolveOwners, OwnersBy
  <2>3. removedUsers'[i] = removedUsers[i] /\ removedGroups'[i] = removedGroups[i]
    BY <1>1, <1>2
  <2>4. \A r \in Request : i \in revoked'[r] /\ r \notin grants'[t].requests => t \in revoked'[r]
    BY <1>1, <1>2, <2>1 DEF CarriedRevocations
  <2> QED BY <1>2, <2>1, <2>2, <2>3, <2>4 DEF Carried
<1>11. MoveInv'
  BY <1>1, <1>8, <1>9, <1>10 DEF MoveInv, targets
<1> QED BY <1>5, <1>6, <1>7, <1>11 DEF KeepInv

\* A grant's place says nothing of who it is for.
LEMMA PlaceStays ==
  ASSUME IInv, IInv', KeepInv, NEW i \in Item, NEW place,
         grants' = [grants EXCEPT ![i].place = place] \/ grants' = grants,
         UNCHANGED <<existing, members, handled, revoked, removedUsers, removedGroups, withdrawals>>,
         moving' = NoMove \/ moving' = moving
  PROVE  KeepInv'
<1>1. grants \in [Item -> Grant]
  BY DEF IInv, TypeOK
<1>2. ASSUME NEW j \in Item
      PROVE  /\ AudienceOf(grants'[j]) = AudienceOf(grants[j]) /\ grants'[j].owners = grants[j].owners
             /\ grants'[j].stored = grants[j].stored
  BY <1>1 DEF Grant, AudienceOf
<1>3. HoldInv' /\ Eased(handled)
  BY DEF KeepInv, HoldInv, Eased
<1> QED BY <1>2, <1>3, SameKeeps

\* The source goes, or keeps what its owners are computed from.
LEMMA RetireStaysRight ==
  ASSUME IInv, IInv', KeepInv, RetireMovedGrant PROVE KeepInv'
<1> DEFINE i == moving.from
           rest == moving.leftover
           made == MakeGrant(grants[i], rest.requests, rest.manual, rest.groups \cap existing)
           split == [made EXCEPT !.place = "split"]
           g == IF ActiveAudience(rest) THEN split ELSE Absent
<1>1. /\ TypeOK /\ moving # NoMove /\ i \in Item /\ grants' = [grants EXCEPT ![i] = g] /\ moving' = NoMove
      /\ UNCHANGED <<members, handled, withdrawals>>
  BY DEF IInv, TypeOK, MovingOK, RetireMovedGrant, Queue, households
<1>2. made.owners = ResolveOwners(made) /\ made.requests = rest.requests
  BY MadeOwners DEF MakeGrant
<1>3. /\ split.owners = made.owners /\ split.requests = made.requests /\ split.manual = made.manual
      /\ split.groups = made.groups
  BY DEF MakeGrant
<1>4. rest.requests \subseteq handled
  BY <1>1 DEF IInv, LeftFromSource, KeepInv, HandledInv
<1> HIDE DEF made, split
<1>5. split.owners = ResolveOwners(split)
  BY <1>2, <1>3 DEF ResolveOwners, OwnersBy
<1>6. (g = Absent \/ g.owners = ResolveOwners(g)) /\ g.requests \subseteq handled
  BY <1>2, <1>3, <1>4, <1>5 DEF Absent
<1> HIDE DEF g, i
<1>7. grants'[i] = g /\ \A j \in Item : j # i => grants'[j] = grants[j]
  BY <1>1 DEF TypeOK
<1>8. \A j \in Item : Remade(j) /\ Eased(grants'[j].requests) /\ grants'[j].requests \subseteq handled'
  BY <1>1, <1>6, <1>7 DEF Remade, Eased, KeepInv, HandledInv
<1>9. HoldInv'
  BY <1>1 DEF KeepInv, HoldInv
<1> QED BY <1>1, <1>8, <1>9, NoMoveKeeps

\* Each step of moving a grant to other items.
LEMMA MovesStayRight == ASSUME IInv, IInv', KeepInv, Moves PROVE KeepInv'
<1>1. TypeOK
  BY DEF IInv
<1>2. ASSUME NEW i \in Item, MarkOrphaned(i) PROVE KeepInv'
  BY <1>2, PlaceStays DEF MarkOrphaned, households, marks
<1>3. ASSUME NEW i \in Item, NEW t \in Item, RemapGrant(i, t) PROVE KeepInv'
  <2> DEFINE a == AudienceOf(grants[i])
             move == [from |-> i, moves |-> [x \in {t} |-> a], leftover |-> Nobody]
  <2>1. grants[i] \in Grant /\ i # t /\ MergeGrants(move)
    BY <1>1, <1>3 DEF RemapGrant, TypeOK
  <2>2. /\ a.requests = grants[i].requests /\ a.manual = grants[i].manual /\ a.groups = grants[i].groups
        /\ a \in Audience /\ Nobody \in Audience
    BY <2>1 DEF Grant, AudienceOf, Audience, Nobody
  <2> HIDE DEF a
  <2>3. /\ move.from = i /\ DOMAIN move.moves = {t} /\ move.moves[t] = a /\ move.leftover = Nobody
        /\ Nobody.requests = {} /\ Nobody.manual = {} /\ Nobody.groups = {}
    BY DEF Nobody
  <2> HIDE DEF move
  <2>4. MoveFrom(i, move) /\ Covers(i, move)
    BY <2>1, <2>2, <2>3 DEF MoveFrom, Covers
  <2> QED BY <2>1, <2>4, MergeStaysRight
<1>4. ASSUME NEW i \in Item, NEW resolves \in [grants[i].requests -> (Item \ {i}) \cup {NoItem}],
             RecoverMissingItem(i, resolves)
      PROVE  KeepInv'
  <2>1. MoveFrom(i, PartitionMove(i, resolves)) /\ Covers(i, PartitionMove(i, resolves))
    BY <1>1, PartitionIsFromSource, PartitionCovers
  <2> QED BY <1>4, <2>1, MergeStaysRight DEF RecoverMissingItem
<1>5. ~Queue => moving.from \in Item
  BY <1>1 DEF TypeOK, MovingOK, Queue
<1>6. ASSUME KeepReappearedSource PROVE KeepInv'
  BY <1>5, <1>6, PlaceStays DEF KeepReappearedSource, households, marks
<1>7. ASSUME NEW recovery \in BOOLEAN, FailMove(recovery) PROVE KeepInv'
  <2>1. /\ moving.from \in Item
        /\ grants' = [grants EXCEPT ![moving.from].place = "live"] \/ grants' = grants
        /\ moving' = NoMove
        /\ UNCHANGED <<existing, members, handled, revoked, removedUsers, removedGroups, withdrawals>>
    BY <1>5, <1>7 DEF FailMove, households, marks
  <2> QED BY <2>1, PlaceStays
<1> QED BY <1>2, <1>3, <1>4, <1>6, <1>7, RetireStaysRight DEF Moves

\* A move's target that gives nobody access goes: nothing the move took there is lost
\* with it.
LEMMA PurgeStaysRight ==
  ASSUME IInv, IInv', KeepInv, NEW i \in Item, PurgeInactive(i) PROVE KeepInv'
<1>1. /\ TypeOK /\ TypeOK' /\ grants' = [grants EXCEPT ![i] = Absent]
      /\ UNCHANGED <<existing, members, handled, revoked, removedUsers, removedGroups, withdrawals, moving>>
  BY DEF IInv, PurgeInactive, households, marks
<1>2. grants'[i] = Absent /\ \A j \in Item : j # i => grants'[j] = grants[j]
  BY <1>1 DEF TypeOK
<1>3. /\ grants[i].requests = {} /\ grants[i].manual = {} /\ grants[i].groups = {}
      /\ Absent.requests = {} /\ Absent.manual = {} /\ Absent.groups = {}
  BY DEF PurgeInactive, Active, ActiveAudience, Absent
<1>4. HoldInv'
  BY <1>1 DEF KeepInv, HoldInv
<1>5. \A j \in Item : Remade(j) /\ Eased(grants'[j].requests) /\ grants'[j].requests \subseteq handled'
  BY <1>1, <1>2, <1>3 DEF Remade, Eased, KeepInv, HandledInv
<1>6. CASE moving = NoMove
  BY <1>1, <1>4, <1>5, <1>6, NoMoveKeeps
<1>7. CASE moving # NoMove
  <2>1. OwnersFresh' /\ HandledInv'
    BY <1>1, <1>5, OwnersStayFresh DEF KeepInv, HandledInv
  <2>2. i \in DOMAIN moving.moves /\ moving.from \in Item /\ DOMAIN moving.moves \subseteq Item \ {moving.from}
    BY <1>1, <1>7 DEF PurgeInactive, Queue, TypeOK, MovingOK
  <2>3. Covers(moving.from, moving)'
    BY <1>1, <1>2, <1>7, <2>2 DEF KeepInv, MoveInv, Covers
  <2>4. ASSUME NEW t \in DOMAIN moving.moves
        PROVE  Arrived(t, moving.moves[t])' /\ (Active(t)' => Carried(moving.from, t)')
    <3>1. Arrived(t, moving.moves[t]) /\ (Active(t) => Carried(moving.from, t)) /\ t \in Item
      BY <1>7, <2>2 DEF KeepInv, MoveInv
    <3>2. CASE t = i
      <4>1. Arrived(t, moving.moves[t])'
        BY <1>1, <1>2, <1>3, <3>1, <3>2 DEF Arrived
      <4>2. ~Active(t)'
        BY <1>2, <3>2 DEF Active, Absent
      <4> QED BY <4>1, <4>2
    <3>3. CASE t # i
      <4>1. grants'[t] = grants[t]
        BY <1>2, <3>1, <3>3
      <4>2. Arrived(t, moving.moves[t])' /\ (Active(t)' => Active(t))
        BY <1>1, <3>1, <4>1 DEF Arrived, Active
      <4>3. Carried(moving.from, t) => Carried(moving.from, t)'
        BY <1>1, <4>1 DEF Carried, ResolveOwners, OwnersBy
      <4> QED BY <3>1, <4>2, <4>3
    <3> QED BY <3>2, <3>3
  <2>5. MoveInv'
    BY <1>1, <2>3, <2>4 DEF MoveInv
  <2> QED BY <1>4, <2>1, <2>5 DEF KeepInv
<1> QED BY <1>6, <1>7

\* Restarts, sync marks and the purge of inactive grants.
LEMMA ReconciliationStaysRight == ASSUME IInv, IInv', KeepInv, Reconciliation PROVE KeepInv'
<1>1. ASSUME NEW i \in Item, MarkSync(i) PROVE KeepInv'
  BY <1>1, PlaceStays DEF MarkSync, households, marks
<1>2. ASSUME Restart PROVE KeepInv'
  <2>1. /\ UNCHANGED <<grants, existing, members, handled, revoked, removedUsers, removedGroups, withdrawals>>
        /\ moving' = NoMove
    BY <1>2 DEF Restart, households, marks
  <2>2. HoldInv' /\ Eased(handled)
    BY <2>1 DEF KeepInv, HoldInv, Eased
  <2> QED BY <2>1, <2>2, SameKeeps
<1> QED BY <1>1, <1>2, PurgeStaysRight DEF Reconciliation

\* Every step keeps the second invariant.
LEMMA StepStaysRight == IInv /\ KeepInv /\ [Next]_vars => KeepInv'
<1> SUFFICES ASSUME IInv, KeepInv, [Next]_vars PROVE KeepInv'
  OBVIOUS
<1>1. IInv'
  BY StepKeeps
<1>2. CASE UNCHANGED vars
  <2>1. UNCHANGED <<grants, existing, members, handled, revoked, removedUsers, removedGroups, withdrawals, moving>>
    BY <1>2 DEF vars, households, marks
  <2>2. HoldInv'
    BY <2>1 DEF KeepInv, HoldInv
  <2> QED BY <1>1, <2>1, <2>2, SameKeeps
<1> QED BY <1>1, <1>2, RequestsStayRight, AdministratorsStayRight, JoinsStayRight, CancelsStayRight,
           MovesStayRight, ReconciliationStaysRight DEF Next

\* The second invariant holds at the start.
LEMMA StartsRight == Init => KeepInv
<1> SUFFICES ASSUME Init PROVE KeepInv
  OBVIOUS
<1>1. TypeOK
  BY InitKeeps DEF IInv
<1>2. HandledInv /\ HoldInv /\ MoveInv
  BY DEF Init, HandledInv, HoldInv, MoveInv, Absent, NoWithdrawal
<1>3. AllFresh
  BY DEF Init, AllFresh, FreshGrant, Absent
<1> QED BY <1>1, <1>2, <1>3, FreshGrants DEF KeepInv

\* The second inductive invariant, over the first: what a grant records is handled, a
\* hold is its requester's withdrawal, stored owners are those of the audience, and a
\* move under way has arrived at its targets.
THEOREM KeptInvariant == Spec => []KeepInv
  BY Invariant, StartsRight, StepStaysRight, PTL DEF Spec

\* What arrived and what was carried is not changed by merging again.
LEMMA MergesAlike == ASSUME TypeOK, MoveInv PROVE MergeIdempotent
<1> SUFFICES ASSUME NEW t \in DOMAIN moving.moves, Active(t)
             PROVE  /\ AudienceOf(MergedMove(t, moving.moves[t])) = AudienceOf(grants[t])
                    /\ CarriedUsers(moving.from, t) = removedUsers[t]
                    /\ CarriedGroups(moving.from, t) = removedGroups[t]
                    /\ \A r \in Request : t \in CarriedRevocations(moving.from, {t}, r) => t \in revoked[r]
  BY DEF MergeIdempotent
<1>1. moving # NoMove
  BY DEF NoMove
<1>2. Arrived(t, moving.moves[t]) /\ Carried(moving.from, t)
  BY <1>1 DEF MoveInv
<1>3. AudienceOf(MergedMove(t, moving.moves[t])) = AudienceOf(grants[t])
  <2> DEFINE a == moving.moves[t]
             requests == grants[t].requests \cup {r \in a.requests : t \notin revoked[r]}
             manual == grants[t].manual \cup (a.manual \ removedUsers[t])
             groups == grants[t].groups \cup ((a.groups \cap existing) \ removedGroups[t])
  <2>1. requests = grants[t].requests /\ manual = grants[t].manual /\ groups = grants[t].groups
    BY <1>2 DEF Arrived
  <2>2. AudienceOf(MergedMove(t, a)) = [requests |-> requests, manual |-> manual, groups |-> groups]
    BY DEF MergedMove, MakeGrant, AudienceOf
  <2> QED BY <2>1, <2>2 DEF AudienceOf
<1>4. CarriedUsers(moving.from, t) = removedUsers[t] /\ CarriedGroups(moving.from, t) = removedGroups[t]
  BY <1>2 DEF Carried, CarriedUsers, CarriedGroups
<1>5. \A r \in Request : t \in CarriedRevocations(moving.from, {t}, r) => t \in revoked[r]
  BY <1>2 DEF Carried, CarriedRevocations
<1> QED BY <1>3, <1>4, <1>5

\* Whatever changes after a grant's owners are stored, they stay those of its audience,
\* and a move that is merged a second time, after a crash, changes nothing
\* (mergeGrants: "merging the same move again changes nothing").
THEOREM RecomputedAlikeAlways == Spec => []RecomputedAlike
<1>1. IInv /\ KeepInv => RecomputedAlike
  BY MergesAlike DEF IInv, KeepInv, RecomputedAlike
<1> QED BY <1>1, Invariant, KeptInvariant, PTL

-----------------------------------------------------------------------------
(* What a step may never do *)

\* The marks are obeyed on an item.
QuietGroups(i) == removedGroups[i] \cap removedGroups'[i] \cap (grants'[i].groups \ grants[i].groups) # {}
                    => handled' # handled
QuietUsers(i) == removedUsers[i] \cap removedUsers'[i] \cap (grants'[i].manual \ grants[i].manual) = {}
Quiet == \A i \in Item : QuietGroups(i) /\ QuietUsers(i)

\* One grant is made anew.
LEMMA MadeQuietly ==
  ASSUME TypeOK, NEW i \in Item, NEW previous, NEW requests, NEW manual, NEW groups,
         grants' = [grants EXCEPT ![i] = MakeGrant(previous, requests, manual, groups)],
         \/ groups \subseteq grants[i].groups \/ handled' # handled
         \/ (groups \ grants[i].groups) \cap removedGroups[i] \cap removedGroups'[i] = {},
         \/ manual \subseteq grants[i].manual
         \/ (manual \ grants[i].manual) \cap removedUsers[i] \cap removedUsers'[i] = {}
  PROVE  Quiet
<1>1. /\ grants'[i].groups = groups /\ grants'[i].manual = manual
      /\ \A j \in Item : j # i => grants'[j] = grants[j]
  BY DEF TypeOK, MakeGrant
<1> QED BY <1>1 DEF Quiet, QuietGroups, QuietUsers

\* No grant's groups or manual users grow.
LEMMA NoMoreQuietly ==
  ASSUME \A j \in Item : grants'[j].groups \subseteq grants[j].groups /\ grants'[j].manual \subseteq grants[j].manual
  PROVE  Quiet
  BY DEF Quiet, QuietGroups, QuietUsers

\* A hold that is granted a second time brings no household: its requester withdrew.
LEMMA RequestsQuiet == ASSUME IInv, KeepInv, Requests PROVE Quiet
<1>1. TypeOK
  BY DEF IInv
<1>2. ASSUME NEW i \in Item, NEW r \in Request, Granted(i, r), r \notin handled \/ GrantGroups(r) = {}
      PROVE  Quiet
  <2> DEFINE requests == IF i \in revoked[r] THEN grants[i].requests ELSE grants[i].requests \cup {r}
             groups == grants[i].groups \cup GrantGroups(r)
  <2>1. grants' = [grants EXCEPT ![i] = MakeGrant(grants[i], requests, grants[i].manual, groups)]
    BY <1>2 DEF Granted
  <2>2. groups \subseteq grants[i].groups \/ handled' # handled
    BY <1>2 DEF Granted
  <2> HIDE DEF requests, groups
  <2> QED BY <1>1, <2>1, <2>2, MadeQuietly
<1>3. ASSUME NEW i \in Item, NEW r \in Request, GrantRequest(i, r) PROVE Quiet
  BY <1>2, <1>3 DEF GrantRequest
<1>4. ASSUME NEW i \in Item, NEW r \in Request, HoldItem(i, r) PROVE Quiet
  <2>1. GrantGroups(r) = {}
    BY <1>4 DEF HoldItem, TitleHold, KeepInv, HoldInv, GrantGroups
  <2> QED BY <1>2, <1>4, <2>1 DEF HoldItem
<1>5. ASSUME NEW i \in Item, NEW r \in Request, RevokeRequest(i, r) PROVE Quiet
  <2>1. grants' = [grants EXCEPT ![i] = MakeGrant(grants[i], grants[i].requests \ {r}, grants[i].manual, grants[i].groups)]
    BY <1>5 DEF RevokeRequest
  <2> QED BY <1>1, <2>1, MadeQuietly
<1>6. ASSUME NEW r \in Request, MarkRequestHandled(r) PROVE Quiet
  BY <1>6, NoMoreQuietly DEF MarkRequestHandled
<1> QED BY <1>3, <1>4, <1>5, <1>6 DEF Requests

\* What an administrator assigns is unmarked.
LEMMA AdministratorsQuiet == ASSUME IInv, Administrators PROVE Quiet
<1>1. TypeOK
  BY DEF IInv
<1>2. ASSUME NEW i \in Item, NEW gs \in SUBSET Group, SetGrantGroups(i, gs) PROVE Quiet
  <2>1. /\ grants' = [grants EXCEPT ![i] = MakeGrant(grants[i], grants[i].requests, grants[i].manual, gs)]
        /\ removedGroups'[i] = MarkedGroups(i, gs)
    BY <1>1, <1>2 DEF SetGrantGroups, RecordAdministratorChange, TypeOK
  <2>2. (gs \ grants[i].groups) \cap removedGroups[i] \cap removedGroups'[i] = {}
    BY <2>1 DEF MarkedGroups
  <2> QED BY <1>1, <2>1, <2>2, MadeQuietly
<1>3. ASSUME NEW i \in Item, NEW gs \in SUBSET Group, NEW us \in SUBSET User, SetManualAccess(i, us, gs)
      PROVE  Quiet
  <2>1. /\ grants' = [grants EXCEPT ![i] = MakeGrant(grants[i], grants[i].requests, us, gs)]
        /\ removedGroups'[i] = MarkedGroups(i, gs) /\ removedUsers'[i] = MarkedUsers(i, us, gs)
    BY <1>1, <1>3 DEF SetManualAccess, RecordAdministratorChange, TypeOK
  <2>2. (gs \ grants[i].groups) \cap removedGroups[i] \cap removedGroups'[i] = {}
    BY <2>1 DEF MarkedGroups
  <2>3. (us \ grants[i].manual) \cap removedUsers[i] \cap removedUsers'[i] = {}
    BY <2>1 DEF MarkedUsers
  <2> QED BY <1>1, <2>1, <2>2, <2>3, MadeQuietly
<1>4. ASSUME NEW g \in Group, NEW us \in SUBSET User, UpsertGroup(g, us) PROVE Quiet
  <2>1. \A j \in Item : grants'[j].groups = grants[j].groups /\ grants'[j].manual = grants[j].manual
    BY <1>1, <1>4, UpsertFields
  <2> QED BY <2>1, NoMoreQuietly
<1>5. ASSUME NEW g \in Group, DeleteGroup(g) PROVE Quiet
  <2>1. \A j \in Item : grants'[j].groups \subseteq grants[j].groups /\ grants'[j].manual = grants[j].manual
    BY <1>1, <1>5, DeleteFields
  <2> QED BY <2>1, NoMoreQuietly
<1> QED BY <1>2, <1>3, <1>4, <1>5 DEF Administrators

\* A join is refused for a marked household.
LEMMA JoinsQuiet == ASSUME IInv, Joins PROVE Quiet
<1>1. PICK i \in Item, u \in User, g \in Group : JoinGrant(i, u, g)
  BY DEF Joins
<1>2. grants' = [grants EXCEPT ![i] = MakeGrant(grants[i], grants[i].requests, grants[i].manual, grants[i].groups \cup {g})]
  BY <1>1 DEF JoinGrant
<1>3. ((grants[i].groups \cup {g}) \ grants[i].groups) \cap removedGroups[i] \cap removedGroups'[i] = {}
  BY <1>1 DEF JoinGrant, PlanJoin
<1> QED BY <1>2, <1>3, MadeQuietly DEF IInv

\* A merge leaves out what is marked at the target, and the source keeps only its own.
LEMMA MergesQuiet ==
  ASSUME TypeOK, NEW i \in Item, NEW move, MoveFrom(i, move), MergeGrants(move) PROVE Quiet
<1> SUFFICES ASSUME NEW j \in Item PROVE QuietGroups(j) /\ QuietUsers(j)
  BY DEF Quiet
<1>1. CASE j \in DOMAIN move.moves
  BY <1>1, MergeFacts DEF QuietGroups, QuietUsers
<1>2. CASE j \notin DOMAIN move.moves
  BY <1>2, MergeFacts DEF QuietGroups, QuietUsers
<1> QED BY <1>1, <1>2

\* A step of a move merges it, retires its source, or changes only a grant's place.
MergeStep == Queue /\ \E i \in Item : \E move : MoveFrom(i, move) /\ MergeGrants(move)
PlaceStep ==
  /\ \A j \in Item : AudienceOf(grants'[j]) = AudienceOf(grants[j])
  /\ moving' = moving \/ moving' = NoMove
  /\ UNCHANGED <<existing, members, handled, revoked, removedUsers, removedGroups, withdrawals>>

\* A step of a move merges, retires or only changes where a grant is.
LEMMA MovesAre == ASSUME TypeOK, Moves PROVE MergeStep \/ RetireMovedGrant \/ PlaceStep
<1>1. ASSUME NEW i \in Item, NEW place,
             grants' = [grants EXCEPT ![i].place = place] \/ grants' = grants,
             UNCHANGED <<existing, members, handled, revoked, removedUsers, removedGroups, withdrawals>>,
             moving' = moving \/ moving' = NoMove
      PROVE  PlaceStep
  <2>1. \A j \in Item : AudienceOf(grants'[j]) = AudienceOf(grants[j])
    BY <1>1 DEF TypeOK, Grant, AudienceOf
  <2> QED BY <1>1, <2>1 DEF PlaceStep
<1>2. ASSUME NEW i \in Item, MarkOrphaned(i) PROVE PlaceStep
  BY <1>1, <1>2 DEF MarkOrphaned, households, marks
<1>3. ASSUME NEW i \in Item, NEW t \in Item, RemapGrant(i, t) PROVE MergeStep
  <2> DEFINE move == [from |-> i, moves |-> [x \in {t} |-> AudienceOf(grants[i])], leftover |-> Nobody]
  <2>1. AudienceOf(grants[i]) \in Audience /\ Nobody \in Audience
    BY DEF TypeOK, Grant, AudienceOf, Audience, Nobody
  <2>2. MoveFrom(i, move) /\ MergeGrants(move) /\ Queue
    BY <1>3, <2>1 DEF RemapGrant, MoveFrom, AudienceOf, Nobody
  <2> HIDE DEF move
  <2> QED BY <2>2 DEF MergeStep
<1>4. ASSUME NEW i \in Item, NEW resolves \in [grants[i].requests -> (Item \ {i}) \cup {NoItem}],
             RecoverMissingItem(i, resolves)
      PROVE  MergeStep
  BY <1>4, PartitionIsFromSource DEF RecoverMissingItem, MergeStep
<1>5. ~Queue => moving.from \in Item
  BY DEF TypeOK, MovingOK, Queue
<1>6. ASSUME KeepReappearedSource PROVE PlaceStep
  BY <1>1, <1>5, <1>6 DEF KeepReappearedSource, households, marks
<1>7. ASSUME NEW recovery \in BOOLEAN, FailMove(recovery) PROVE PlaceStep
  <2>1. /\ moving.from \in Item
        /\ grants' = [grants EXCEPT ![moving.from].place = "live"] \/ grants' = grants
        /\ moving' = NoMove
        /\ UNCHANGED <<existing, members, handled, revoked, removedUsers, removedGroups, withdrawals>>
    BY <1>5, <1>7 DEF FailMove, households, marks
  <2> QED BY <1>1, <2>1
<1> QED BY <1>2, <1>3, <1>4, <1>6, <1>7 DEF Moves

\* What retiring the source leaves of it.
LEMMA RetireFacts ==
  ASSUME TypeOK, RetireMovedGrant
  PROVE  /\ moving # NoMove /\ moving.from \in Item /\ moving' = NoMove
         /\ UNCHANGED <<existing, members, handled, revoked, removedUsers, removedGroups, withdrawals>>
         /\ \A j \in Item : j # moving.from => grants'[j] = grants[j]
         /\ grants'[moving.from].requests = moving.leftover.requests
         /\ grants'[moving.from].manual = moving.leftover.manual
         /\ grants'[moving.from].groups = moving.leftover.groups \cap existing
<1> DEFINE i == moving.from
           rest == moving.leftover
           made == MakeGrant(grants[i], rest.requests, rest.manual, rest.groups \cap existing)
           split == [made EXCEPT !.place = "split"]
           g == IF ActiveAudience(rest) THEN split ELSE Absent
<1>1. /\ moving # NoMove /\ i \in Item /\ grants' = [grants EXCEPT ![i] = g] /\ moving' = NoMove
      /\ UNCHANGED <<existing, members, handled, revoked, removedUsers, removedGroups, withdrawals>>
  BY DEF TypeOK, MovingOK, RetireMovedGrant, Queue, households, marks
<1>2. split.requests = rest.requests /\ split.manual = rest.manual /\ split.groups = rest.groups \cap existing
  BY DEF MakeGrant
<1> HIDE DEF split
<1>3. g.requests = rest.requests /\ g.manual = rest.manual /\ g.groups = rest.groups \cap existing
  BY <1>2 DEF ActiveAudience, Absent
<1> HIDE DEF g, i
<1>4. grants'[i] = g /\ \A j \in Item : j # i => grants'[j] = grants[j]
  BY <1>1 DEF TypeOK
<1> QED BY <1>1, <1>3, <1>4 DEF i

\* What stays at the source was there.
LEMMA MovesQuiet == ASSUME IInv, KeepInv, Moves PROVE Quiet
<1>1. TypeOK
  BY DEF IInv
<1>2. CASE MergeStep
  BY <1>1, <1>2, MergesQuiet DEF MergeStep
<1>3. CASE RetireMovedGrant
  <2>1. /\ moving.leftover.manual \subseteq grants[moving.from].manual
        /\ moving.leftover.groups \subseteq grants[moving.from].groups
    BY <1>1, <1>3, RetireFacts DEF IInv, LeftFromSource, KeepInv, MoveInv, Covers
  <2>2. \A j \in Item : grants'[j].groups \subseteq grants[j].groups /\ grants'[j].manual \subseteq grants[j].manual
    BY <1>1, <1>3, <2>1, RetireFacts
  <2> QED BY <2>2, NoMoreQuietly
<1>4. CASE PlaceStep
  BY <1>4, NoMoreQuietly DEF PlaceStep, AudienceOf
<1> QED BY <1>1, <1>2, <1>3, <1>4, MovesAre

\* Nothing an administrator took off an item comes back by itself: a marked household
\* only with the mark cleared or by a request granted just then, a marked user never as
\* a manual user with the mark still there.
THEOREM NoQuietReturnAlways == Spec => NoQuietReturn
<1>1. IInv /\ KeepInv /\ [Next]_vars =>
        [\A i \in Item :
           /\ removedGroups[i] \cap removedGroups'[i] \cap (grants'[i].groups \ grants[i].groups) # {}
                => handled' # handled
           /\ removedUsers[i] \cap removedUsers'[i] \cap (grants'[i].manual \ grants[i].manual) = {}]_vars
  <2> SUFFICES ASSUME IInv, KeepInv, Next PROVE Quiet
    BY DEF Quiet, QuietGroups, QuietUsers
  <2>1. CASE Cancels
    <3>1. UNCHANGED grants
      BY <2>1 DEF Cancels, Withdraw, ForgetWithdrawal, KeepCancelled, RequestGone, DropTitleHold
    <3> QED BY <3>1, NoMoreQuietly
  <2>2. CASE Reconciliation
    <3>1. grants \in [Item -> Grant]
      BY DEF IInv, TypeOK
    <3>2. ASSUME NEW i \in Item, MarkSync(i) PROVE Quiet
      <4>1. \A j \in Item : grants'[j].groups = grants[j].groups /\ grants'[j].manual = grants[j].manual
        BY <3>1, <3>2 DEF MarkSync, Grant
      <4> QED BY <4>1, NoMoreQuietly
    <3>3. ASSUME NEW i \in Item, PurgeInactive(i) PROVE Quiet
      <4>1. \A j \in Item : grants'[j] \in {grants[j], Absent}
        BY <3>1, <3>3 DEF PurgeInactive
      <4> QED BY <4>1, NoMoreQuietly DEF Absent
    <3>4. CASE Restart
      BY <3>4, NoMoreQuietly DEF Restart
    <3> QED BY <2>2, <3>2, <3>3, <3>4 DEF Reconciliation
  <2> QED BY <2>1, <2>2, RequestsQuiet, AdministratorsQuiet, JoinsQuiet, MovesQuiet DEF Next
<1> QED BY <1>1, Invariant, KeptInvariant, PTL DEF Spec, NoQuietReturn

-----------------------------------------------------------------------------
(* Moves and withdrawals, and who is given access *)

\* The targets of a merge get only what the source or they had.
LEMMA MergesGainNobody ==
  ASSUME TypeOK, NEW i \in Item, NEW move, MoveFrom(i, move), MergeGrants(move), NEW t \in Item
  PROVE  ResolveOwners(grants[t])' \subseteq ResolveOwners(grants[t]) \cup ResolveOwners(grants[i])
<1>1. UNCHANGED <<members, withdrawals>>
  BY DEF MergeGrants, households
<1>2. /\ grants'[t].requests \subseteq grants[t].requests \cup grants[i].requests
      /\ grants'[t].manual \subseteq grants[t].manual \cup grants[i].manual
      /\ grants'[t].groups \subseteq grants[t].groups \cup grants[i].groups
  <2>1. CASE t \in DOMAIN move.moves
    <3>1. /\ move.moves[t].requests \subseteq grants[i].requests
          /\ move.moves[t].manual \subseteq grants[i].manual /\ move.moves[t].groups \subseteq grants[i].groups
      BY <2>1 DEF MoveFrom
    <3>2. /\ grants'[t].requests = grants[t].requests \cup {r \in move.moves[t].requests : t \notin revoked[r]}
          /\ grants'[t].manual = grants[t].manual \cup (move.moves[t].manual \ removedUsers[t])
          /\ grants'[t].groups = grants[t].groups \cup ((move.moves[t].groups \cap existing) \ removedGroups[t])
      BY <2>1, MergeFacts
    <3> QED BY <3>1, <3>2
  <2>2. CASE t \notin DOMAIN move.moves
    <3>1. grants'[t] = grants[t]
      BY <2>2, MergeFacts
    <3> QED BY <3>1
  <2> QED BY <2>1, <2>2
<1> QED BY <1>1, <1>2 DEF ResolveOwners, OwnersBy

\* Whoever the source gave access to has it, once the source is retired, unless an
\* administrator had taken it.
LEMMA RetiresLoseNobody ==
  ASSUME IInv, KeepInv, RetireMovedGrant, NEW u \in ResolveOwners(grants[moving.from])
  PROVE  \/ \E i \in DOMAIN moving.moves \cup {moving.from} : u \in ResolveOwners(grants[i])'
         \/ TakenFromTargets(u)
<1> DEFINE from == moving.from
           rest == moving.leftover
           targets == DOMAIN moving.moves
<1>1. TypeOK /\ moving # NoMove /\ from \in Item /\ targets \subseteq Item \ {from}
  BY DEF IInv, TypeOK, MovingOK, RetireMovedGrant, Queue
<1>2. /\ UNCHANGED <<members, withdrawals>> /\ \A j \in Item : j # from => grants'[j] = grants[j]
      /\ grants'[from].requests = rest.requests /\ grants'[from].manual = rest.manual
      /\ grants'[from].groups = rest.groups \cap existing
  BY <1>1, RetireFacts
<1>3. Covers(from, moving) /\ \A t \in targets : Arrived(t, moving.moves[t])
  BY <1>1 DEF KeepInv, MoveInv
<1>4. grants[from].requests \subseteq Request /\ grants[from].groups \subseteq existing
  BY <1>1 DEF IInv, NoDanglingGroups, TypeOK, Grant
<1>5. \A t \in targets : grants'[t] = grants[t]
  BY <1>1, <1>2
<1> HIDE DEF from, rest, targets
<1>6. ASSUME NEW r \in grants[from].requests, ~withdrawals[r].requester, Requester[r] = u
      PROVE  (\E i \in targets \cup {from} : u \in ResolveOwners(grants[i])') \/ TakenFromTargets(u)
  <2>1. ASSUME NEW i \in targets \cup {from}, r \in grants'[i].requests PROVE u \in ResolveOwners(grants[i])'
    BY <1>2, <1>6, <2>1 DEF ResolveOwners, OwnersBy
  <2>2. CASE revoked[r] \ {from} # {}
    BY <1>6, <2>2 DEF TakenFromTargets, from
  <2>3. CASE r \in rest.requests
    BY <1>2, <2>1, <2>3
  <2>4. ASSUME NEW t \in targets, r \in moving.moves[t].requests
        PROVE  r \in grants'[t].requests \/ revoked[r] \ {from} # {}
    BY <1>1, <1>3, <1>5, <2>4 DEF Arrived, from, targets
  <2> QED BY <1>3, <2>1, <2>2, <2>3, <2>4 DEF Covers, rest, targets
<1>7. ASSUME u \in grants[from].manual
      PROVE  (\E i \in targets \cup {from} : u \in ResolveOwners(grants[i])') \/ TakenFromTargets(u)
  <2>1. ASSUME NEW i \in targets \cup {from}, u \in grants'[i].manual PROVE u \in ResolveOwners(grants[i])'
    BY <2>1 DEF ResolveOwners, OwnersBy
  <2>2. ASSUME NEW t \in targets, u \in moving.moves[t].manual
        PROVE  u \in grants'[t].manual \/ TakenFromTargets(u)
    BY <1>3, <1>5, <2>2 DEF Arrived, TakenFromTargets, targets
  <2>3. u \in rest.manual => u \in grants'[from].manual
    BY <1>2
  <2> QED BY <1>3, <1>7, <2>1, <2>2, <2>3 DEF Covers, rest, targets
<1>8. ASSUME NEW g \in grants[from].groups, u \in members[g]
      PROVE  (\E i \in targets \cup {from} : u \in ResolveOwners(grants[i])') \/ TakenFromTargets(u)
  <2>1. ASSUME NEW i \in targets \cup {from}, g \in grants'[i].groups PROVE u \in ResolveOwners(grants[i])'
    BY <1>2, <1>8, <2>1 DEF ResolveOwners, OwnersBy
  <2>2. ASSUME NEW t \in targets, g \in moving.moves[t].groups
        PROVE  g \in grants'[t].groups \/ TakenFromTargets(u)
    BY <1>3, <1>4, <1>5, <1>8, <2>2 DEF Arrived, TakenFromTargets, targets
  <2>3. g \in rest.groups => g \in grants'[from].groups
    BY <1>2, <1>4
  <2> QED BY <1>3, <1>8, <2>1, <2>2, <2>3 DEF Covers, rest, targets
<1>9. \/ \E r \in grants[from].requests : ~withdrawals[r].requester /\ Requester[r] = u
      \/ u \in grants[from].manual
      \/ \E g \in grants[from].groups : u \in members[g]
  BY DEF ResolveOwners, OwnersBy, from
<1>10. (\E i \in targets \cup {from} : u \in ResolveOwners(grants[i])') \/ TakenFromTargets(u)
  BY <1>6, <1>7, <1>8, <1>9
<1> QED BY <1>10 DEF from, targets

\* A move that ends without retiring its source leaves every grant as it was.
LEMMA EndsLoseNobody ==
  ASSUME TypeOK, moving # NoMove, UNCHANGED <<members, withdrawals>>,
         \A j \in Item : AudienceOf(grants'[j]) = AudienceOf(grants[j])
  PROVE  LosesNobody
<1>1. moving.from \in Item
  BY DEF TypeOK, MovingOK
<1>2. ASSUME NEW i \in Item PROVE ResolveOwners(grants[i]) \subseteq ResolveOwners(grants[i])'
  <2>1. /\ grants'[i].requests = grants[i].requests /\ grants'[i].manual = grants[i].manual
        /\ grants'[i].groups = grants[i].groups
    BY DEF AudienceOf
  <2> QED BY <2>1 DEF ResolveOwners, OwnersBy
<1>3. \A u \in ResolveOwners(grants[moving.from]) :
        \E i \in DOMAIN moving.moves \cup {moving.from} : u \in ResolveOwners(grants[i])'
  BY <1>1, <1>2
<1> QED BY <1>3 DEF LosesNobody

\* Nothing but the steps of a move, and a restart, touches the move under way.
LEMMA OthersMoveNothing == ASSUME Next, ~Moves, ~Restart PROVE moving' = moving
<1>1. CASE Requests
  BY <1>1 DEF Requests, GrantRequest, RevokeRequest, HoldItem, MarkRequestHandled, Granted
<1>2. CASE Administrators
  BY <1>2 DEF Administrators, SetGrantGroups, SetManualAccess, DeleteGroup, UpsertGroup
<1>3. CASE Joins \/ Cancels
  BY <1>3 DEF Joins, JoinGrant, Cancels, Withdraw, ForgetWithdrawal, KeepCancelled, RequestGone, DropTitleHold
<1>4. CASE Reconciliation
  BY <1>4 DEF Reconciliation, MarkSync, PurgeInactive
<1> QED BY <1>1, <1>2, <1>3, <1>4 DEF Next

\* A move, whole or split, done at once, in steps or never finished, gives an item's
\* users nobody its source did not have and takes access from nobody an administrator
\* had not.
THEOREM MovesKeepAudienceAlways == Spec => MovesKeepAudience
<1>1. IInv /\ KeepInv /\ [Next]_vars => [GainsNobody /\ LosesNobody]_vars
  <2> SUFFICES ASSUME IInv, KeepInv, Next PROVE GainsNobody /\ LosesNobody
    OBVIOUS
  <2>1. TypeOK
    BY DEF IInv
  <2>2. CASE Moves /\ MergeStep
    <3>1. PICK i, move : i \in Item /\ MoveFrom(i, move) /\ MergeGrants(move)
      BY <2>2 DEF MergeStep
    <3>2. moving'.from = i /\ moving = NoMove
      BY <2>2, <3>1 DEF MergeStep, MergeGrants, MoveFrom, Queue
    <3>3. \A t \in Item :
            ResolveOwners(grants[t])' \subseteq ResolveOwners(grants[t]) \cup ResolveOwners(grants[i])
      BY <2>1, <3>1, MergesGainNobody
    <3> QED BY <3>2, <3>3 DEF GainsNobody, LosesNobody
  <2>3. CASE RetireMovedGrant
    <3>1. LosesNobody
      BY <2>3, RetiresLoseNobody DEF LosesNobody
    <3>2. GainsNobody
      BY <2>1, <2>3, RetireFacts DEF GainsNobody
    <3> QED BY <3>1, <3>2
  <2>4. CASE PlaceStep
    <3>1. GainsNobody
      BY <2>4 DEF GainsNobody, PlaceStep
    <3>2. moving # NoMove => LosesNobody
      BY <2>1, <2>4, EndsLoseNobody DEF PlaceStep
    <3> QED BY <3>1, <3>2 DEF LosesNobody
  <2>5. CASE Restart
    <3>1. moving' = NoMove /\ UNCHANGED <<grants, members, withdrawals>>
      BY <2>5 DEF Restart, households
    <3>2. moving # NoMove => LosesNobody
      BY <2>1, <3>1, EndsLoseNobody
    <3> QED BY <3>1, <3>2 DEF GainsNobody, LosesNobody
  <2>6. CASE ~Moves /\ ~Restart
    BY <2>6, OthersMoveNothing DEF GainsNobody, LosesNobody
  <2> QED BY <2>1, <2>2, <2>3, <2>4, <2>5, <2>6, MovesAre
<1> QED BY <1>1, Invariant, KeptInvariant, PTL DEF Spec, MovesKeepAudience

\* A step records a request that was not handled only by granting it.
LEMMA OnlyGrantsRecord ==
  ASSUME IInv, KeepInv, KeepInv', Next, NEW i \in Item, NEW r \in Request,
         r \notin handled, r \in grants'[i].requests
  PROVE  Granted(i, r)
<1>1. TypeOK /\ r \notin grants[i].requests /\ r \in handled'
  BY DEF IInv, KeepInv, HandledInv
<1>2. CASE Requests
  <2>1. ASSUME NEW j \in Item, NEW x \in Request, Granted(j, x) PROVE Granted(i, r)
    <3>1. x = r
      BY <1>1, <2>1 DEF Granted
    <3>2. \A k \in Item : k # j => grants'[k] = grants[k]
      BY <1>1, <2>1 DEF Granted, TypeOK
    <3> QED BY <1>1, <2>1, <3>1, <3>2
  <2>2. UNCHANGED handled \/ UNCHANGED grants \/ \E j \in Item, x \in Request : Granted(j, x)
    BY <1>2 DEF Requests, GrantRequest, RevokeRequest, HoldItem, MarkRequestHandled
  <2> QED BY <1>1, <2>1, <2>2
<1>3. CASE ~Requests
  <2>1. CASE Administrators
    BY <1>1, <2>1 DEF Administrators, SetGrantGroups, SetManualAccess, DeleteGroup, UpsertGroup
  <2>2. CASE Joins \/ Cancels
    BY <1>1, <2>2 DEF Joins, JoinGrant, Cancels, Withdraw, ForgetWithdrawal, KeepCancelled, RequestGone, DropTitleHold
  <2>3. CASE Moves
    <3>1. UNCHANGED handled
      BY <1>1, <2>3, MovesAre DEF MergeStep, MergeGrants, PlaceStep, RetireMovedGrant
    <3> QED BY <1>1, <3>1
  <2>4. CASE Reconciliation
    BY <1>1, <2>4 DEF Reconciliation, MarkSync, PurgeInactive, Restart
  <2> QED BY <1>3, <2>1, <2>2, <2>3, <2>4 DEF Next
<1> QED BY <1>2, <1>3

\* A request its requester withdrew before the grant gives nobody access when it is
\* granted: no household comes with it, and pruning keeps the withdrawal of every
\* request the grant records.
THEOREM WithdrawnGivesNobodyAlways == Spec => WithdrawnGivesNobody
<1>1. IInv /\ KeepInv /\ KeepInv' /\ [Next]_vars =>
        [\A i \in Item, r \in Request :
           /\ withdrawals[r].requester /\ r \notin handled
           /\ r \in grants'[i].requests
           => ResolveOwners(grants[i])' \subseteq ResolveOwners(grants[i])]_vars
  <2> SUFFICES ASSUME IInv, KeepInv, KeepInv', Next, NEW i \in Item, NEW r \in Request,
                      withdrawals[r].requester, r \notin handled, r \in grants'[i].requests
               PROVE  ResolveOwners(grants[i])' \subseteq ResolveOwners(grants[i])
    OBVIOUS
  <2>1. Granted(i, r) /\ TypeOK
    BY OnlyGrantsRecord DEF IInv
  <2>2. GrantGroups(r) = {}
    BY DEF GrantGroups
  <2>3. /\ grants'[i].requests \subseteq grants[i].requests \cup {r} /\ grants'[i].requests \subseteq Request
        /\ grants'[i].manual = grants[i].manual /\ grants'[i].groups = grants[i].groups
        /\ UNCHANGED members
    BY <2>1, <2>2 DEF Granted, MakeGrant, TypeOK, Grant, households
  <2>4. \A x \in grants'[i].requests : withdrawals[x].requester => withdrawals'[x].requester
    <3>1. withdrawals' = PruneWithdrawals(withdrawals, grants', handled')
      BY <2>1 DEF Granted
    <3>2. \A x \in grants'[i].requests : x \in Request /\ RecordedIn(grants', x)
      BY <2>3 DEF RecordedIn
    <3> QED BY <3>1, <3>2 DEF PruneWithdrawals
  <2> QED BY <2>3, <2>4 DEF ResolveOwners, OwnersBy
<1> QED BY <1>1, Invariant, KeptInvariant, PTL DEF Spec, WithdrawnGivesNobody
=============================================================================
