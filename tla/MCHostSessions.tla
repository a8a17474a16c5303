----------------------------- MODULE MCHostSessions -----------------------------
(***************************************************************************)
(* Two households that share a member and one that has none.  The member's *)
(* token comes alone, or with another that Jellyfin does not read; the     *)
(* other alone only signs out, and makes room for itself.                  *)
(***************************************************************************)
EXTENDS HostSessions, TLC

CONSTANTS t1, t2, u1, u2, h1, h2, h3

MCCred == {<<t1>>, <<t1, t2>>, <<t2>>}
MCOwnerOf == t1 :> u1 @@ t2 :> u2
MCMembers == h1 :> {u1} @@ h2 :> {u1} @@ h3 :> {}

\* The two households of the member are alike.
Alike == Permutations(Request) \cup Permutations({h1, h2})

(* Bounds *)

Of(kind) == {r \in Request : request[r].kind = kind}

\* An app call and two sign-outs of the token alone, or a sign-out and a relayed request; one session
\* kept at a time, and one request asking whose its token is.
Signing ==
  /\ closing = "no"
  /\ Of("socket") = {} /\ Cardinality(Of("app") \cup Of("relay")) <= 1
  /\ \A r \in Of("relay") : request[r].home = h3 /\ request[r].cred = <<t1>>
  /\ \A r \in Of("app") : request[r].home # h3 /\ request[r].cred # <<t2>>
  /\ \A r \in Of("signOut") : request[r].cred = <<t2>> => request[r].home # h3 /\ request[r].read \in {"none", "failed"}
  /\ \A r \in Of("signOut") : request[r].home = h3 => request[r].cred = <<t1>>
  /\ Cardinality(Of("signOut")) > 1 =>
       Of("relay") = {} /\ \A r \in Of("signOut") : request[r].home # h3 /\ request[r].cred = <<t1>>
  /\ Cardinality(kept) <= 1
  /\ Cardinality({r \in Request : request[r].at \in {"asked", "told"} /\ request[r].kind # "app"}) <= 1

\* WebSockets and one relayed request, closed down.
Closing ==
  /\ \A r \in Request : request[r].cred # <<t2>>
  /\ Of("signOut") = {} /\ Of("app") = {}
  /\ Cardinality(Of("relay")) <= 1
  /\ valid = Token /\ signedOut = <<>> /\ kept = {} /\ late = {}

Explored == Signing \/ Closing
================================================================================
