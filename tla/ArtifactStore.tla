--------------------------- MODULE ArtifactStore ----------------------------
(***************************************************************************)
(* What gorbage promises to its users, without the sessions, bitmaps,      *)
(* parts and handlers it is made of: under every key there is either       *)
(* nothing or the whole artifact of one push, a push that was reported as  *)
(* successful has been stored, and once it was reported it does not write  *)
(* again.  A push that was reported as failed may still take effect later. *)
(***************************************************************************)
CONSTANTS
  Uploads,   \* the pushes
  Keys,      \* the names under which artifacts are stored
  Target,    \* the key a push writes to
  Empty,     \* the pushes of an empty file, which store nothing
  Below,     \* the keys that lie under a name, which is one of them
  None       \* no artifact under a key

VARIABLES
  artifact,  \* the push whose content a key holds
  outcome,   \* what the user of a push has been told
  committed  \* the pushes whose content was ever stored

vars == <<artifact, outcome, committed>>

Init ==
  /\ artifact = [k \in Keys |-> None]
  /\ outcome = [u \in Uploads |-> "new"]
  /\ committed = {}

Start(u) ==
  /\ outcome[u] = "new"
  /\ outcome' = [outcome EXCEPT ![u] = "pending"]
  /\ UNCHANGED <<artifact, committed>>

\* The content of a push appears under its key, all at once.  Nothing orders
\* this with respect to the failure of the push.
Commit(u) ==
  /\ u \notin Empty
  /\ outcome[u] \in {"pending", "failed"}
  /\ artifact' = [artifact EXCEPT ![Target[u]] = u]
  /\ committed' = committed \union {u}
  /\ UNCHANGED outcome

Succeed(u) ==
  /\ outcome[u] = "pending"
  /\ u \in committed \union Empty
  /\ outcome' = [outcome EXCEPT ![u] = "stored"]
  /\ UNCHANGED <<artifact, committed>>

Fail(u) ==
  /\ outcome[u] \in {"new", "pending"}
  /\ outcome' = [outcome EXCEPT ![u] = "failed"]
  /\ UNCHANGED <<artifact, committed>>

\* A name is removed with everything under it.
Remove(k) ==
  /\ artifact' = [j \in Keys |-> IF j \in Below[k] THEN None ELSE artifact[j]]
  /\ UNCHANGED <<outcome, committed>>

Next ==
  \/ \E u \in Uploads : Start(u) \/ Commit(u) \/ Succeed(u) \/ Fail(u)
  \/ \E k \in Keys : Remove(k)

Spec == Init /\ [][Next]_vars
=============================================================================
