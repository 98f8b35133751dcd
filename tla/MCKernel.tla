------------------------------ MODULE MCKernel ------------------------------
(* Small instances of what the Kernel does between a task and the project's *)
(* branch, checked side by side: the workspace a task is done in, the       *)
(* change request it becomes, and the database all of it is kept in.  A     *)
(* behaviour is one of "part", and leaves the variables of the others alone.*)
EXTENDS TaskWorkspace, ChangeRequests, SchemaMigration, TLC

CONSTANTS ag, sl, d1, d2

VARIABLE part

\* One task whose agent sits in the only slot, a promotion by hand, and reviews of two dimensions.
Seated == {[x \in {ag} |-> sl]}

all == <<part, workspaceVars, crVars, migrationVars>>

MCInit ==
  /\ part \in {"workspace", "changes", "reviews", "database"} /\ Init /\ InitChanges /\ InitDatabase
  /\ part # "database" => version = 0

\* Two revisions where what is done for one dimension of a review is done for the other next; else one.
Uneven == {r \in Tasks \X Rev : LET s == reviewSlot[r[1]][r[2]] IN s[d1] # s[d2]}
Halved == \E t \in Tasks, r \in Rev : work[t][r][d1] # work[t][r][d2]
AtOnce == /\ Uneven # {} => Uneven' = {}
          /\ \A r \in Uneven' : reviewSlot'[r[1]][r[2]][d2] = reviewSlot[r[1]][r[2]][d2]
          /\ \A t \in Tasks, r \in Rev : work'[t][r][d2] # "none" => work[t][r][d1] # "none"
          /\ Halved' => coord' # NoCoord \/ coord = NoCoord
OneRevision == \A t \in Tasks : Tip(t) <= 1

MCNext ==
  /\ UNCHANGED part
  /\ \/ part = "workspace" /\ Next /\ UNCHANGED <<crVars, migrationVars>>
     \/ part = "changes" /\ ChangeNext /\ AtOnce /\ UNCHANGED <<workspaceVars, migrationVars>>
     \/ part = "reviews" /\ ChangeNext /\ OneRevision' /\ UNCHANGED <<workspaceVars, migrationVars>>
     \/ part = "database" /\ DatabaseNext /\ UNCHANGED <<workspaceVars, crVars>>

MCSpec == MCInit /\ [][MCNext]_all

ClaimSymmetry == Permutations(Claim)
=============================================================================
