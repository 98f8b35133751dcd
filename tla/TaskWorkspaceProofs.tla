------------------------- MODULE TaskWorkspaceProofs -------------------------
(***************************************************************************)
(* Theorems about TaskWorkspace and SchemaMigration for every value of     *)
(* their constants.  The order is: which handler writes which variable,    *)
(* types, what a handler knows at each of its steps, and from there what a *)
(* completion is worth, who reviews it, and what authority is left when it *)
(* is over; then the database that keeps all of it, and what an upgrade of *)
(* it leaves, however it was cut off.                                      *)
(***************************************************************************)
EXTENDS TaskWorkspace, SchemaMigration, FiniteSetTheorems, TLAPS

Steps == {"-", "lease", "grant", "token", "row", "tree", "task", "review", "fence"}

Finishing == call.op \in {"release", "finalize"}

\* What the type invariant leaves open: the handler's record, and that authority is numbered.
CallTyped ==
  /\ call \in [op: {"idle", "provision", "undo", "release", "finalize", "complete"}, step: Steps,
               task: Task \cup {Null}, claim: Claim \cup {Null}, base: Commit, grant: 0 .. MaxTry]
  /\ grants \in [Task -> SUBSET Nat] /\ tokens \in [Task -> SUBSET Nat]
  /\ \A t \in Task : lease[t].status = "active" => lease[t].epoch >= 1

\* What a handler knows at each of its steps.
CallShape ==
  /\ call.op = "idle" => call = NoCall
  /\ call.op # "idle" => call.task \in Task
  /\ call.op \in {"provision", "undo"} => row[call.task].status = "none"
  /\ call.op = "provision" =>
       /\ call.step \in {"lease", "grant", "token", "row"}
       /\ call.step \in {"lease", "grant"} => call.grant = 0 /\ made[call.task] < MaxTry
       /\ call.step # "lease" => lease[call.task].epoch >= 1
       /\ call.step \in {"token", "row"} => call.grant \in 1 .. made[call.task]
  /\ call.op = "undo" => call.step \in {"grant", "lease", "tree"}
  /\ call.op = "complete" =>
       /\ call.step \in {"task", "review"} /\ call.claim \in Claim
       /\ claim[call.claim].status = "verified" /\ claim[call.claim].task = call.task
       /\ call.step = "review" => done[call.task] = call.claim
  /\ Finishing => call.step \in {"lease", "fence", "tree", "row"} /\ row[call.task].status # "none"

\* A claim is made in a workspace, and a workspace has its row for good.
ClaimsHaveRows ==
  \A c \in Claim : claim[c].status # "none" =>
    claim[c].task \in Task /\ row[claim[c].task].status # "none"

VerifiedIsEarned ==
  \A c \in Claim : claim[c].status = "verified" =>
    LET r == row[claim[c].task] IN
    /\ claim[c].epoch = r.epoch /\ claim[c].commit # r.base
    /\ claim[c].commit # Null /\ Descends(claim[c].commit, r.base)

DoneIsVerified ==
  \A t \in Task : done[t] # Null => claim[done[t]].status = "verified" /\ claim[done[t]].task = t

HandedOver ==
  up => \A t \in OrgTask : done[t] # Null /\ done[t] \notin review =>
          call.op = "complete" /\ call.step = "review" /\ call.task = t

LeaseIsOver(t) == lease[t].epoch = row[t].epoch => lease[t].status # "active"
GrantIsGone(t) == row[t].grant \notin grants[t] \cup tokens[t]

\* The lease ends before the grant is revoked, and both before the clean-up touches the worktree.
Fenced ==
  /\ \A t \in answered : row[t].status # "none" /\ LeaseIsOver(t) /\ GrantIsGone(t)
  /\ Finishing /\ call.step = "fence" => LeaseIsOver(call.task)
  /\ call.op = "finalize" /\ call.step \in {"tree", "row"} =>
       LeaseIsOver(call.task) /\ GrantIsGone(call.task)

\* While gamd never stopped, authority without a row is that of the attempt under way, and its
\* undoing takes back one thing after the other.
Attempting(t) == call.op \in {"provision", "undo"} /\ call.task = t
NothingLeft(t) ==
  /\ IF Attempting(t) THEN grants[t] \subseteq {call.grant} /\ tokens[t] \subseteq {call.grant}
                      ELSE grants[t] \cup tokens[t] \subseteq IF row[t].status = "none" THEN {} ELSE {row[t].grant}
  /\ Attempting(t) /\ call.op = "undo" => tokens[t] = {} /\ (call.step # "grant" => grants[t] = {})
  /\ row[t].status = "none" /\ Held(t) =>
       /\ Attempting(t)
       /\ call.op = "provision" => call.step # "lease"
       /\ call.op = "undo" => call.step # "tree"
NoLeftovers == crashes = 0 => \A t \in Task : NothingLeft(t)

IInv == /\ TypeOK /\ CallTyped /\ CallShape /\ ClaimsHaveRows /\ VerifiedIsEarned
        /\ DoneIsVerified /\ HandedOver /\ Fenced /\ NoLeftovers

-----------------------------------------------------------------------------
(* Which handler writes which variable *)

LEMMA WhoWrites ==
  ASSUME [Next]_workspaceVars
  PROVE  /\ row' = row \/ ProvisionRow \/ RowReleased
         /\ claim' = claim \/ \E c \in Claim : \/ \E t \in Task : SubmitClaim(c, t)
                                               \/ RegisterArtifact(c) \/ VerifyClaim(c)
         /\ done' = done \/ CompleteTask
         /\ review' = review \/ HandOver \/ Startup
         /\ answered' = answered \/ RemoveTree \/ RowReleased \/ Fence
         /\ \/ lease' = lease \/ ProvisionLease \/ UndoLease \/ EndLease
            \/ \E t \in Task : TimePasses(t) \/ RenewLease(t) \/ SuspendSlot(t)
            \/ \E c \in Claim : RegisterArtifact(c)
         /\ \/ UNCHANGED <<grants, tokens>> \/ ProvisionGrant \/ ProvisionToken \/ ProvisionFails
            \/ UndoGrant \/ Fence \/ \E t \in Task : SuspendSlot(t)
         /\ made' = made \/ ProvisionGrant
         /\ UNCHANGED <<up, crashes>> \/ Crash \/ Startup
         /\ Smoothly \/ Trouble
         /\ trunk' = trunk \/ TrunkMoves
         /\ file' = file \/ FileChanges
         /\ slotOn' = slotOn \/ \E t \in Task : SuspendSlot(t) \/ ResumeSlot(t)
         /\ \/ git' = git \/ UndoTree \/ RemoveTree
            \/ \E t \in Task : Works(t) \/ TreeForgotten(t) \/ Provision(t)
         /\ \/ UNCHANGED <<call, row, made, done, answered>> \/ ProvisionLease \/ ProvisionGrant \/ ProvisionToken \/ ProvisionRow
            \/ ProvisionFails \/ UndoGrant \/ UndoLease \/ UndoTree \/ CompleteTask \/ HandOver
            \/ RemoveTree \/ RowReleased \/ EndLease \/ Fence \/ Crash
            \/ \E t \in Task : Provision(t) \/ ReleaseTaskWorkspace(t)
            \/ \E c \in Claim : VerifyClaim(c)
<1> USE DEF workspaceVars, evidenceVars, authorityVars, processVars, processCounts, taskVars, Smoothly
<1>1. CASE AgentStep
  BY <1>1 DEF AgentStep, Works, TreeForgotten, TimePasses, RenewLease, SuspendSlot, ResumeSlot, SubmitClaim
<1>2. CASE OtherStep
  BY <1>2 DEF OtherStep, TrunkMoves, FileChanges, RegisterArtifact
<1>3. CASE ProvisionStep
  BY <1>3 DEF ProvisionStep, Provision, ProvisionLease, ProvisionGrant, ProvisionToken, ProvisionRow,
     ProvisionFails, UndoGrant, UndoLease, UndoTree
<1>4. CASE FinishStep
  BY <1>4 DEF FinishStep, VerifyClaim, CompleteTask, HandOver, ReleaseTaskWorkspace, RemoveTree,
     RowReleased, EndLease, Fence
<1>5. CASE Crash \/ Startup \/ UNCHANGED workspaceVars
  BY <1>5 DEF Crash, Startup
<1> QED
  BY <1>1, <1>2, <1>3, <1>4, <1>5 DEF Next

-----------------------------------------------------------------------------
(* Types *)

Typed == TypeOK /\ CallTyped /\ CallShape

LEMMA InitHolds == Init => IInv
<1> SUFFICES ASSUME Init PROVE IInv
  OBVIOUS
<1> USE WorkspaceAssumption DEF Init, NoLease, NoRow, NoClaim, NoCall
<1>1. TypeOK
  BY DEF TypeOK, Commit, Tree, Due
<1>2. CallTyped /\ CallShape
  BY DEF CallTyped, CallShape, Steps, Commit, Finishing
<1>3. ClaimsHaveRows /\ VerifiedIsEarned /\ DoneIsVerified /\ HandedOver /\ Fenced
  BY DEF ClaimsHaveRows, VerifiedIsEarned, DoneIsVerified, HandedOver, Fenced, Finishing
<1>4. NoLeftovers
  BY DEF NoLeftovers, NothingLeft, Attempting, Held
<1> QED
  BY <1>1, <1>2, <1>3, <1>4 DEF IInv


LeaseRow == [epoch: Nat, status: {"none", "active", "released", "expired"}, due: Due]

\* Agents and git: the branch and the worktree.
LEMMA GitTyped ==
  ASSUME Typed, [Next]_workspaceVars
  PROVE  git' \in [Task -> [branch: Commit \cup {Null}, tree: Tree]]
<1>a. git \in [Task -> [branch: Commit \cup {Null}, tree: Tree]] /\ trunk \in 0 .. MaxTrunk
  BY DEF Typed, TypeOK
<1>b. /\ <<trunk, 0>> \in Commit /\ <<0, 0>> \in Commit
      /\ \A n \in 0 .. MaxWork : <<trunk, n>> \in Commit
  BY <1>a, WorkspaceAssumption DEF Commit
<1>c. {"none", "clean", "dirty", "stray"} = Tree
  BY DEF Tree
<1>d. ASSUME NEW t \in Task, NEW b \in Commit \cup {Null}, NEW tree \in Tree,
             git' = [git EXCEPT ![t] = [branch |-> b, tree |-> tree]]
      PROVE  git' \in [Task -> [branch: Commit \cup {Null}, tree: Tree]]
  BY <1>a, <1>d
<1>e. ASSUME NEW t, NEW tree \in Tree, git' = [git EXCEPT ![t].tree = tree]
      PROVE  git' \in [Task -> [branch: Commit \cup {Null}, tree: Tree]]
  BY <1>a, <1>e
<1>f. ASSUME NEW t, NEW b \in Commit, git' = [git EXCEPT ![t].branch = b]
      PROVE  git' \in [Task -> [branch: Commit \cup {Null}, tree: Tree]]
  BY <1>a, <1>f
<1>1. ASSUME NEW t \in Task, Works(t) PROVE git' \in [Task -> [branch: Commit \cup {Null}, tree: Tree]]
  <2>1. CASE git' = [git EXCEPT ![t].tree = "dirty"]
    BY <2>1, <1>c, <1>e
  <2>2. CASE git' # [git EXCEPT ![t].tree = "dirty"]
    <3> PICK c \in Commit : git' = [git EXCEPT ![t] = [branch |-> c, tree |-> "clean"]]
      BY <1>1, <2>2, <1>b DEF Works
    <3> QED
      BY <1>c, <1>d
  <2> QED
    BY <2>1, <2>2
<1>2. ASSUME NEW t \in Task, TreeForgotten(t) PROVE git' \in [Task -> [branch: Commit \cup {Null}, tree: Tree]]
  BY <1>2, <1>c, <1>e DEF TreeForgotten
<1>3. ASSUME NEW t \in Task, Provision(t) PROVE git' \in [Task -> [branch: Commit \cup {Null}, tree: Tree]]
  <2>1. CASE git' = git
    BY <2>1, <1>a
  <2>2. CASE git' = [git EXCEPT ![t].branch = <<trunk, 0>>]
    BY <2>2, <1>b, <1>f
  <2>3. CASE git' = [git EXCEPT ![t] = [branch |-> <<trunk, 0>>, tree |-> "clean"]]
    BY <2>3, <1>b, <1>c, <1>d
  <2> QED
    BY <1>3, <2>1, <2>2, <2>3 DEF Provision
<1>4. CASE UndoTree \/ RemoveTree
  BY <1>4, <1>a, <1>c, <1>e DEF UndoTree, RemoveTree
<1> QED
  BY <1>a, <1>1, <1>2, <1>3, <1>4, WhoWrites

\* The epoch of a lease never falls, and an active lease has one.
LEMMA LeaseTyped ==
  ASSUME Typed, [Next]_workspaceVars
  PROVE  /\ lease' \in [Task -> LeaseRow]
         /\ \A t \in Task : /\ lease'[t].epoch >= lease[t].epoch
                            /\ lease'[t].status = "active" => lease'[t].epoch >= 1
<1> DEFINE Good == /\ lease' \in [Task -> LeaseRow]
                   /\ \A t \in Task : /\ lease'[t].epoch >= lease[t].epoch
                                      /\ lease'[t].status = "active" => lease'[t].epoch >= 1
<1>a. /\ lease \in [Task -> LeaseRow]
      /\ \A t \in Task : lease[t].status = "active" => lease[t].epoch >= 1
  BY DEF Typed, TypeOK, CallTyped, LeaseRow
<1>b. ASSUME NEW t \in Task, NEW s \in {"released", "expired"}, lease' = [lease EXCEPT ![t].status = s]
      PROVE  Good
  BY <1>a, <1>b DEF LeaseRow
<1>c. ASSUME NEW t \in Task, NEW d \in Due, lease' = [lease EXCEPT ![t].due = d]
      PROVE  Good
  BY <1>a, <1>c DEF LeaseRow
<1>d. CASE lease' = lease
  BY <1>a, <1>d DEF LeaseRow
<1>e. ASSUME NEW t \in Task, lease' = Released(t) PROVE Good
  BY <1>a, <1>e DEF Released, LeaseRow
<1>f. call.op # "idle" => call.task \in Task
  BY DEF Typed, CallShape
<1>g. "ahead" \in Due /\ "past" \in Due /\ "never" \in Due
  BY DEF Due
<1>1. CASE ProvisionLease
  <2>1. call.task \in Task
    BY <1>1, <1>f DEF ProvisionLease, AtStep
  <2>2. CASE lease' = [lease EXCEPT ![call.task] = [epoch |-> @.epoch + 1, status |-> "active", due |-> "never"]]
    BY <2>1, <2>2, <1>a, <1>g DEF LeaseRow
  <2> QED
    BY <1>1, <1>d, <2>2 DEF ProvisionLease
<1>2. CASE UndoLease \/ EndLease
  <2>1. call.task \in Task
    BY <1>2, <1>f DEF UndoLease, EndLease, AtStep
  <2> QED
    BY <1>2, <2>1, <1>d, <1>e DEF UndoLease, EndLease
<1>3. ASSUME NEW t \in Task, TimePasses(t) \/ RenewLease(t) \/ SuspendSlot(t) PROVE Good
  BY <1>3, <1>c, <1>e, <1>g DEF TimePasses, RenewLease, SuspendSlot
<1>4. ASSUME NEW c \in Claim, RegisterArtifact(c) PROVE Good
  <2>1. claim[c].task \in Task \/ lease' = lease \/ lease' = [lease EXCEPT ![claim[c].task].status = "expired"]
    BY <1>4 DEF RegisterArtifact
  <2>2. CASE claim[c].task \notin Task /\ lease' # lease
    <3>1. lease' = [lease EXCEPT ![claim[c].task].status = "expired"]
      BY <2>1, <2>2
    <3> QED
      BY <3>1, <2>2, <1>a, <1>d DEF LeaseRow
  <2> QED
    BY <1>4, <2>2, <1>b, <1>d DEF RegisterArtifact
<1> QED
  BY <1>d, <1>1, <1>2, <1>3, <1>4, WhoWrites

\* A grant is one that was issued, and no number is issued twice.
LEMMA GrantsTyped ==
  ASSUME Typed, [Next]_workspaceVars
  PROVE  /\ made' \in [Task -> 0 .. MaxTry] /\ \A t \in Task : made'[t] >= made[t]
         /\ grants' \in [Task -> SUBSET Nat] /\ tokens' \in [Task -> SUBSET Nat]
         /\ \A t \in Task : grants'[t] \cup tokens'[t] \subseteq 1 .. made'[t]
<1> DEFINE Good == /\ made' \in [Task -> 0 .. MaxTry] /\ \A t \in Task : made'[t] >= made[t]
                   /\ grants' \in [Task -> SUBSET Nat] /\ tokens' \in [Task -> SUBSET Nat]
                   /\ \A t \in Task : grants'[t] \cup tokens'[t] \subseteq 1 .. made'[t]
<1>a. /\ made \in [Task -> 0 .. MaxTry] /\ MaxTry \in Nat
      /\ grants \in [Task -> SUBSET Nat] /\ tokens \in [Task -> SUBSET Nat]
      /\ \A t \in Task : grants[t] \cup tokens[t] \subseteq 1 .. made[t]
  BY WorkspaceAssumption DEF Typed, TypeOK, CallTyped
<1>b. call.op # "idle" => call.task \in Task
  BY DEF Typed, CallShape
<1>1. CASE ProvisionGrant
  <2>1. call.task \in Task /\ made[call.task] < MaxTry /\ tokens' = tokens
    BY <1>1, <1>b DEF ProvisionGrant, AtStep, Typed, CallShape
  <2>2. /\ made' = [made EXCEPT ![call.task] = @ + 1]
        /\ grants' = [grants EXCEPT ![call.task] = @ \cup {made[call.task] + 1}]
    BY <1>1 DEF ProvisionGrant
  <2> QED
    BY <2>1, <2>2, <1>a
<1>2. CASE ProvisionToken
  <2>1. call.task \in Task /\ call.grant \in 1 .. made[call.task]
    BY <1>2, <1>b DEF ProvisionToken, AtStep, Typed, CallShape
  <2>2. tokens' = [tokens EXCEPT ![call.task] = @ \cup {call.grant}] /\ made' = made /\ grants' = grants
    BY <1>2 DEF ProvisionToken
  <2> QED
    BY <2>1, <2>2, <1>a
<1>3. CASE ProvisionFails \/ UndoGrant \/ Fence \/ \E t \in Task : SuspendSlot(t)
  <2>1. made' = made
    BY <1>3 DEF ProvisionFails, UndoGrant, Fence, SuspendSlot
  <2>2. /\ grants' \in [Task -> SUBSET Nat] /\ tokens' \in [Task -> SUBSET Nat]
        /\ \A t \in Task : grants'[t] \subseteq grants[t] /\ tokens'[t] \subseteq tokens[t]
    BY <1>3, <1>a DEF ProvisionFails, UndoGrant, Fence, SuspendSlot
  <2> QED
    BY <2>1, <2>2, <1>a
<1>4. CASE UNCHANGED <<made, grants, tokens>>
  BY <1>4, <1>a
<1>5. ProvisionGrant \/ made' = made
  BY WhoWrites
<1> QED
  BY <1>1, <1>2, <1>3, <1>4, <1>5, WhoWrites

RowRow == [status: {"none", "active", "released"}, base: Commit, epoch: Nat, grant: 0 .. MaxTry]

\* A row is written once: afterwards only its status changes, and it keeps its lease and its grant.
LEMMA RowTyped ==
  ASSUME Typed, [Next]_workspaceVars
  PROVE  /\ row' \in [Task -> RowRow]
         /\ \A t \in Task : row'[t].status # "none" => /\ row'[t].epoch \in 1 .. lease'[t].epoch
                                                       /\ row'[t].grant \in 1 .. made'[t]
         /\ \A t \in Task : row[t].status # "none" =>
              /\ row'[t].status # "none" /\ row'[t].base = row[t].base
              /\ row'[t].epoch = row[t].epoch /\ row'[t].grant = row[t].grant
<1>a. /\ row \in [Task -> RowRow] /\ lease \in [Task -> LeaseRow] /\ made \in [Task -> 0 .. MaxTry]
      /\ \A t \in Task : row[t].status # "none" => /\ row[t].epoch \in 1 .. lease[t].epoch
                                                   /\ row[t].grant \in 1 .. made[t]
  BY DEF Typed, TypeOK, RowRow, LeaseRow
<1>b. /\ lease' \in [Task -> LeaseRow] /\ \A t \in Task : lease'[t].epoch >= lease[t].epoch
      /\ made' \in [Task -> 0 .. MaxTry] /\ \A t \in Task : made'[t] >= made[t]
  BY LeaseTyped, GrantsTyped
<1>c. \A t \in Task : /\ lease[t].epoch \in Nat /\ lease'[t].epoch \in Nat
                      /\ made[t] \in Nat /\ made'[t] \in Nat
  BY <1>a, <1>b DEF LeaseRow
<1>d. \A t \in Task : row[t].status # "none" => /\ row[t].epoch \in 1 .. lease'[t].epoch
                                                /\ row[t].grant \in 1 .. made'[t]
  BY <1>a, <1>b, <1>c
<1>1. CASE row' = row
  BY <1>1, <1>a, <1>d
<1>2. CASE ProvisionRow
  <2> DEFINE t == call.task
             new == [status |-> "active", base |-> call.base, epoch |-> lease[t].epoch, grant |-> call.grant]
  <2>1. call.op = "provision" /\ call.step = "row"
    BY <1>2 DEF ProvisionRow, AtStep
  <2>2. /\ t \in Task /\ row[t].status = "none" /\ lease[t].epoch >= 1 /\ call.grant \in 1 .. made[t]
        /\ call.base \in Commit /\ call.grant \in 0 .. MaxTry
    BY <2>1 DEF Typed, CallShape, CallTyped
  <2>3. row' = [row EXCEPT ![t] = new] /\ lease' = lease /\ made' = made
    BY <1>2 DEF ProvisionRow, authorityVars
  <2>4. new \in RowRow
    BY <2>2, <1>c DEF RowRow
  <2>5. new.epoch \in 1 .. lease[t].epoch /\ new.grant \in 1 .. made[t]
    BY <2>2, <1>c
  <2>6. row' \in [Task -> RowRow]
    BY <2>2, <2>3, <2>4, <1>a
  <2>7. row'[t] = new /\ \A u \in Task : u # t => row'[u] = row[u]
    BY <2>2, <2>3, <1>a
  <2> HIDE DEF new
  <2> QED
    BY <2>2, <2>3, <2>5, <2>6, <2>7, <1>a
<1>3. CASE RowReleased
  <2>1. row' = [row EXCEPT ![call.task].status = "released"]
    BY <1>3 DEF RowReleased
  <2>2. /\ row' \in [Task -> RowRow]
        /\ \A t \in Task : /\ row'[t].base = row[t].base /\ row'[t].epoch = row[t].epoch
                           /\ row'[t].grant = row[t].grant
                           /\ row[t].status # "none" => row'[t].status # "none"
    BY <2>1, <1>a DEF RowRow
  <2>3. call.task \in Task /\ row[call.task].status # "none"
    BY <1>3 DEF RowReleased, Typed, CallShape, Finishing
  <2>4. \A t \in Task : row'[t].status # "none" => row[t].status # "none"
    BY <2>1, <2>3, <1>a
  <2> QED
    BY <2>2, <2>4, <1>d
<1> QED
  BY <1>1, <1>2, <1>3, WhoWrites

ClaimRow == [status: {"none", "submitted", "verified", "rejected"}, task: Task \cup {Null},
             commit: Commit \cup {Null}, epoch: Nat, file: {0, 1, Null}]

\* A claim is made once, of one task; a verdict is passed once.
LEMMA ClaimTyped ==
  ASSUME Typed, [Next]_workspaceVars
  PROVE  /\ claim' \in [Claim -> ClaimRow]
         /\ \A c \in Claim :
              /\ claim[c].status # "none" =>
                   /\ claim'[c].status # "none" /\ claim'[c].task = claim[c].task
                   /\ claim'[c].commit = claim[c].commit /\ claim'[c].epoch = claim[c].epoch
              /\ claim[c].status \in {"verified", "rejected"} => claim'[c].status = claim[c].status
<1> DEFINE Good == /\ claim' \in [Claim -> ClaimRow]
                   /\ \A c \in Claim :
                        /\ claim[c].status # "none" =>
                             /\ claim'[c].status # "none" /\ claim'[c].task = claim[c].task
                             /\ claim'[c].commit = claim[c].commit /\ claim'[c].epoch = claim[c].epoch
                        /\ claim[c].status \in {"verified", "rejected"} => claim'[c].status = claim[c].status
<1>a. /\ claim \in [Claim -> ClaimRow] /\ file \in {0, 1}
      /\ lease \in [Task -> LeaseRow] /\ git \in [Task -> [branch: Commit \cup {Null}, tree: Tree]]
  BY DEF Typed, TypeOK, ClaimRow, LeaseRow
<1>1. ASSUME NEW c \in Claim, NEW t \in Task, SubmitClaim(c, t) PROVE Good
  <2>1. PICK k \in {git[t].branch, <<0, 0>>, Null} :
          claim' = [claim EXCEPT ![c] = [status |-> "submitted", task |-> t, commit |-> k,
                                         epoch |-> lease[t].epoch, file |-> Null]]
    BY <1>1 DEF SubmitClaim
  <2>2. k \in Commit \cup {Null}
    BY <1>a, WorkspaceAssumption DEF Commit
  <2>3. [status |-> "submitted", task |-> t, commit |-> k, epoch |-> lease[t].epoch, file |-> Null] \in ClaimRow
    BY <2>2, <1>a DEF ClaimRow, LeaseRow
  <2>4. claim[c].status = "none"
    BY <1>1 DEF SubmitClaim
  <2> QED
    BY <2>1, <2>3, <2>4, <1>a
<1>2. ASSUME NEW c \in Claim, RegisterArtifact(c) PROVE Good
  <2>1. CASE claim' = claim
    BY <2>1, <1>a
  <2>2. CASE claim' = [claim EXCEPT ![c].file = file]
    BY <2>2, <1>a DEF ClaimRow
  <2> QED
    BY <1>2, <2>1, <2>2 DEF RegisterArtifact
<1>3. ASSUME NEW c \in Claim, VerifyClaim(c) PROVE Good
  <2>1. PICK s \in {"none", "submitted", "verified", "rejected"} :
          /\ claim' = [claim EXCEPT ![c].status = s]
          /\ claim[c].status # "none" => s # "none"
          /\ claim[c].status # "submitted" => s = claim[c].status
    <3> DEFINE verdict == IF claim[c].status # "submitted" THEN claim[c].status
                          ELSE IF Passes(c) THEN "verified" ELSE "rejected"
    <3>1. claim' = [claim EXCEPT ![c].status = verdict]
      BY <1>3 DEF VerifyClaim
    <3>2. verdict \in {"none", "submitted", "verified", "rejected"}
      BY <1>a DEF ClaimRow
    <3> QED
      BY <3>1, <3>2
  <2> QED
    BY <2>1, <1>a DEF ClaimRow
<1>4. CASE claim' = claim
  BY <1>4, <1>a
<1> QED
  BY <1>1, <1>2, <1>3, <1>4, WhoWrites

CallRow == [op: {"idle", "provision", "undo", "release", "finalize", "complete"}, step: Steps,
            task: Task \cup {Null}, claim: Claim \cup {Null}, base: Commit, grant: 0 .. MaxTry]

\* The handler under way goes from one step to the next, on the same task.
Goes(o1, s1, o2, s2) ==
  /\ call.op = o1 /\ call.step = s1 /\ call'.op = o2 /\ call'.step = s2
  /\ call'.task = call.task /\ call'.claim = call.claim
Over == call'.op = "idle"

LEMMA CallMoves ==
  ASSUME call \in CallRow
  PROVE  /\ ProvisionLease => Goes("provision", "lease", "provision", "grant") /\ call'.grant = call.grant
         /\ ProvisionGrant => Goes("provision", "grant", "provision", "token")
                              /\ call'.grant = made[call.task] + 1
         /\ ProvisionToken => Goes("provision", "token", "provision", "row") /\ call'.grant = call.grant
         /\ ProvisionRow => call.op = "provision" /\ call.step = "row" /\ Over
         /\ ProvisionFails => /\ Goes("provision", call.step, "undo", call'.step) /\ call'.grant = call.grant
                              /\ call'.step = IF call.step = "lease" THEN "tree" ELSE "grant"
         /\ UndoGrant => Goes("undo", "grant", "undo", "lease") /\ call'.grant = call.grant
         /\ UndoLease => Goes("undo", "lease", "undo", "tree") /\ call'.grant = call.grant
         /\ UndoTree => call.op = "undo" /\ call.step = "tree" /\ Over
         /\ CompleteTask => /\ call.op = "complete" /\ call.step = "task"
                            /\ \/ Over
                               \/ Goes("complete", "task", "complete", "review")
                               \/ Goes("complete", "task", "finalize", "lease")
         /\ HandOver => Goes("complete", "review", "finalize", "lease")
         /\ RemoveTree => /\ Finishing /\ call.step = "tree"
                          /\ Over \/ Goes(call.op, "tree", call.op, "row")
         /\ RowReleased => /\ Finishing /\ call.step = "row"
                           /\ IF call.op = "finalize" THEN Over ELSE Goes("release", "row", "release", "lease")
         /\ EndLease => /\ Finishing /\ call.step = "lease"
                        /\ Over \/ Goes(call.op, "lease", call.op, "fence")
         /\ Fence => /\ Finishing /\ call.step = "fence"
                     /\ Over \/ Goes("finalize", "fence", "finalize", "tree")
         /\ Crash => Over
         /\ \A t \in Task : Provision(t) =>
              /\ call.op = "idle"
              /\ call' = call \/ (/\ call'.op = "provision" /\ call'.step = "lease" /\ call'.task = t
                                  /\ call'.grant = 0)
         /\ \A t \in Task : ReleaseTaskWorkspace(t) =>
              call.op = "idle" /\ call'.op = "release" /\ call'.step \in {"tree", "lease"} /\ call'.task = t
         /\ \A c \in Claim : VerifyClaim(c) =>
              /\ call.op = "idle"
              /\ Over \/ (/\ call'.op = "complete" /\ call'.step = "task" /\ call'.task = claim[c].task
                          /\ call'.claim = c /\ claim'[c].status = "verified")
<1> USE DEF Goes, Over, CallRow, AtStep, NoCall, Finishing
<1>1. /\ ProvisionLease => Goes("provision", "lease", "provision", "grant") /\ call'.grant = call.grant
      /\ ProvisionGrant => Goes("provision", "grant", "provision", "token")
                           /\ call'.grant = made[call.task] + 1
      /\ ProvisionToken => Goes("provision", "token", "provision", "row") /\ call'.grant = call.grant
  BY DEF ProvisionLease, ProvisionGrant, ProvisionToken
<1>2. /\ ProvisionRow => call.op = "provision" /\ call.step = "row" /\ Over
      /\ ProvisionFails => /\ Goes("provision", call.step, "undo", call'.step) /\ call'.grant = call.grant
                           /\ call'.step = IF call.step = "lease" THEN "tree" ELSE "grant"
  <2>1. ProvisionRow => call.op = "provision" /\ call.step = "row" /\ Over
    BY DEF ProvisionRow
  <2>2. ASSUME ProvisionFails
        PROVE  /\ Goes("provision", call.step, "undo", call'.step) /\ call'.grant = call.grant
               /\ call'.step = IF call.step = "lease" THEN "tree" ELSE "grant"
    <3>1. /\ call.op = "provision"
          /\ call' = [call EXCEPT !.op = "undo", !.step = IF @ = "lease" THEN "tree" ELSE "grant"]
      BY <2>2 DEF ProvisionFails
    <3> QED
      BY <3>1
  <2> QED
    BY <2>1, <2>2
<1>3. /\ UndoGrant => Goes("undo", "grant", "undo", "lease") /\ call'.grant = call.grant
      /\ UndoLease => Goes("undo", "lease", "undo", "tree") /\ call'.grant = call.grant
      /\ UndoTree => call.op = "undo" /\ call.step = "tree" /\ Over
  BY DEF UndoGrant, UndoLease, UndoTree
<1>4. CompleteTask => /\ call.op = "complete" /\ call.step = "task"
                      /\ \/ Over
                         \/ Goes("complete", "task", "complete", "review")
                         \/ Goes("complete", "task", "finalize", "lease")
  <2> SUFFICES ASSUME CompleteTask
               PROVE  \/ Over
                      \/ Goes("complete", "task", "complete", "review")
                      \/ Goes("complete", "task", "finalize", "lease")
    BY DEF CompleteTask
  <2>1. /\ call.op = "complete" /\ call.step = "task"
        /\ \/ call' = NoCall
           \/ call' = [call EXCEPT !.step = "review"]
           \/ call' = [call EXCEPT !.op = "finalize", !.step = "lease"]
    BY DEF CompleteTask
  <2>2. CASE call' = NoCall
    BY <2>2
  <2>3. CASE call' = [call EXCEPT !.step = "review"]
    BY <2>1, <2>3
  <2>4. CASE call' = [call EXCEPT !.op = "finalize", !.step = "lease"]
    BY <2>1, <2>4
  <2> QED
    BY <2>1, <2>2, <2>3, <2>4
<1>5. HandOver => Goes("complete", "review", "finalize", "lease")
  BY DEF HandOver
<1>6. RemoveTree => Finishing /\ call.step = "tree" /\ (Over \/ Goes(call.op, "tree", call.op, "row"))
  BY DEF RemoveTree
<1>7. RowReleased => /\ Finishing /\ call.step = "row"
                     /\ IF call.op = "finalize" THEN Over ELSE Goes("release", "row", "release", "lease")
  BY DEF RowReleased
<1>8. /\ EndLease => Finishing /\ call.step = "lease" /\ (Over \/ Goes(call.op, "lease", call.op, "fence"))
      /\ Fence => Finishing /\ call.step = "fence" /\ (Over \/ Goes("finalize", "fence", "finalize", "tree"))
  BY DEF EndLease, Fence
<1>9. Crash => Over
  BY DEF Crash
<1>10. ASSUME NEW t \in Task, Provision(t)
       PROVE  /\ call.op = "idle"
              /\ call' = call \/ (/\ call'.op = "provision" /\ call'.step = "lease" /\ call'.task = t
                                  /\ call'.grant = 0)
  <2>1. call.op = "idle" /\ (call' = call \/ Provisioning(t))
    BY <1>10 DEF Provision, Ready
  <2> QED
    BY <2>1 DEF Provisioning
<1>11. ASSUME NEW t \in Task, ReleaseTaskWorkspace(t)
       PROVE  call.op = "idle" /\ call'.op = "release" /\ call'.step \in {"tree", "lease"} /\ call'.task = t
  BY <1>11 DEF ReleaseTaskWorkspace, Ready
<1>12. ASSUME NEW c \in Claim, VerifyClaim(c)
       PROVE  /\ call.op = "idle"
              /\ Over \/ (/\ call'.op = "complete" /\ call'.step = "task" /\ call'.task = claim[c].task
                          /\ call'.claim = c /\ claim'[c].status = "verified")
  <2>1. call.op = "idle"
    BY <1>12 DEF VerifyClaim, Ready
  <2>2. call' = NoCall \/ (/\ call' = [NoCall EXCEPT !.op = "complete", !.step = "task", !.task = claim[c].task, !.claim = c]
                           /\ claim'[c].status = "verified")
    BY <1>12 DEF VerifyClaim
  <2>3. CASE call' = NoCall
    BY <2>1, <2>3
  <2>4. ASSUME NEW q, NEW v, v = claim'[c].status, v = "verified", q = claim[c].task,
               call' = [NoCall EXCEPT !.op = "complete", !.step = "task", !.task = q, !.claim = c]
        PROVE  call'.op = "complete" /\ call'.step = "task" /\ call'.task = q /\ call'.claim = c
    BY <2>4
  <2> QED
    BY <2>1, <2>2, <2>3, <2>4
<1> QED
  BY <1>1, <1>2, <1>3, <1>4, <1>5, <1>6, <1>7, <1>8, <1>9, <1>10, <1>11, <1>12

LEMMA CallRowTyped ==
  ASSUME Typed, [Next]_workspaceVars PROVE call' \in CallRow
<1>a. call \in CallRow
  BY DEF Typed, CallTyped, CallRow
<1>b. NoCall \in CallRow
  BY WorkspaceAssumption DEF NoCall, CallRow, Steps, Commit
<1>c. ASSUME NEW s \in Steps, call' = [call EXCEPT !.step = s] PROVE call' \in CallRow
  BY <1>a, <1>c DEF CallRow
<1>d. ASSUME NEW o \in {"undo", "finalize"}, NEW s \in Steps, call' = [call EXCEPT !.op = o, !.step = s]
      PROVE  call' \in CallRow
  BY <1>a, <1>d DEF CallRow
<1>e. /\ "lease" \in Steps /\ "grant" \in Steps /\ "token" \in Steps /\ "row" \in Steps /\ "tree" \in Steps
      /\ "task" \in Steps /\ "review" \in Steps /\ "fence" \in Steps
  BY DEF Steps
<1>f. trunk \in 0 .. MaxTrunk /\ made \in [Task -> 0 .. MaxTry] /\ claim \in [Claim -> ClaimRow]
  BY DEF Typed, TypeOK, ClaimRow
<1>1. CASE ProvisionLease \/ ProvisionToken \/ UndoGrant \/ UndoLease
  BY <1>1, <1>c, <1>e DEF ProvisionLease, ProvisionToken, UndoGrant, UndoLease
<1>2. CASE ProvisionGrant
  <2>1. call.task \in Task /\ made[call.task] < MaxTry
    BY <1>2 DEF ProvisionGrant, AtStep, Typed, CallShape
  <2>2. made[call.task] + 1 \in 0 .. MaxTry
    BY <2>1, <1>f, WorkspaceAssumption
  <2>3. call' = [call EXCEPT !.step = "token", !.grant = made[call.task] + 1]
    BY <1>2 DEF ProvisionGrant
  <2> QED
    BY <2>2, <2>3, <1>a, <1>e DEF CallRow
<1>3. CASE ProvisionFails
  BY <1>3, <1>d, <1>e DEF ProvisionFails
<1>4. CASE CompleteTask \/ HandOver
  BY <1>4, <1>b, <1>c, <1>d, <1>e DEF CompleteTask, HandOver
<1>5. CASE RemoveTree \/ RowReleased \/ EndLease \/ Fence
  BY <1>5, <1>b, <1>c, <1>e DEF RemoveTree, RowReleased, EndLease, Fence
<1>6. CASE ProvisionRow \/ UndoTree \/ Crash
  BY <1>6, <1>b DEF ProvisionRow, UndoTree, Crash
<1>7. ASSUME NEW t \in Task, Provision(t) PROVE call' \in CallRow
  <2>0. <<trunk, 0>> \in Commit
    BY <1>f, WorkspaceAssumption DEF Commit
  <2>1. [NoCall EXCEPT !.op = "provision", !.step = "lease", !.task = t, !.base = <<trunk, 0>>] \in CallRow
    BY <1>b, <1>e, <2>0 DEF CallRow
  <2>2. call' = call \/ Provisioning(t)
    BY <1>7 DEF Provision
  <2> QED
    BY <2>1, <2>2, <1>a DEF Provisioning
<1>8. ASSUME NEW t \in Task, ReleaseTaskWorkspace(t) PROVE call' \in CallRow
  <2>1. \A s \in Steps : [NoCall EXCEPT !.op = "release", !.step = s, !.task = t] \in CallRow
    BY <1>b DEF CallRow
  <2> QED
    BY <1>8, <2>1, <1>e DEF ReleaseTaskWorkspace
<1>9. ASSUME NEW c \in Claim, VerifyClaim(c) PROVE call' \in CallRow
  <2>1. claim[c].task \in Task \cup {Null}
    BY <1>f DEF ClaimRow
  <2>2. [NoCall EXCEPT !.op = "complete", !.step = "task", !.task = claim[c].task, !.claim = c] \in CallRow
    BY <2>1, <1>b, <1>e DEF CallRow
  <2> QED
    BY <1>9, <2>2, <1>b DEF VerifyClaim
<1> QED
  BY <1>a, <1>1, <1>2, <1>3, <1>4, <1>5, <1>6, <1>7, <1>8, <1>9, WhoWrites

\* The counters, the flags and the sets
LEMMA RestTyped ==
  ASSUME Typed, [Next]_workspaceVars
  PROVE  /\ trunk' \in 0 .. MaxTrunk /\ file' \in {0, 1} /\ done' \in [Task -> Claim \cup {Null}]
         /\ slotOn' \subseteq Task /\ review' \subseteq Claim /\ answered' \subseteq Task
         /\ up' \in BOOLEAN /\ crashes' \in 0 .. troubles' /\ troubles' \in 0 .. MaxTrouble
         /\ ~up' => call' = NoCall
<1>a. /\ trunk \in 0 .. MaxTrunk /\ file \in {0, 1} /\ done \in [Task -> Claim \cup {Null}]
      /\ slotOn \subseteq Task /\ review \subseteq Claim /\ answered \subseteq Task
      /\ up \in BOOLEAN /\ crashes \in 0 .. troubles /\ troubles \in 0 .. MaxTrouble
      /\ ~up => call = NoCall
  BY DEF Typed, TypeOK
<1>b. call.op # "idle" => call.task \in Task
  BY DEF Typed, CallShape
<1>1. trunk' \in 0 .. MaxTrunk /\ file' \in {0, 1} /\ slotOn' \subseteq Task
  BY <1>a, WorkspaceAssumption, WhoWrites DEF TrunkMoves, FileChanges, SuspendSlot, ResumeSlot
<1>2. done' \in [Task -> Claim \cup {Null}]
  <2>1. CASE CompleteTask
    <3>1. call.claim \in Claim
      BY <2>1 DEF CompleteTask, AtStep, Typed, CallShape
    <3> QED
      BY <1>a, <2>1, <3>1 DEF CompleteTask
  <2> QED
    BY <1>a, <2>1, WhoWrites
<1>3. review' \subseteq Claim
  <2>1. CASE HandOver
    <3>1. call.claim \in Claim
      BY <2>1 DEF HandOver, AtStep, Typed, CallShape
    <3> QED
      BY <1>a, <2>1, <3>1 DEF HandOver
  <2>2. CASE Startup
    BY <1>a, <2>2 DEF Startup, Recovered
  <2> QED
    BY <1>a, <2>1, <2>2, WhoWrites
<1>4. answered' \subseteq Task
  BY <1>a, <1>b, WhoWrites DEF RemoveTree, RowReleased, Fence, AtStep
<1>5. crashes' \in 0 .. troubles' /\ troubles' \in 0 .. MaxTrouble
  <2>1. troubles' = troubles \/ (troubles < MaxTrouble /\ troubles' = troubles + 1)
    BY WhoWrites DEF Smoothly, Trouble
  <2>2. crashes' = crashes \/ (crashes' = crashes + 1 /\ troubles' = troubles + 1)
    BY WhoWrites DEF Crash, Startup, Trouble, processCounts
  <2> QED
    BY <1>a, <2>1, <2>2, WorkspaceAssumption
<1>6. up' \in BOOLEAN /\ (~up' => call' = NoCall)
  <2>1. CASE UNCHANGED up
    <3>1. CASE up
      BY <1>a, <2>1, <3>1
    <3>2. CASE ~up
      <4>1. call = NoCall
        BY <1>a, <3>2
      <4>2. call' = call
        BY <3>2, <1>a, <2>1, <4>1, WhoWrites DEF ProvisionLease, ProvisionGrant, ProvisionToken, ProvisionRow,
           ProvisionFails, UndoGrant, UndoLease, UndoTree, CompleteTask, HandOver, RemoveTree, RowReleased,
           EndLease, Fence, Crash, Provision, ReleaseTaskWorkspace, VerifyClaim, AtStep, Ready
      <4> QED
        BY <4>1, <4>2, <2>1, <1>a
    <3> QED
      BY <1>a, <3>1, <3>2
  <2> QED
    BY <2>1, <1>a, WhoWrites DEF Crash, Startup
<1> QED
  BY <1>1, <1>2, <1>3, <1>4, <1>5, <1>6

\* What a handler knows stays true until it uses it.
LEMMA ShapeStep ==
  ASSUME Typed, ClaimsHaveRows, [Next]_workspaceVars PROVE CallShape'
<1>a. CallShape /\ call \in CallRow /\ call' \in CallRow
  BY CallRowTyped DEF Typed, CallTyped, CallRow
<1>b. /\ row \in [Task -> RowRow] /\ row' \in [Task -> RowRow]
      /\ made \in [Task -> 0 .. MaxTry] /\ made' \in [Task -> 0 .. MaxTry]
      /\ lease \in [Task -> LeaseRow] /\ lease' \in [Task -> LeaseRow]
      /\ claim \in [Claim -> ClaimRow] /\ claim' \in [Claim -> ClaimRow]
  BY RowTyped, GrantsTyped, LeaseTyped, ClaimTyped DEF Typed, TypeOK, RowRow, LeaseRow, ClaimRow
<1>c. \A t \in Task : row[t].status # "none" => row'[t].status # "none"
  BY RowTyped
<1>d. \A c \in Claim : claim[c].status = "verified" =>
        claim'[c].status = "verified" /\ claim'[c].task = claim[c].task
  BY ClaimTyped
<1>e. CallShape' <=>
        /\ call'.op = "idle" => call' = NoCall
        /\ call'.op # "idle" => call'.task \in Task
        /\ call'.op \in {"provision", "undo"} => row'[call'.task].status = "none"
        /\ call'.op = "provision" =>
             /\ call'.step \in {"lease", "grant", "token", "row"}
             /\ call'.step \in {"lease", "grant"} => call'.grant = 0 /\ made'[call'.task] < MaxTry
             /\ call'.step # "lease" => lease'[call'.task].epoch >= 1
             /\ call'.step \in {"token", "row"} => call'.grant \in 1 .. made'[call'.task]
        /\ call'.op = "undo" => call'.step \in {"grant", "lease", "tree"}
        /\ call'.op = "complete" =>
             /\ call'.step \in {"task", "review"} /\ call'.claim \in Claim
             /\ claim'[call'.claim].status = "verified" /\ claim'[call'.claim].task = call'.task
             /\ call'.step = "review" => done'[call'.task] = call'.claim
        /\ call'.op \in {"release", "finalize"} =>
             call'.step \in {"lease", "fence", "tree", "row"} /\ row'[call'.task].status # "none"
  BY DEF CallShape, Finishing
<1>f. \A t \in Task : lease'[t].epoch >= lease[t].epoch /\ lease[t].epoch \in Nat /\ lease'[t].epoch \in Nat
  BY <1>b, LeaseTyped DEF LeaseRow
<1>1. CASE UNCHANGED <<call, row, made, done, answered>>
  BY <1>1, <1>a, <1>d, <1>e, <1>f DEF CallShape, Finishing
<1>2. CASE ProvisionLease
  <2>1. /\ call.op = "provision" /\ call.step = "lease" /\ call' = [call EXCEPT !.step = "grant"]
        /\ row' = row /\ made' = made
        /\ lease' = IF lease[call.task].status = "active" THEN lease
                    ELSE [lease EXCEPT ![call.task] = [epoch |-> @.epoch + 1, status |-> "active", due |-> "never"]]
    BY <1>2 DEF ProvisionLease, AtStep
  <2>2. lease'[call.task].epoch >= 1
    BY <2>1, <1>a, <1>b DEF CallShape, LeaseRow, Typed, CallTyped
  <2> QED
    BY <2>1, <2>2, <1>a, <1>e DEF CallShape, CallRow
<1>3. CASE ProvisionGrant
  <2>1. /\ call.op = "provision" /\ call.step = "grant" /\ row' = row /\ lease' = lease
        /\ call' = [call EXCEPT !.step = "token", !.grant = made[call.task] + 1]
        /\ made' = [made EXCEPT ![call.task] = @ + 1]
    BY <1>3 DEF ProvisionGrant, AtStep
  <2>2. made'[call.task] = made[call.task] + 1 /\ made[call.task] + 1 \in 1 .. made'[call.task]
    BY <2>1, <1>a, <1>b DEF CallShape
  <2> QED
    BY <2>1, <2>2, <1>a, <1>e DEF CallShape, CallRow
<1>4. CASE ProvisionToken
  BY <1>4, <1>a, <1>e DEF ProvisionToken, AtStep, CallShape, CallRow
<1>5. CASE ProvisionFails \/ UndoGrant \/ UndoLease
  <2>1. /\ call.op \in {"provision", "undo"} /\ row' = row /\ call'.op = "undo"
        /\ call'.step \in {"grant", "lease", "tree"} /\ call'.task = call.task
    BY <1>5, <1>a DEF ProvisionFails, UndoGrant, UndoLease, AtStep, CallRow
  <2> QED
    BY <2>1, <1>a, <1>e DEF CallShape
<1>6. CASE call' = NoCall
  BY <1>6, <1>e DEF NoCall
<1>7. CASE CompleteTask \/ HandOver
  <2>1. call.op = "complete" /\ row' = row /\ claim' = claim
    BY <1>7 DEF CompleteTask, HandOver, AtStep, evidenceVars
  <2>2. /\ call.task \in Task /\ call.claim \in Claim /\ claim[call.claim].status = "verified"
        /\ claim[call.claim].task = call.task
    BY <2>1, <1>a DEF CallShape
  <2>3. row[call.task].status # "none"
    BY <2>2 DEF ClaimsHaveRows
  <2>4. \/ call' = NoCall
        \/ call' = [call EXCEPT !.op = "finalize", !.step = "lease"]
        \/ call' = [call EXCEPT !.step = "review"] /\ done' = [done EXCEPT ![call.task] = call.claim]
    BY <1>7 DEF CompleteTask, HandOver
  <2>5. CASE call' = [call EXCEPT !.op = "finalize", !.step = "lease"]
    BY <2>1, <2>2, <2>3, <2>5, <1>a, <1>e DEF CallRow
  <2>6. CASE call' = [call EXCEPT !.step = "review"] /\ done' = [done EXCEPT ![call.task] = call.claim]
    <3>1. done'[call.task] = call.claim
      BY <2>2, <2>6 DEF Typed, TypeOK
    <3> QED
      BY <2>1, <2>2, <2>6, <3>1, <1>a, <1>e DEF CallRow
  <2> QED
    BY <1>6, <2>4, <2>5, <2>6
<1>8. CASE RemoveTree \/ RowReleased \/ EndLease \/ Fence
  <2>1. Finishing
    BY <1>8 DEF RemoveTree, RowReleased, EndLease, Fence, AtStep, Finishing
  <2>2. call' = NoCall \/ \E s \in {"lease", "fence", "tree", "row"} : call' = [call EXCEPT !.step = s]
    BY <1>8 DEF RemoveTree, RowReleased, EndLease, Fence
  <2>3. CASE \E s \in {"lease", "fence", "tree", "row"} : call' = [call EXCEPT !.step = s]
    <3>1. call'.op = call.op /\ call'.task = call.task /\ call'.step \in {"lease", "fence", "tree", "row"}
      BY <2>3, <1>a DEF CallRow
    <3>2. call.task \in Task /\ row[call.task].status # "none"
      BY <2>1, <1>a DEF CallShape, Finishing
    <3> QED
      BY <2>1, <3>1, <3>2, <1>c, <1>e DEF Finishing
  <2> QED
    BY <1>6, <2>2, <2>3
<1>9. ASSUME NEW t \in Task, Provision(t) PROVE CallShape'
  <2>1. /\ row[t].status = "none" /\ made[t] < MaxTry /\ row' = row /\ made' = made
        /\ call' = call \/ Provisioning(t)
        /\ call.op = "idle"
    BY <1>9 DEF Provision, authorityVars, Ready
  <2>2. CASE call' = call
    BY <2>1, <2>2, <1>a, <1>e DEF CallShape
  <2>3. CASE Provisioning(t)
    <3>1. /\ call'.op = "provision" /\ call'.step = "lease" /\ call'.task = t /\ call'.grant = 0
      BY <2>3 DEF Provisioning, NoCall
    <3> QED
      BY <2>1, <3>1, <1>e
  <2> QED
    BY <2>1, <2>2, <2>3
<1>10. ASSUME NEW t \in Task, ReleaseTaskWorkspace(t) PROVE CallShape'
  <2>1. /\ call'.op = "release" /\ call'.step \in {"tree", "lease"} /\ call'.task = t
        /\ row[t].status # "none" /\ row' = row
    BY <1>10 DEF ReleaseTaskWorkspace, NoCall
  <2> QED
    BY <2>1, <1>e
<1>11. ASSUME NEW c \in Claim, VerifyClaim(c) PROVE CallShape'
  <2>1. CASE call' = [NoCall EXCEPT !.op = "complete", !.step = "task", !.task = claim[c].task, !.claim = c]
             /\ claim'[c].status = "verified"
    <3>1. /\ call'.op = "complete" /\ call'.step = "task" /\ call'.task = claim[c].task
          /\ call'.claim = c
      BY <2>1 DEF NoCall
    <3>2. claim[c].status # "none"
      BY <1>11 DEF VerifyClaim
    <3>3. claim[c].task \in Task /\ claim'[c].task = claim[c].task
      BY <3>2, ClaimTyped DEF ClaimsHaveRows
    <3> QED
      BY <2>1, <3>1, <3>3, <1>e
  <2> QED
    BY <1>11, <1>6, <2>1 DEF VerifyClaim
<1>12. CASE ProvisionRow \/ UndoTree \/ Crash
  BY <1>12, <1>6 DEF ProvisionRow, UndoTree, Crash
<1> QED
  BY <1>1, <1>2, <1>3, <1>4, <1>5, <1>7, <1>8, <1>9, <1>10, <1>11, <1>12, WhoWrites

LEMMA TypeStep ==
  ASSUME Typed, ClaimsHaveRows, [Next]_workspaceVars PROVE Typed'
<1>1. TypeOK'
  <2>1. call'.op \in {"idle", "provision", "undo", "release", "finalize", "complete"}
        /\ call'.task \in Task \cup {Null}
    BY CallRowTyped DEF CallRow
  <2> QED
    BY <2>1, GitTyped, LeaseTyped, GrantsTyped, RowTyped, ClaimTyped, RestTyped
    DEF TypeOK, LeaseRow, RowRow, ClaimRow
<1>2. CallTyped'
  BY CallRowTyped, GrantsTyped, LeaseTyped DEF CallTyped, CallRow
<1> QED
  BY <1>1, <1>2, ShapeStep DEF Typed

-----------------------------------------------------------------------------
(* What a completion is worth *)

LEMMA StatusWriters ==
  ASSUME Typed, [Next]_workspaceVars, NEW c \in Claim
  PROVE  claim'[c].status = claim[c].status \/ VerifyClaim(c) \/ \E t \in Task : SubmitClaim(c, t)
<1>a. claim \in [Claim -> ClaimRow]
  BY DEF Typed, TypeOK, ClaimRow
<1>1. ASSUME NEW k \in Claim, RegisterArtifact(k) PROVE claim'[c].status = claim[c].status
  <2>1. claim' = claim \/ claim' = [claim EXCEPT ![k].file = file]
    BY <1>1 DEF RegisterArtifact
  <2> QED
    BY <2>1, <1>a DEF ClaimRow
<1>2. ASSUME NEW k \in Claim, VerifyClaim(k) PROVE k = c \/ claim'[c].status = claim[c].status
  BY <1>2, <1>a DEF VerifyClaim
<1>3. ASSUME NEW k \in Claim, NEW t \in Task, SubmitClaim(k, t)
      PROVE  k = c \/ claim'[c].status = claim[c].status
  BY <1>3, <1>a DEF SubmitClaim
<1> QED
  BY <1>1, <1>2, <1>3, WhoWrites

LEMMA ClaimsStep ==
  ASSUME Typed, ClaimsHaveRows, [Next]_workspaceVars PROVE ClaimsHaveRows'
<1> SUFFICES ASSUME NEW c \in Claim, claim'[c].status # "none"
             PROVE  claim'[c].task \in Task /\ row'[claim'[c].task].status # "none"
  BY DEF ClaimsHaveRows
<1>1. CASE claim[c].status # "none"
  BY <1>1, ClaimTyped, RowTyped DEF ClaimsHaveRows
<1>2. CASE claim[c].status = "none"
  <2>1. PICK t \in Task : SubmitClaim(c, t)
    <3>1. ~VerifyClaim(c)
      BY <1>2 DEF VerifyClaim
    <3> QED
      BY <1>2, <3>1, StatusWriters
  <2>2. claim'[c].task = t
    BY <2>1 DEF SubmitClaim, Typed, TypeOK
  <2>3. row[t].status # "none" /\ row' = row
    BY <2>1 DEF SubmitClaim, Acts
  <2> QED
    BY <2>2, <2>3
<1> QED
  BY <1>1, <1>2

\* A claim passes only as what the workspace was given for.
LEMMA EarnedStep ==
  ASSUME Typed, ClaimsHaveRows, VerifiedIsEarned, [Next]_workspaceVars PROVE VerifiedIsEarned'
<1> SUFFICES ASSUME NEW c \in Claim, claim'[c].status = "verified"
             PROVE  /\ claim'[c].epoch = row'[claim'[c].task].epoch
                    /\ claim'[c].commit # row'[claim'[c].task].base /\ claim'[c].commit # Null
                    /\ Descends(claim'[c].commit, row'[claim'[c].task].base)
  BY DEF VerifiedIsEarned, Descends
<1>1. CASE claim[c].status = "verified"
  <2>1. claim[c].task \in Task /\ row[claim[c].task].status # "none"
    BY <1>1 DEF ClaimsHaveRows
  <2> QED
    BY <1>1, <2>1, ClaimTyped, RowTyped DEF VerifiedIsEarned
<1>2. CASE claim[c].status # "verified"
  <2>1. VerifyClaim(c) /\ Passes(c) /\ claim[c].status # "none"
    <3>1. \A t \in Task : SubmitClaim(c, t) => claim'[c].status = "submitted"
      BY DEF SubmitClaim, Typed, TypeOK
    <3>4. VerifyClaim(c)
      BY <1>2, <3>1, StatusWriters
    <3>5. claim[c].status # "none" /\ Passes(c)
      BY <1>2, <3>4 DEF VerifyClaim, Typed, TypeOK
    <3> QED
      BY <3>4, <3>5
  <2> DEFINE t == claim[c].task
  <2>2. t \in Task /\ row[t].status # "none"
    BY <2>1 DEF ClaimsHaveRows
  <2>3. /\ row[t].epoch = claim[c].epoch /\ claim[c].commit \notin {Null, row[t].base}
        /\ Descends(claim[c].commit, row[t].base)
    BY <2>1, <2>2 DEF Passes, CommitIsWorkspaceHead, SameAuthority
  <2>4. /\ claim'[c].task = t /\ claim'[c].epoch = claim[c].epoch /\ claim'[c].commit = claim[c].commit
        /\ row' = row
    BY <2>1, ClaimTyped DEF VerifyClaim
  <2> QED
    BY <2>3, <2>4
<1> QED
  BY <1>1, <1>2

LEMMA DoneStep ==
  ASSUME Typed, DoneIsVerified, [Next]_workspaceVars PROVE DoneIsVerified'
<1> SUFFICES ASSUME NEW t \in Task, done'[t] # Null
             PROVE  claim'[done'[t]].status = "verified" /\ claim'[done'[t]].task = t
  BY DEF DoneIsVerified
<1>a. /\ done \in [Task -> Claim \cup {Null}]
      /\ \A c \in Claim : claim[c].status = "verified" =>
           claim'[c].status = "verified" /\ claim'[c].task = claim[c].task
  BY ClaimTyped DEF Typed, TypeOK
<1>1. CASE done'[t] = done[t]
  <2>1. done[t] \in Claim
    BY <1>1, <1>a
  <2> QED
    BY <1>1, <2>1, <1>a DEF DoneIsVerified
<1>2. CASE done'[t] # done[t]
  <2>1. CompleteTask
    BY <1>2, WhoWrites
  <2>2. call.op = "complete" /\ done' = [done EXCEPT ![call.task] = call.claim]
    BY <1>2, <2>1 DEF CompleteTask, AtStep
  <2>3. t = call.task /\ done'[t] = call.claim
    BY <1>2, <2>2, <1>a
  <2>4. call.claim \in Claim /\ claim[call.claim].status = "verified" /\ claim[call.claim].task = t
    BY <2>2, <2>3 DEF Typed, CallShape
  <2> QED
    BY <2>3, <2>4, <1>a
<1> QED
  BY <1>1, <1>2

LEMMA HandedStep ==
  ASSUME Typed, ClaimsHaveRows, DoneIsVerified, HandedOver, [Next]_workspaceVars PROVE HandedOver'
<1> SUFFICES ASSUME up', NEW t \in OrgTask, done'[t] # Null, done'[t] \notin review'
             PROVE  call'.op = "complete" /\ call'.step = "review" /\ call'.task = t
  BY DEF HandedOver
<1>a. /\ done \in [Task -> Claim \cup {Null}] /\ t \in Task /\ call \in CallRow
      /\ call.op # "idle" => call.task \in Task
  BY WorkspaceAssumption DEF Typed, TypeOK, CallTyped, CallRow, CallShape
<1>1. CASE Startup
  <2>1. done' = done /\ review' = review \cup Recovered
    BY <1>1 DEF Startup
  <2>2. done[t] \in Claim /\ claim[done[t]].status = "verified" /\ claim[done[t]].task = t
    BY <2>1, <1>a DEF DoneIsVerified
  <2>3. row[t].status # "none"
    BY <2>2 DEF ClaimsHaveRows
  <2> QED
    BY <2>1, <2>2, <2>3 DEF Recovered
<1>2. CASE CompleteTask
  <2>1. /\ call.op = "complete" /\ call.step = "task" /\ review' = review /\ up
        /\ \/ done' = done
           \/ done' = [done EXCEPT ![call.task] = call.claim] /\ call' = [call EXCEPT !.step = "review"]
    BY <1>2 DEF CompleteTask, AtStep
  <2>2. ~(done[t] # Null /\ done[t] \notin review)
    BY <2>1 DEF HandedOver
  <2>3. done'[t] # done[t]
    BY <2>1, <2>2
  <2>4. t = call.task /\ call' = [call EXCEPT !.step = "review"]
    BY <2>1, <2>3, <1>a
  <2> QED
    BY <2>1, <2>4, <1>a DEF CallRow
<1>3. CASE ~Startup /\ ~CompleteTask
  <2>1. up /\ done' = done
    BY <1>3, WhoWrites DEF Crash
  <2>2. CASE HandOver
    <3>1. call.op = "complete" /\ call.step = "review" /\ done[call.task] = call.claim /\ call.task \in Task
      BY <2>2, <1>a DEF HandOver, AtStep, Typed, CallShape
    <3>2. review \subseteq review' /\ (call.task = t => call.claim \in review')
      BY <2>2 DEF HandOver
    <3> QED
      BY <2>1, <3>1, <3>2 DEF HandedOver
  <2>3. CASE ~HandOver
    <3>1. review' = review
      BY <1>3, <2>3, WhoWrites
    <3>2. call.op = "complete" /\ call.step = "review" /\ call.task = t
      BY <2>1, <3>1 DEF HandedOver
    <3>3. call' = call
      BY <1>3, <2>3, <3>2, WhoWrites DEF ProvisionLease, ProvisionGrant, ProvisionToken, ProvisionRow,
         ProvisionFails, UndoGrant, UndoLease, UndoTree, RemoveTree, RowReleased, EndLease, Fence, Crash,
         Provision, ReleaseTaskWorkspace, VerifyClaim, AtStep, Ready
    <3> QED
      BY <3>2, <3>3
  <2> QED
    BY <2>2, <2>3
<1> QED
  BY <1>1, <1>2, <1>3

-----------------------------------------------------------------------------
(* What authority is left *)

\* Once a workspace has its row, no handler makes a lease or a grant for it again.
LEMMA NoNewAuthority ==
  ASSUME Typed, [Next]_workspaceVars, NEW t \in Task, row[t].status # "none"
  PROVE  /\ lease'[t].epoch = lease[t].epoch
         /\ lease'[t].status = "active" => lease[t].status = "active"
         /\ grants'[t] \subseteq grants[t] /\ tokens'[t] \subseteq tokens[t]
<1>a. /\ lease \in [Task -> LeaseRow] /\ grants \in [Task -> SUBSET Nat] /\ tokens \in [Task -> SUBSET Nat]
  BY DEF Typed, TypeOK, CallTyped, LeaseRow
<1>b. call.op = "provision" => call.task \in Task /\ call.task # t
  BY DEF Typed, CallShape
<1>1. lease'[t].epoch = lease[t].epoch /\ (lease'[t].status = "active" => lease[t].status = "active")
  <2>1. CASE ProvisionLease
    BY <2>1, <1>a, <1>b DEF ProvisionLease, AtStep
  <2>2. ASSUME NEW q, lease' = Released(q) PROVE <1>1!:
    BY <2>2, <1>a DEF Released, LeaseRow
  <2>3. CASE UndoLease \/ EndLease
    BY <2>3, <2>2 DEF UndoLease, EndLease
  <2>4. ASSUME NEW q \in Task, TimePasses(q) \/ RenewLease(q) \/ SuspendSlot(q) PROVE <1>1!:
    <3>1. CASE SuspendSlot(q)
      BY <3>1, <2>2 DEF SuspendSlot
    <3>2. CASE TimePasses(q) \/ RenewLease(q)
      BY <3>2, <1>a DEF TimePasses, RenewLease, LeaseRow
    <3> QED
      BY <2>4, <3>1, <3>2
  <2>5. ASSUME NEW c \in Claim, RegisterArtifact(c) PROVE <1>1!:
    BY <2>5, <1>a DEF RegisterArtifact, LeaseRow
  <2> QED
    BY <2>1, <2>3, <2>4, <2>5, WhoWrites
<1>2. grants'[t] \subseteq grants[t] /\ tokens'[t] \subseteq tokens[t]
  <2>1. CASE ProvisionGrant \/ ProvisionToken
    BY <2>1, <1>a, <1>b DEF ProvisionGrant, ProvisionToken, AtStep
  <2>2. CASE ProvisionFails \/ UndoGrant \/ Fence
    BY <2>2, <1>a DEF ProvisionFails, UndoGrant, Fence
  <2>3. ASSUME NEW q \in Task, SuspendSlot(q) PROVE <1>2!:
    BY <2>3, <1>a DEF SuspendSlot
  <2> QED
    BY <2>1, <2>2, <2>3, WhoWrites
<1> QED
  BY <1>1, <1>2

LEMMA OverStays ==
  ASSUME Typed, [Next]_workspaceVars, NEW t \in Task, row[t].status # "none"
  PROVE  /\ LeaseIsOver(t) => LeaseIsOver(t)'
         /\ GrantIsGone(t) => GrantIsGone(t)'
BY NoNewAuthority, RowTyped DEF LeaseIsOver, GrantIsGone

LEMMA FencedStep ==
  ASSUME Typed, Fenced, [Next]_workspaceVars PROVE Fenced'
<1>a. /\ call \in CallRow /\ lease \in [Task -> LeaseRow] /\ answered \subseteq Task
      /\ Finishing => call.task \in Task /\ row[call.task].status # "none"
  BY DEF Typed, TypeOK, CallTyped, CallRow, CallShape, LeaseRow, Finishing
<1>b. \A t \in Task : row[t].status # "none" => row'[t].status # "none"
  BY RowTyped
\* The end of a clean-up: the workspace it worked on is fenced.
<1>1. ASSUME NEW t \in answered' PROVE row'[t].status # "none" /\ LeaseIsOver(t)' /\ GrantIsGone(t)'
  <2>1. CASE t \in answered
    BY <2>1, <1>a, <1>b, OverStays DEF Fenced
  <2>2. CASE t \notin answered
    <3>1. Finishing /\ t = call.task
      BY <2>2, WhoWrites DEF RemoveTree, RowReleased, Fence, AtStep, Finishing
    <3>2. t \in Task /\ row[t].status # "none" /\ row'[t].status # "none"
      BY <3>1, <1>a, <1>b
    <3>3. CASE RemoveTree \/ RowReleased
      <4>1. call.op = "finalize" /\ call.step \in {"tree", "row"}
        BY <2>2, <3>3 DEF RemoveTree, RowReleased, AtStep
      <4> QED
        BY <3>1, <3>2, <4>1, OverStays DEF Fenced
    <3>4. CASE Fence
      <4>1. LeaseIsOver(t)
        BY <3>1, <3>4 DEF Fence, Fenced
      <4>2. GrantIsGone(t)'
        <5>1. /\ grants' = [grants EXCEPT ![t] = @ \ {row[t].grant}]
              /\ tokens' = [tokens EXCEPT ![t] = @ \ {row[t].grant}] /\ row' = row
          BY <3>1, <3>4 DEF Fence
        <5> QED
          BY <5>1, <3>2 DEF GrantIsGone, Typed, CallTyped
      <4> QED
        BY <3>2, <4>1, <4>2, OverStays
    <3> QED
      BY <2>2, <3>3, <3>4, WhoWrites
  <2> QED
    BY <2>1, <2>2
<1>2. ASSUME Finishing', call'.step = "fence", NEW t, t = call'.task PROVE LeaseIsOver(t)'
  <2>1. CASE call' = call
    BY <2>1, <1>2, <1>a, OverStays DEF Fenced, Finishing
  <2>2. CASE call' # call
    <3>1. EndLease
      BY <1>2, <2>2, <1>a, CallMoves, WhoWrites DEF Goes, Over, Finishing
    <3>2. Finishing /\ row' = row
      BY <3>1 DEF EndLease, Finishing
    <3>3. t = call.task /\ t \in Task
      BY <1>2, <3>1, <3>2, <1>a, CallMoves DEF Goes, Over, Finishing
    <3>4. CASE lease[t].epoch = row[t].epoch /\ lease[t].status = "active"
      <4>1. lease' = Released(t)
        BY <1>2, <3>1, <3>3, <3>4 DEF EndLease, Finishing, NoCall
      <4>2. lease'[t].status = "released"
        BY <4>1, <3>3, <3>4, <1>a DEF Released, LeaseRow
      <4> QED
        BY <4>2 DEF LeaseIsOver
    <3>5. CASE ~(lease[t].epoch = row[t].epoch /\ lease[t].status = "active")
      BY <3>1, <3>2, <3>3, <3>5 DEF EndLease, LeaseIsOver
    <3> QED
      BY <3>4, <3>5
  <2> QED
    BY <2>1, <2>2
<1>3. ASSUME call'.op = "finalize", call'.step \in {"tree", "row"}, NEW t, t = call'.task
      PROVE  LeaseIsOver(t)' /\ GrantIsGone(t)'
  <2>1. CASE call' = call
    BY <2>1, <1>3, <1>a, OverStays DEF Fenced, Finishing
  <2>2. CASE call' # call
    <3>1. RemoveTree \/ Fence
      BY <1>3, <2>2, <1>a, CallMoves, WhoWrites DEF Goes, Over, Finishing
    <3>2. call.op = "finalize" /\ t = call.task
      BY <1>3, <3>1, <1>a, CallMoves DEF Goes, Over
    <3>3. Finishing /\ t \in Task /\ row[t].status # "none"
      BY <3>2, <1>a DEF Finishing
    <3>4. CASE RemoveTree
      <4>1. call.step = "tree"
        BY <3>4 DEF RemoveTree, AtStep
      <4> QED
        BY <3>2, <3>3, <4>1, OverStays DEF Fenced
    <3>5. CASE Fence
      <4>1. LeaseIsOver(t)'
        BY <3>2, <3>3, <3>5, OverStays DEF Fence, Fenced
      <4>2. /\ grants' = [grants EXCEPT ![t] = @ \ {row[t].grant}]
            /\ tokens' = [tokens EXCEPT ![t] = @ \ {row[t].grant}] /\ row' = row
        BY <3>2, <3>5 DEF Fence
      <4>3. GrantIsGone(t)'
        BY <4>2, <3>3 DEF Typed, CallTyped, GrantIsGone
      <4> QED
        BY <4>1, <4>3
    <3> QED
      BY <3>1, <3>4, <3>5
  <2> QED
    BY <2>1, <2>2
<1> QED
  BY <1>1, <1>2, <1>3 DEF Fenced, LeaseIsOver, GrantIsGone

\* Only the three steps of an attempt make authority, and each of its own task.
LEMMA AuthorityMoves ==
  ASSUME Typed, [Next]_workspaceVars, NEW t \in Task
  PROVE  /\ grants'[t] \subseteq grants[t]
            \/ (ProvisionGrant /\ call.task = t /\ grants'[t] \subseteq grants[t] \cup {call'.grant})
         /\ tokens'[t] \subseteq tokens[t]
            \/ (ProvisionToken /\ call.task = t /\ tokens'[t] \subseteq tokens[t] \cup {call.grant})
         /\ Held(t)' => Held(t) \/ (ProvisionLease /\ call.task = t)
<1>a. /\ lease \in [Task -> LeaseRow] /\ grants \in [Task -> SUBSET Nat] /\ tokens \in [Task -> SUBSET Nat]
      /\ call \in CallRow
  BY DEF Typed, TypeOK, CallTyped, LeaseRow, CallRow
<1>1. \/ grants'[t] \subseteq grants[t]
      \/ ProvisionGrant /\ call.task = t /\ grants'[t] \subseteq grants[t] \cup {call'.grant}
  <2>1. CASE ProvisionGrant
    <3>1. grants' = [grants EXCEPT ![call.task] = @ \cup {made[call.task] + 1}]
      BY <2>1 DEF ProvisionGrant
    <3>2. call'.grant = made[call.task] + 1
      BY <2>1, <1>a, CallMoves
    <3> QED
      BY <2>1, <3>1, <3>2, <1>a
  <2>2. CASE ProvisionToken \/ ProvisionFails \/ UndoGrant \/ Fence
    BY <2>2, <1>a DEF ProvisionToken, ProvisionFails, UndoGrant, Fence
  <2>3. ASSUME NEW q \in Task, SuspendSlot(q) PROVE grants'[t] \subseteq grants[t]
    BY <2>3, <1>a DEF SuspendSlot
  <2> QED
    BY <2>1, <2>2, <2>3, WhoWrites
<1>2. \/ tokens'[t] \subseteq tokens[t]
      \/ ProvisionToken /\ call.task = t /\ tokens'[t] \subseteq tokens[t] \cup {call.grant}
  <2>1. CASE ProvisionToken
    BY <2>1, <1>a DEF ProvisionToken
  <2>2. CASE ProvisionGrant \/ ProvisionFails \/ UndoGrant \/ Fence
    BY <2>2, <1>a DEF ProvisionGrant, ProvisionFails, UndoGrant, Fence
  <2>3. ASSUME NEW q \in Task, SuspendSlot(q) PROVE tokens'[t] \subseteq tokens[t]
    BY <2>3, <1>a DEF SuspendSlot
  <2> QED
    BY <2>1, <2>2, <2>3, WhoWrites
<1>3. ASSUME Held(t)', ~Held(t) PROVE ProvisionLease /\ call.task = t
  <2> USE DEF Held
  <2>0. lease'[t].status = "active" /\ lease'[t].due # "past"
    BY <1>3
  <2>1. ASSUME NEW q, lease' = Released(q) PROVE FALSE
    <3>1. lease'[t] = lease[t] \/ lease'[t].status = "released"
      BY <2>1, <1>a DEF Released, LeaseRow
    <3> QED
      BY <2>0, <3>1, <1>3 DEF LeaseRow
  <2>2. ~UndoLease /\ ~EndLease /\ lease' # lease
    BY <2>1, <1>3 DEF UndoLease, EndLease
  <2>3. ASSUME NEW q \in Task, TimePasses(q) PROVE FALSE
    BY <2>0, <2>3, <1>3, <1>a DEF TimePasses, LeaseRow
  <2>4. ASSUME NEW q \in Task, RenewLease(q) PROVE FALSE
    BY <2>0, <2>4, <1>3, <1>a DEF RenewLease, LeaseRow
  <2>5. ASSUME NEW q \in Task, SuspendSlot(q) PROVE FALSE
    BY <2>1, <2>5 DEF SuspendSlot
  <2>6. ASSUME NEW c \in Claim, RegisterArtifact(c) PROVE FALSE
    <3>1. lease' = [lease EXCEPT ![claim[c].task].status = "expired"]
      BY <2>2, <2>6 DEF RegisterArtifact
    <3> QED
      BY <2>0, <3>1, <1>3, <1>a DEF LeaseRow
  <2>7. ProvisionLease
    BY <2>2, <2>3, <2>4, <2>5, <2>6, WhoWrites
  <2>8. call.task = t
    BY <2>0, <2>7, <1>3, <1>a DEF ProvisionLease, LeaseRow
  <2> QED
    BY <2>7, <2>8
<1>4. Held(t)' => Held(t) \/ (ProvisionLease /\ call.task = t)
  BY <1>3
<1> QED
  BY <1>1, <1>2, <1>4

LEMMA LeftoversStep ==
  ASSUME Typed, NoLeftovers, [Next]_workspaceVars PROVE NoLeftovers'
<1> SUFFICES ASSUME crashes' = 0, NEW t \in Task PROVE NothingLeft(t)'
  BY DEF NoLeftovers
<1>a. /\ call \in CallRow /\ call' \in CallRow /\ row \in [Task -> RowRow]
      /\ crashes \in Nat /\ MaxTry \in Nat
      /\ grants[t] \cup tokens[t] \subseteq 1 .. made[t]
      /\ made \in [Task -> 0 .. MaxTry]
  BY CallRowTyped, WorkspaceAssumption DEF Typed, TypeOK, CallTyped, CallRow, RowRow
<1>b. crashes = 0 /\ ~Crash
  <2>1. crashes' = crashes \/ crashes' = crashes + 1
    BY WhoWrites DEF Crash, Startup, processCounts
  <2> QED
    BY <2>1, <1>a DEF Crash
<1>c. NothingLeft(t)
  BY <1>b DEF NoLeftovers
<1>d. /\ Attempting(t) => row[t].status = "none" /\ (call.step = "lease" => call.op = "undo" \/ call.grant = 0)
      /\ Attempting(t) /\ call.op = "provision" /\ call.step = "grant" => call.grant = 0
      /\ 0 \notin grants[t] \cup tokens[t]
  <2>1. 0 \notin grants[t] \cup tokens[t]
    BY <1>a
  <2>2. /\ call.op \in {"provision", "undo"} => row[call.task].status = "none"
        /\ call.op = "provision" /\ call.step \in {"lease", "grant"} => call.grant = 0
    BY DEF Typed, CallShape
  <2> QED
    BY <2>1, <2>2 DEF Attempting
\* An attempt begins.
<1>1. ASSUME ~Attempting(t), Attempting(t)' PROVE NothingLeft(t)'
  <2>0. call'.op \in {"provision", "undo"} /\ call'.task = t /\ (call.op \in {"provision", "undo"} => call.task # t)
    BY <1>1 DEF Attempting
  <2>1. call' # call
    BY <2>0
  <2>2. ~(ProvisionLease \/ ProvisionGrant \/ ProvisionToken \/ ProvisionRow \/ ProvisionFails \/ UndoGrant
          \/ UndoLease \/ UndoTree)
    BY <2>0, <1>a, CallMoves DEF Goes, Over
  <2>3. ~(CompleteTask \/ HandOver \/ RemoveTree \/ RowReleased \/ EndLease \/ Fence)
    BY <2>0, <1>a, CallMoves DEF Goes, Over, Finishing
  <2>4. \A c \in Claim : ~VerifyClaim(c)
    BY <2>0, <1>a, CallMoves DEF Goes, Over
  <2>5. \A q \in Task : ~ReleaseTaskWorkspace(q)
    BY <2>0, <1>a, CallMoves DEF Goes, Over
  <2>6. PICK q \in Task : Provision(q)
    BY <2>1, <2>2, <2>3, <2>4, <2>5, <1>b, WhoWrites
  <2>7. q = t /\ call'.op = "provision" /\ call'.step = "lease" /\ call'.grant = 0
    BY <2>0, <2>1, <2>6, <1>a, CallMoves
  <2>8. row[t].status = "none" /\ UNCHANGED <<lease, grants, tokens, row>>
    BY <2>6, <2>7 DEF Provision, authorityVars
  <2>9. grants[t] = {} /\ tokens[t] = {} /\ ~Held(t)
    BY <2>8, <1>1, <1>c DEF NothingLeft
  <2> QED
    BY <2>0, <2>7, <2>8, <2>9 DEF NothingLeft, Attempting, Held
\* No attempt: what the row names only becomes less.
<1>2. ASSUME ~Attempting(t), ~Attempting(t)' PROVE NothingLeft(t)'
  <2>1. ~ProvisionGrant \/ call.task # t
    BY <1>2, <1>a, CallMoves DEF Goes, Attempting
  <2>2. ~ProvisionToken \/ call.task # t
    BY <1>2, <1>a, CallMoves DEF Goes, Attempting
  <2>3. ~ProvisionLease \/ call.task # t
    BY <1>2, <1>a, CallMoves DEF Goes, Attempting
  <2>4. grants'[t] \subseteq grants[t] /\ tokens'[t] \subseteq tokens[t] /\ (Held(t)' => Held(t))
    BY <2>1, <2>2, <2>3, AuthorityMoves
  <2>5. row'[t].status = row[t].status \/ row[t].status # "none"
    <3>1. CASE ProvisionRow
      <4>1. call.task # t
        BY <3>1, <1>2, <1>a, CallMoves DEF Attempting
      <4> QED
        BY <3>1, <4>1, <1>a DEF ProvisionRow
    <3>2. CASE RowReleased
      BY <3>2, <1>a DEF RowReleased, Typed, CallShape, Finishing
    <3> QED
      BY <3>1, <3>2, WhoWrites
  <2>6. row[t].status # "none" => row'[t].status # "none" /\ row'[t].grant = row[t].grant
    BY RowTyped
  <2> QED
    BY <2>4, <2>5, <2>6, <1>2, <1>c DEF NothingLeft
\* An attempt ends: with a row for what it made, or with nothing.
<1>3. ASSUME Attempting(t), ~Attempting(t)' PROVE NothingLeft(t)'
  <2>0. call.op \in {"provision", "undo"} /\ call.task = t /\ call' # call
    BY <1>3 DEF Attempting
  <2>1. ~(ProvisionLease \/ ProvisionGrant \/ ProvisionToken \/ ProvisionFails \/ UndoGrant \/ UndoLease)
    BY <2>0, <1>3, <1>a, CallMoves DEF Goes, Attempting
  <2>2. ~(CompleteTask \/ HandOver \/ RemoveTree \/ RowReleased \/ EndLease \/ Fence)
    BY <2>0, <1>a, CallMoves DEF Goes, Over, Finishing
  <2>3. /\ \A c \in Claim : ~VerifyClaim(c)
        /\ \A q \in Task : ~ReleaseTaskWorkspace(q) /\ ~Provision(q)
    BY <2>0, CallMoves, <1>a
  <2>4. ProvisionRow \/ UndoTree
    BY <2>0, <2>1, <2>2, <2>3, <1>b, WhoWrites
  <2>5. CASE ProvisionRow
    <3>1. /\ row'[t].status = "active" /\ row'[t].grant = call.grant
          /\ UNCHANGED <<lease, grants, tokens>>
      BY <2>0, <2>5, <1>a DEF ProvisionRow, authorityVars
    <3> QED
      BY <3>1, <1>3, <1>c DEF NothingLeft
  <2>6. CASE UndoTree
    <3>1. call.op = "undo" /\ call.step = "tree" /\ UNCHANGED <<lease, grants, tokens, row>>
      BY <2>6, <1>a, CallMoves DEF UndoTree, authorityVars
    <3>2. grants[t] = {} /\ tokens[t] = {} /\ (row[t].status = "none" => ~Held(t))
      BY <3>1, <1>3, <1>c DEF NothingLeft
    <3> QED
      BY <3>1, <3>2, <1>3 DEF NothingLeft, Held
  <2> QED
    BY <2>4, <2>5, <2>6
\* An attempt goes on.
<1>4. ASSUME Attempting(t), Attempting(t)' PROVE NothingLeft(t)'
  <2>0. /\ call.op \in {"provision", "undo"} /\ call.task = t
        /\ call'.op \in {"provision", "undo"} /\ call'.task = t
    BY <1>4 DEF Attempting
  <2>1. /\ grants[t] \subseteq {call.grant} /\ tokens[t] \subseteq {call.grant}
        /\ call.op = "undo" => tokens[t] = {} /\ (call.step # "grant" => grants[t] = {})
        /\ Held(t) => (call.op = "provision" => call.step # "lease") /\ (call.op = "undo" => call.step # "tree")
    BY <2>0, <1>4, <1>c, <1>d DEF NothingLeft
  <2> DEFINE Good == /\ grants'[t] \subseteq {call'.grant} /\ tokens'[t] \subseteq {call'.grant}
                     /\ call'.op = "undo" => tokens'[t] = {} /\ (call'.step # "grant" => grants'[t] = {})
                     /\ Held(t)' => /\ call'.op = "provision" => call'.step # "lease"
                                    /\ call'.op = "undo" => call'.step # "tree"
  <2>2. Good => NothingLeft(t)'
    BY <2>0, <1>4 DEF NothingLeft
  <2>3. CASE call' = call
    <3>1. ~ProvisionGrant /\ ~ProvisionToken /\ ~ProvisionLease
      BY <2>3, <1>a, CallMoves DEF Goes
    <3>2. grants'[t] \subseteq grants[t] /\ tokens'[t] \subseteq tokens[t] /\ (Held(t)' => Held(t))
      BY <3>1, AuthorityMoves
    <3> QED
      BY <3>2, <2>1, <2>2, <2>3
  <2>4. CASE ProvisionLease
    BY <2>4, <2>1, <2>2, <1>a, CallMoves DEF Goes, ProvisionLease
  <2>5. CASE ProvisionGrant
    <3>1. grants[t] = {} /\ tokens[t] = {}
      BY <2>0, <2>1, <2>5, <1>d, <1>4, <1>a, CallMoves DEF Goes
    <3>2. grants'[t] \subseteq grants[t] \cup {call'.grant} /\ tokens' = tokens
      BY <2>5, AuthorityMoves DEF ProvisionGrant
    <3> QED
      BY <3>1, <3>2, <2>2, <2>5, <1>a, CallMoves DEF Goes
  <2>6. CASE ProvisionToken
    <3>1. tokens'[t] \subseteq tokens[t] \cup {call.grant} /\ grants' = grants
      BY <2>6, AuthorityMoves DEF ProvisionToken
    <3> QED
      BY <3>1, <2>1, <2>2, <2>6, <1>a, CallMoves DEF Goes
  <2>7. CASE ProvisionFails
    <3>1. /\ tokens' = [tokens EXCEPT ![call.task] = @ \ {call.grant}] /\ grants' = grants /\ lease' = lease
      BY <2>7 DEF ProvisionFails
    <3>2. tokens'[t] = {}
      BY <2>0, <2>1, <3>1 DEF Typed, CallTyped
    <3>3. /\ call'.op = "undo" /\ call'.grant = call.grant /\ call.op = "provision"
          /\ call'.step = IF call.step = "lease" THEN "tree" ELSE "grant"
      BY <2>7, <1>a, CallMoves DEF Goes
    <3>4. call.step = "lease" => grants[t] = {}
      BY <2>1, <3>3, <1>d, <1>4
    <3> QED
      BY <3>1, <3>2, <3>3, <3>4, <2>1, <2>2 DEF Held
  <2>8. CASE UndoGrant
    <3>1. grants' = [grants EXCEPT ![call.task] = @ \ {call.grant}] /\ tokens' = tokens /\ lease' = lease
      BY <2>8 DEF UndoGrant
    <3>2. grants'[t] = {}
      BY <2>0, <2>1, <3>1 DEF Typed, CallTyped
    <3> QED
      BY <3>1, <3>2, <2>1, <2>2, <2>8, <1>a, CallMoves DEF Goes
  <2>9. CASE UndoLease
    <3>1. /\ lease' = IF Held(t) THEN Released(t) ELSE lease
          /\ grants' = grants /\ tokens' = tokens
      BY <2>0, <2>9 DEF UndoLease
    <3>2. ~Held(t)'
      BY <3>1 DEF Held, Released, Typed, TypeOK
    <3> QED
      BY <3>1, <3>2, <2>1, <2>2, <2>9, <1>a, CallMoves DEF Goes
  <2>10. CASE call' # call /\ ~(ProvisionLease \/ ProvisionGrant \/ ProvisionToken \/ ProvisionFails
                                \/ UndoGrant \/ UndoLease)
    <3>1. ~(CompleteTask \/ HandOver \/ RemoveTree \/ RowReleased \/ EndLease \/ Fence)
      BY <2>0, <1>a, CallMoves DEF Goes, Over, Finishing
    <3>2. ~ProvisionRow /\ ~UndoTree
      BY <2>0, <1>a, CallMoves DEF Goes, Over
    <3>3. /\ \A c \in Claim : ~VerifyClaim(c)
          /\ \A q \in Task : ~ReleaseTaskWorkspace(q) /\ ~Provision(q)
      BY <2>0, <1>a, CallMoves
    <3> QED
      BY <3>1, <3>2, <3>3, <2>10, <1>b, WhoWrites
  <2> QED
    BY <2>3, <2>4, <2>5, <2>6, <2>7, <2>8, <2>9, <2>10
<1> QED
  BY <1>1, <1>2, <1>3, <1>4

-----------------------------------------------------------------------------
(* The theorems *)

\* The inductive invariant: what is true between any two steps of gamd, of git and of the agents.
THEOREM WorkspaceInvariant == Spec => []IInv
<1>1. Init => IInv
  BY InitHolds
<1>2. IInv /\ [Next]_workspaceVars => IInv'
  <2> SUFFICES ASSUME IInv, [Next]_workspaceVars PROVE IInv'
    OBVIOUS
  <2>1. Typed /\ ClaimsHaveRows /\ VerifiedIsEarned /\ DoneIsVerified /\ HandedOver /\ Fenced /\ NoLeftovers
    BY DEF IInv, Typed
  <2>2. Typed'
    BY <2>1, TypeStep
  <2>3. ClaimsHaveRows' /\ VerifiedIsEarned' /\ DoneIsVerified' /\ HandedOver' /\ Fenced' /\ NoLeftovers'
    BY <2>1, ClaimsStep, EarnedStep, DoneStep, HandedStep, FencedStep, LeftoversStep
  <2> QED
    BY <2>2, <2>3 DEF IInv, Typed
<1> QED
  BY <1>1, <1>2, PTL DEF Spec

\* Every variable keeps its type; grants are numbered as issued, and a row names a lease and a grant
\* there were.
THEOREM WorkspaceTypes == Spec => []TypeOK
<1>1. IInv => TypeOK
  BY DEF IInv
<1> QED
  BY <1>1, WorkspaceInvariant, PTL

\* However gamd stops and git fails, a task completed by machine names a claim that was verified in its
\* own workspace, of a commit made there.
THEOREM CompletionsAreEarned == Spec => []CompletionIsEarned
<1>1. IInv => CompletionIsEarned
  BY DEF IInv, DoneIsVerified, VerifiedIsEarned, CompletionIsEarned, TypeOK
<1> QED
  BY <1>1, WorkspaceInvariant, PTL

\* No completed work item of the organization stays without its hand-over to review while gamd serves
\* requests and none is under way.
THEOREM CompletionsAreHandedOver == Spec => []CompletionIsHandedOver
<1>1. IInv => CompletionIsHandedOver
  BY DEF IInv, HandedOver, CompletionIsHandedOver, Ready
<1> QED
  BY <1>1, WorkspaceInvariant, PTL

\* A release or clean-up that ran to its end leaves no authority of the workspace, ever after.
THEOREM AnswersAreFenced == Spec => []AnsweredIsFenced
<1>1. IInv => AnsweredIsFenced
  BY DEF IInv, Fenced, LeaseIsOver, GrantIsGone, AnsweredIsFenced
<1> QED
  BY <1>1, WorkspaceInvariant, PTL

\* As long as gamd never stopped there is, between two requests, no authority but what rows name: an
\* attempt to provide a workspace that fails at any step takes back all it made.  (The invariant
\* LeftoversAreOfCrashes counts what stops left in addition.)
NothingLeftBetweenRequests ==
  crashes = 0 /\ call.op = "idle" =>
    \A t \in Task : IF row[t].status = "none" THEN grants[t] = {} /\ tokens[t] = {} /\ ~Held(t)
                                             ELSE grants[t] \cup tokens[t] \subseteq {row[t].grant}
THEOREM FailuresLeaveNothing == Spec => []NothingLeftBetweenRequests
<1>1. IInv => NothingLeftBetweenRequests
  <2> SUFFICES ASSUME IInv, crashes = 0, call.op = "idle", NEW t \in Task
               PROVE  IF row[t].status = "none" THEN grants[t] = {} /\ tokens[t] = {} /\ ~Held(t)
                                              ELSE grants[t] \cup tokens[t] \subseteq {row[t].grant}
    BY DEF NothingLeftBetweenRequests
  <2>1. NothingLeft(t) /\ ~Attempting(t)
    BY DEF IInv, NoLeftovers, Attempting
  <2> QED
    BY <2>1 DEF NothingLeft
<1> QED
  BY <1>1, WorkspaceInvariant, PTL

\* Of the steps that change a worktree none removes one with files that are not committed: not the
\* undoing of an attempt, not a release, not the clean-up after completion.
THEOREM DirtyTreesStay == Spec => UncommittedWorkKept
<1>1. IInv /\ [Next]_workspaceVars =>
        [\A t \in Task : git[t].tree = "dirty" => git'[t].tree # "none"]_workspaceVars
  <2> SUFFICES ASSUME IInv, [Next]_workspaceVars, NEW t \in Task, git[t].tree = "dirty"
               PROVE  git'[t].tree # "none"
    OBVIOUS
  <2>1. git \in [Task -> [branch: Commit \cup {Null}, tree: Tree]]
    BY DEF IInv, TypeOK
  <2>2. CASE UndoTree \/ RemoveTree
    BY <2>1, <2>2 DEF UndoTree, RemoveTree, Removable, Clean
  <2>3. ASSUME NEW q \in Task, Works(q) PROVE git'[t].tree # "none"
    BY <2>1, <2>3 DEF Works
  <2>4. ASSUME NEW q \in Task, TreeForgotten(q) PROVE git'[t].tree # "none"
    BY <2>1, <2>4 DEF TreeForgotten
  <2>5. ASSUME NEW q \in Task, Provision(q) PROVE git'[t].tree # "none"
    BY <2>1, <2>5 DEF Provision
  <2> QED
    BY <2>2, <2>3, <2>4, <2>5, WhoWrites
<1> QED
  BY <1>1, WorkspaceInvariant, PTL DEF Spec, UncommittedWorkKept

\* A completion is never replaced, and a claim is found verified only while its worktree is clean.
THEOREM VerdictsStay == Spec => VerdictsAreFinal
<1>1. IInv /\ [Next]_workspaceVars =>
        [\A t \in Task :
           /\ done[t] # Null => done'[t] = done[t]
           /\ \A c \in Claim : claim[c].status = "submitted" /\ claim'[c].status = "verified"
                               /\ claim[c].task = t /\ row[t].status # "none" => Clean(t)]_workspaceVars
  <2> SUFFICES ASSUME IInv, [Next]_workspaceVars, NEW t \in Task
               PROVE  /\ done[t] # Null => done'[t] = done[t]
                      /\ \A c \in Claim : claim[c].status = "submitted" /\ claim'[c].status = "verified"
                                          /\ claim[c].task = t /\ row[t].status # "none" => Clean(t)
    OBVIOUS
  <2>1. done[t] # Null => done'[t] = done[t]
    <3>1. CASE CompleteTask
      BY <3>1 DEF CompleteTask, IInv, TypeOK
    <3> QED
      BY <3>1, WhoWrites
  <2>2. ASSUME NEW c \in Claim, claim[c].status = "submitted", claim'[c].status = "verified",
               claim[c].task = t, row[t].status # "none"
        PROVE  Clean(t)
    <3>1. VerifyClaim(c)
      <4>1. \A q \in Task : ~SubmitClaim(c, q)
        BY <2>2 DEF SubmitClaim
      <4> QED
        BY <2>2, <4>1, StatusWriters DEF IInv, Typed
    <3>2. Passes(c)
      BY <2>2, <3>1 DEF VerifyClaim, IInv, TypeOK
    <3> QED
      BY <2>2, <3>2 DEF Passes, CommitIsWorkspaceHead
  <2> QED
    BY <2>1, <2>2
<1> QED
  BY <1>1, WorkspaceInvariant, PTL DEF Spec, VerdictsAreFinal

\* Neither a completion nor a file that is not committed is lost: what a task was completed with stays,
\* and so does what its agent has in the worktree.
THEOREM WorkStaysKept == Spec => WorkIsKept
<1> QED
  BY DirtyTreesStay, VerdictsStay DEF WorkIsKept

-----------------------------------------------------------------------------
(* How much authority may be left, counted *)

\* What no attempt under way accounts for: of that there is one grant for each stop of gamd.
Settled ==
  IF call.op \in {"provision", "undo"} THEN Leftovers \ {<<call.task, call.grant>>} ELSE Leftovers

Counted ==
  /\ \A t \in Task : row[t].status = "none" => row[t].grant = 0
  /\ call.op = "undo" => /\ call.grant \notin tokens[call.task]
                         /\ call.step # "grant" => call.grant \notin grants[call.task]
  /\ IsFiniteSet(Settled) /\ Cardinality(Settled) <= crashes

\* The same, pair by pair.
Unclaimed(t, g) ==
  /\ g \in grants[t] \cup tokens[t] /\ g # row[t].grant
  /\ call.op \in {"provision", "undo"} /\ call.task = t => g # call.grant

LEMMA SettledIs ==
  ASSUME NEW x
  PROVE  x \in Settled <=> \E t \in Task : \E g : x = <<t, g>> /\ Unclaimed(t, g)
<1>1. x \in Leftovers <=> \E t \in Task : \E g \in grants[t] \cup tokens[t] : x = <<t, g>> /\ g # row[t].grant
  BY DEF Leftovers
<1> QED
  BY <1>1 DEF Settled, Unclaimed

LEMMA SettledThen ==
  ASSUME NEW x
  PROVE  x \in Settled' <=> \E t \in Task : \E g : x = <<t, g>> /\ Unclaimed(t, g)'
<1>1. x \in Leftovers' <=> \E t \in Task : \E g : x = <<t, g>> /\ g \in grants'[t] \cup tokens'[t] /\ g # row'[t].grant
  BY DEF Leftovers
<1> QED
  BY <1>1 DEF Settled, Unclaimed

\* No handler but a stop of gamd adds to what is left.
LEMMA NothingIsAdded ==
  ASSUME Typed, Typed', Counted, [Next]_workspaceVars, ~Crash, NEW t \in Task, NEW g, Unclaimed(t, g)'
  PROVE  Unclaimed(t, g)
<1>a. /\ call \in CallRow /\ row \in [Task -> RowRow]
      /\ call.op # "idle" => call.task \in Task
      /\ grants \in [Task -> SUBSET Nat] /\ tokens \in [Task -> SUBSET Nat]
  BY DEF Typed, TypeOK, CallTyped, CallShape, CallRow, RowRow
<1>b. /\ g \in grants'[t] \cup tokens'[t] /\ g # row'[t].grant
      /\ call'.op \in {"provision", "undo"} /\ call'.task = t => g # call'.grant
  BY DEF Unclaimed
<1>c. g # 0
  BY <1>b DEF Typed, TypeOK
<1>1. CASE ProvisionRow
  <2>0. call.op = "provision" /\ call.step = "row" /\ call.task \in Task
    BY <1>1, <1>a, CallMoves
  <2>1. row' = [row EXCEPT ![call.task] = [status |-> "active", base |-> call.base, epoch |-> lease[call.task].epoch,
                                           grant |-> call.grant]]
    BY <1>1 DEF ProvisionRow
  <2>2. UNCHANGED <<grants, tokens>>
    BY <1>1 DEF ProvisionRow, authorityVars
  <2>3. row[call.task].grant = 0
    BY <2>0 DEF Counted, Typed, CallShape
  <2>4. CASE t = call.task
    <3>1. row'[t].grant = call.grant
      BY <2>1, <2>4, <1>a
    <3> QED
      BY <2>2, <2>3, <2>4, <3>1, <1>b, <1>c DEF Unclaimed
  <2>5. CASE t # call.task
    <3>1. row'[t] = row[t]
      BY <2>1, <2>5, <1>a
    <3> QED
      BY <2>2, <2>5, <3>1, <1>b DEF Unclaimed
  <2> QED
    BY <2>4, <2>5
<1>2. CASE ~ProvisionRow
  <2>1. row'[t].grant = row[t].grant
    <3>1. CASE RowReleased
      BY <3>1, <1>a DEF RowReleased, RowRow
    <3> QED
      BY <3>1, <1>2, WhoWrites
  <2>2. CASE ProvisionGrant
    <3>1. /\ call.op = "provision" /\ call.step = "grant" /\ call'.op = "provision" /\ call'.task = call.task
      BY <2>2, <1>a, CallMoves DEF Goes
    <3>2. call.grant = 0
      BY <3>1 DEF Typed, CallShape
    <3>3. g \in grants[t] \cup tokens[t]
      BY <2>2, <3>1, <1>b, AuthorityMoves DEF ProvisionGrant, ProvisionToken, AtStep
    <3> QED
      BY <3>2, <3>3, <2>1, <1>b, <1>c DEF Unclaimed
  <2>3. CASE UndoTree
    <3>1. call.op = "undo" /\ call.step = "tree" /\ UNCHANGED <<grants, tokens>>
      BY <2>3, <1>a, CallMoves DEF UndoTree, authorityVars
    <3>2. call.grant \notin grants[call.task] \cup tokens[call.task]
      BY <3>1 DEF Counted
    <3> QED
      BY <3>1, <3>2, <2>1, <1>b DEF Unclaimed
  <2>4. CASE ~ProvisionGrant /\ ~UndoTree
    <3>1. call.op \in {"provision", "undo"} => /\ call'.op \in {"provision", "undo"} /\ call'.task = call.task
                                               /\ call'.grant = call.grant
      BY <2>4, <1>2, <1>a, WhoWrites, CallMoves DEF Goes, Finishing
    <3>2. ASSUME call.op \in {"provision", "undo"}, call.task = t PROVE g # call.grant
      BY <3>1, <3>2, <1>b
    <3>3. g \in grants[t] \cup tokens[t]
      <4>1. CASE ProvisionToken
        <5>1. call.op = "provision"
          BY <4>1, <1>a, CallMoves DEF Goes
        <5> QED
          BY <4>1, <5>1, <2>4, <3>2, <1>b, AuthorityMoves
      <4> QED
        BY <4>1, <2>4, <1>b, AuthorityMoves
    <3> QED
      BY <3>2, <3>3, <2>1, <1>b DEF Unclaimed
  <2> QED
    BY <2>2, <2>3, <2>4
<1> QED
  BY <1>1, <1>2

LEMMA UndoneFirst ==
  ASSUME Typed, Typed', Counted, [Next]_workspaceVars, call'.op = "undo"
  PROVE  /\ call'.grant \notin tokens'[call'.task]
         /\ call'.step # "grant" => call'.grant \notin grants'[call'.task]
<1>a. /\ call \in CallRow /\ call'.task \in Task
      /\ grants \in [Task -> SUBSET Nat] /\ tokens \in [Task -> SUBSET Nat]
  BY DEF Typed, TypeOK, CallTyped, CallShape, CallRow
<1>1. CASE ProvisionFails
  <2>1. /\ call'.task = call.task /\ call'.grant = call.grant /\ call.op = "provision"
        /\ call'.step # "grant" => call.step = "lease"
    BY <1>1, <1>a, CallMoves DEF Goes
  <2>2. tokens' = [tokens EXCEPT ![call.task] = tokens[call.task] \ {call.grant}] /\ grants' = grants
    BY <1>1 DEF ProvisionFails
  <2>3. call.step = "lease" => call.grant \notin grants[call.task]
    BY <2>1, <1>a DEF Typed, TypeOK, CallShape
  <2> QED
    BY <2>1, <2>2, <2>3, <1>a
<1>2. CASE UndoGrant
  <2>1. call'.task = call.task /\ call'.grant = call.grant /\ call.op = "undo"
    BY <1>2, <1>a, CallMoves DEF Goes
  <2>2. grants' = [grants EXCEPT ![call.task] = grants[call.task] \ {call.grant}] /\ tokens' = tokens
    BY <1>2 DEF UndoGrant
  <2> QED
    BY <2>1, <2>2, <1>a DEF Counted
<1>3. CASE ~ProvisionFails /\ ~UndoGrant
  <2>1. /\ call.op = "undo" /\ call'.task = call.task /\ call'.grant = call.grant
        /\ call.step # "grant" \/ call'.step = call.step
    <3>1. ~Crash /\ ~ProvisionLease /\ ~ProvisionGrant /\ ~ProvisionToken /\ ~ProvisionRow /\ ~UndoTree
      BY <1>a, CallMoves DEF Goes, Over
    <3>2. ~CompleteTask /\ ~HandOver /\ ~RemoveTree /\ ~RowReleased /\ ~EndLease /\ ~Fence
      BY <1>a, CallMoves DEF Goes, Over, Finishing
    <3>3. /\ \A t \in Task : ~ReleaseTaskWorkspace(t) /\ (Provision(t) => call' = call)
          /\ \A c \in Claim : ~VerifyClaim(c)
      BY <1>a, CallMoves DEF Over
    <3> QED
      BY <3>1, <3>2, <3>3, <1>3, <1>a, WhoWrites, CallMoves DEF Goes
  <2>2. grants'[call.task] \subseteq grants[call.task] /\ tokens'[call.task] \subseteq tokens[call.task]
    <3>1. ~ProvisionGrant /\ ~ProvisionToken
      BY <2>1 DEF ProvisionGrant, ProvisionToken, AtStep
    <3> QED
      BY <2>1, <3>1, <1>a, AuthorityMoves
  <2> QED
    BY <2>1, <2>2 DEF Counted
<1> QED
  BY <1>1, <1>2, <1>3

LEMMA CountStep ==
  ASSUME Typed, Typed', Counted, [Next]_workspaceVars PROVE Counted'
<1>0. crashes \in Nat
  BY WorkspaceAssumption DEF Typed, TypeOK
<1>1. \A t \in Task : row'[t].status = "none" => row'[t].grant = 0
  <2>0. row \in [Task -> RowRow] /\ (call.op # "idle" => call.task \in Task)
    BY DEF Typed, TypeOK, CallShape, RowRow
  <2>1. CASE ProvisionRow
    <3>1. row' = [row EXCEPT ![call.task] = [status |-> "active", base |-> call.base,
                                             epoch |-> lease[call.task].epoch, grant |-> call.grant]]
      BY <2>1 DEF ProvisionRow
    <3> QED
      BY <3>1, <2>0 DEF Counted
  <2>2. CASE RowReleased
    BY <2>0, <2>2 DEF RowReleased, Counted, RowRow
  <2>3. CASE row' = row
    BY <2>3 DEF Counted
  <2> QED
    BY <2>1, <2>2, <2>3, WhoWrites
<1>2. call'.op = "undo" => /\ call'.grant \notin tokens'[call'.task]
                           /\ call'.step # "grant" => call'.grant \notin grants'[call'.task]
  BY UndoneFirst
<1>3. IsFiniteSet(Settled') /\ Cardinality(Settled') <= crashes'
  <2>1. CASE Crash
    <3>1. crashes' = crashes + 1 /\ call' = NoCall /\ UNCHANGED <<grants, tokens, row>>
      BY <2>1 DEF Crash, authorityVars
    <3>2. PICK S : S = Settled
      OBVIOUS
    <3>3. PICK x : x = <<call.task, call.grant>>
      OBVIOUS
    <3>4. Settled' \subseteq S \cup {x}
      <4>1. Settled' = Leftovers
        BY <3>1 DEF Settled, NoCall, Leftovers
      <4> QED
        BY <4>1, <3>2, <3>3 DEF Settled
    <3>5. IsFiniteSet(S) /\ Cardinality(S) <= crashes /\ Cardinality(S) \in Nat
      BY <3>2, FS_CardinalityType DEF Counted
    <3>6. IsFiniteSet(S \cup {x}) /\ Cardinality(S \cup {x}) <= crashes + 1 /\ Cardinality(S \cup {x}) \in Nat
      <4>1. /\ IsFiniteSet(S \cup {x})
            /\ \/ Cardinality(S \cup {x}) = Cardinality(S)
               \/ Cardinality(S \cup {x}) = Cardinality(S) + 1
        BY <3>5, FS_AddElement
      <4> QED
        BY <4>1, <3>5, <1>0
    <3>7. IsFiniteSet(Settled') /\ Cardinality(Settled') <= Cardinality(S \cup {x})
      BY <3>4, <3>6, FS_Subset
    <3>8. Cardinality(Settled') \in Nat
      BY <3>7, FS_CardinalityType
    <3> QED
      BY <3>1, <3>6, <3>7, <3>8, <1>0
  <2>2. CASE ~Crash
    <3>1. crashes' = crashes
      BY <2>2, WhoWrites DEF Startup, processCounts
    <3>2. Settled' \subseteq Settled
      <4> SUFFICES ASSUME NEW x \in Settled' PROVE x \in Settled
        OBVIOUS
      <4>1. PICK t \in Task : \E g : x = <<t, g>> /\ Unclaimed(t, g)'
        BY SettledThen
      <4>2. PICK g : x = <<t, g>> /\ Unclaimed(t, g)'
        BY <4>1
      <4>3. Unclaimed(t, g)
        BY <2>2, <4>2, NothingIsAdded
      <4> QED
        BY <4>2, <4>3, SettledIs
    <3>3. IsFiniteSet(Settled) /\ Cardinality(Settled) <= crashes /\ Cardinality(Settled) \in Nat
      BY FS_CardinalityType DEF Counted
    <3>4. IsFiniteSet(Settled') /\ Cardinality(Settled') <= Cardinality(Settled)
      BY <3>2, <3>3, FS_Subset
    <3>5. Cardinality(Settled') \in Nat
      BY <3>4, FS_CardinalityType
    <3> QED
      BY <3>1, <3>3, <3>4, <3>5, <1>0
  <2> QED
    BY <2>1, <2>2
<1> QED
  BY <1>1, <1>2, <1>3 DEF Counted

LEMMA CountInit == Init => Counted
<1> SUFFICES ASSUME Init PROVE Counted
  OBVIOUS
<1>1. Settled = {}
  <2>1. \A t \in Task : grants[t] \cup tokens[t] = {}
    BY DEF Init
  <2>2. ASSUME NEW x \in Settled PROVE FALSE
    <3>1. PICK t \in Task : \E g : x = <<t, g>> /\ Unclaimed(t, g)
      BY SettledIs
    <3> QED
      BY <2>1, <3>1 DEF Unclaimed
  <2> QED
    BY <2>2
<1>2. crashes = 0 /\ call.op = "idle" /\ \A t \in Task : row[t].grant = 0
  BY DEF Init, NoCall, NoRow
<1> QED
  BY <1>1, <1>2, FS_EmptySet DEF Counted

\* An attempt to provide a workspace that fails, wherever it fails, leaves neither a grant nor a token
\* file nor a held lease: what there is of them without a workspace was left by a stop of gamd, and
\* each stop left one grant at most.
THEOREM LeftoversAreCounted == Spec => []LeftoversAreOfCrashes
<1>1. Init => Counted
  BY CountInit
<1>2. IInv /\ IInv' /\ Counted /\ [Next]_workspaceVars => Counted'
  BY CountStep DEF IInv, Typed
<1>3. IInv /\ Counted => LeftoversAreOfCrashes
  <2> SUFFICES ASSUME IInv, Counted, call.op = "idle"
               PROVE  /\ Cardinality(Leftovers) <= crashes
                      /\ \A t \in Task : row[t].status = "none" /\ Held(t) => crashes > 0
    BY DEF LeftoversAreOfCrashes
  <2>1. Cardinality(Leftovers) <= crashes
    BY DEF Counted, Settled
  <2>2. ASSUME NEW t \in Task, row[t].status = "none", Held(t) PROVE crashes > 0
    <3>1. crashes # 0
      BY <2>2 DEF IInv, NoLeftovers, NothingLeft, Attempting
    <3>2. crashes \in Nat
      BY WorkspaceAssumption DEF IInv, TypeOK
    <3> QED
      BY <3>1, <3>2
  <2> QED
    BY <2>1, <2>2
<1> QED
  BY <1>1, <1>2, <1>3, WorkspaceInvariant, PTL DEF Spec

-----------------------------------------------------------------------------
(* The database.  What a migration wants is there once it was made, and no  *)
(* part ever goes, so a process has every part of the migrations behind it. *)

Number == 1 .. Latest
Place == {"closed", "migrating", "rebuilding", "open", "failed"}

MigrationTypeOK ==
  /\ version \in 0 .. Latest /\ stops \in Nat
  /\ slot \in [chat : BOOLEAN, gen : Nat]
  /\ lineage \subseteq [gen : Nat, active : BOOLEAN]
  /\ workspace \in {"none", "provisioning", "configuring", "ready"}
  /\ opener \in [Opener -> [at : Place, next : 0 .. Latest + 1]]

Brought(n) == \A m \in Number : m < n => Wanted(Chain[m]) \subseteq schema
SecurityMode == <<"agent_workspaces", "security_mode">>

Stands(o) ==
  /\ opener[o].at = "open" => Brought(Latest + 1)
  /\ opener[o].at = "migrating" => Brought(opener[o].next)
  /\ opener[o].at = "rebuilding" => Brought(Rebuild) /\ opener[o].next = Rebuild
Secured == SecurityMode \in schema => workspace # "provisioning"
PartsAreBrought == Brought(version + 1) /\ (\A o \in Opener : Stands(o)) /\ Secured

\* The migration that counts the conversation a slot had is behind some process.
Numbered ==
  \/ version >= 13
  \/ \E o \in Opener : \/ opener[o].at = "open"
                       \/ opener[o].at \in {"migrating", "rebuilding"} /\ opener[o].next > 13

LineageFollows ==
  /\ slot.gen = 0 => lineage = {}
  /\ slot.gen > 0 => /\ slot.chat
                     /\ \A c \in lineage : c.gen <= slot.gen /\ (c.active <=> c.gen = slot.gen)
                     /\ \E c \in lineage : c.gen = slot.gen
  /\ Numbered /\ slot.chat => slot.gen > 0

MigrationInv == MigrationTypeOK /\ PartsAreBrought /\ LineageFollows

LEMMA ChainAdds ==
  ASSUME NEW n \in Number, NEW c \in Chain[n].adds
  PROVE  n \in {3, 5, 7, 9, 10, 12, 13, 18, 26}
<1>1. \/ n = 1 \/ n = 2 \/ n = 3 \/ n = 4 \/ n = 5 \/ n = 6 \/ n = 7 \/ n = 8 \/ n = 9
      \/ n = 10 \/ n = 11 \/ n = 12 \/ n = 13 \/ n = 14 \/ n = 15 \/ n = 16 \/ n = 17 \/ n = 18
      \/ n = 19 \/ n = 20 \/ n = 21 \/ n = 22 \/ n = 23 \/ n = 24 \/ n = 25 \/ n = 26 \/ n = 27
  BY DEF Number, Latest
<1>0. \A tables : Makes(tables).adds = {}
  BY DEF Makes, Migration
<1>a. ASSUME n = 1 \/ n = 2 \/ n = 4 \/ n = 6 \/ n = 8 \/ n = 11 PROVE  Chain[n].adds = {}
  BY <1>a, <1>0 DEF Chain, MigrateV1, MigrateV2, MigrateV4, MigrateV6, MigrateV8, MigrateV11
<1>b. ASSUME n = 14 \/ n = 15 \/ n = 16 \/ n = 17 \/ n = 19 \/ n = 20 PROVE  Chain[n].adds = {}
  BY <1>b, <1>0 DEF Chain, MigrateV14, MigrateV15, MigrateV16, MigrateV17, MigrateV19, MigrateV20
<1>c. ASSUME n = 21 \/ n = 22 \/ n = 23 \/ n = 24 \/ n = 25 \/ n = 27 PROVE  Chain[n].adds = {}
  BY <1>c, <1>0 DEF Chain, MigrateV21, MigrateV22, MigrateV23, MigrateV24, MigrateV25, MigrateV27, Migration
<1> QED
  BY <1>1, <1>a, <1>b, <1>c

LEMMA ChainHas ==
  ASSUME NEW n \in Number
  PROVE  /\ n # Rebuild => SecurityMode \notin Chain[n].adds
         /\ n = Rebuild => Chain[n] = MigrateV18
<1>1. n = Rebuild => Chain[n] = MigrateV18
  BY DEF Chain, Rebuild
<1>2. ASSUME NEW c \in Chain[n].adds, n # Rebuild PROVE c[1] # "agent_workspaces"
  <2>1. n \in {3, 5, 7, 9, 10, 12, 13, 26}
    BY <1>2, ChainAdds DEF Rebuild
  <2> QED
    BY <1>2, <2>1 DEF Chain, Adds, Migration, MigrateV3, MigrateV5, MigrateV7, MigrateV9, MigrateV10,
       MigrateV12, MigrateV13, MigrateV26
<1> QED
  BY <1>1, <1>2 DEF SecurityMode

\* A migration takes nothing away and brings what it wants.
LEMMA AfterHas ==
  ASSUME NEW parts, NEW m
  PROVE  parts \subseteq After(parts, m) /\ Wanted(m) \subseteq After(parts, m)
<1>1. parts \subseteq After(parts, m)
  BY DEF After
<1>2. m.adds \cup m.remakes \X {"*", "guarded"} \subseteq After(parts, m)
  BY DEF After
<1>3. m.makes \X {"*"} \subseteq After(parts, m)
  <2> SUFFICES ASSUME NEW t \in m.makes PROVE <<t, "*">> \in After(parts, m)
    OBVIOUS
  <2>1. <<t, "*">> \in parts \/ t \in New(parts, m.makes)
    BY DEF New, Has
  <2> QED
    BY <1>1, <2>1 DEF After
<1> QED
  BY <1>1, <1>2, <1>3 DEF Wanted

LEMMA MadeWithout == SecurityMode \notin MadeWith
BY DEF SecurityMode, MadeWith, MigrateV7, MigrateV10, Adds, Migration

LEMMA OnlyRebuildSecures ==
  ASSUME NEW parts, NEW n \in Number \ {Rebuild}, SecurityMode \notin parts
  PROVE  SecurityMode \notin After(parts, Chain[n])
<1>1. SecurityMode \notin Chain[n].adds
  BY ChainHas
<1>2. \A T : SecurityMode \notin T \X {"*"} /\ SecurityMode \notin T \X {"*", "guarded"}
  BY DEF SecurityMode
<1> QED
  BY <1>1, <1>2, MadeWithout DEF After

LEMMA RebuildBrings == MigrateV18.adds = {SecurityMode} /\ Wanted(MigrateV18) = {SecurityMode}
BY DEF MigrateV18, Wanted, Adds, Migration, SecurityMode

LEMMA MigrationInit == InitDatabase => MigrationInv
<1> SUFFICES ASSUME InitDatabase PROVE MigrationInv
  OBVIOUS
<1>1. MigrationTypeOK
  <2>1. version \in 0 .. Latest /\ stops \in Nat
    BY DEF InitDatabase
  <2>2. slot \in [chat : BOOLEAN, gen : Nat]
    <3>1. \A b \in BOOLEAN, n \in {0, 1} : [chat |-> b, gen |-> n] \in [chat : BOOLEAN, gen : Nat]
      OBVIOUS
    <3>2. \E b \in BOOLEAN, n \in {0, 1} : slot = [chat |-> b, gen |-> n]
      <4>1. CASE version = 0
        BY <4>1 DEF InitDatabase
      <4>2. CASE version # 0
        <5>1. PICK b \in BOOLEAN : slot = [chat |-> b, gen |-> IF b /\ version >= 13 THEN 1 ELSE 0]
          BY <4>2 DEF InitDatabase
        <5> QED
          BY <5>1
      <4> QED
        BY <4>1, <4>2
    <3> QED
      BY <3>1, <3>2
  <2>3. lineage \subseteq [gen : Nat, active : BOOLEAN]
    <3>1. [gen |-> 1, active |-> TRUE] \in [gen : Nat, active : BOOLEAN]
      OBVIOUS
    <3> QED
      BY <3>1 DEF InitDatabase
  <2>4. workspace \in {"none", "provisioning", "configuring", "ready"}
    BY DEF InitDatabase
  <2>5. opener \in [Opener -> [at : Place, next : 0 .. Latest + 1]]
    BY DEF InitDatabase, Place, Latest
  <2> QED
    BY <2>1, <2>2, <2>3, <2>4, <2>5 DEF MigrationTypeOK
<1>2. ASSUME NEW m \in Number, m < version + 1 PROVE Wanted(Chain[m]) \subseteq schema
  <2>1. UNION {Wanted(Chain[n]) : n \in 1 .. version} \subseteq schema
    BY DEF InitDatabase, Left
  <2>2. m \in 1 .. version
    BY <1>1, <1>2 DEF MigrationTypeOK, Number
  <2> QED
    BY <2>1, <2>2
<1>3. SecurityMode \in schema => workspace # "provisioning"
  <2> SUFFICES ASSUME workspace = "provisioning" PROVE SecurityMode \notin schema
    OBVIOUS
  <2>1. version = 17
    BY <1>1 DEF InitDatabase, MigrationTypeOK
  <2>2. ASSUME NEW n \in 1 .. version PROVE SecurityMode \notin Wanted(Chain[n])
    <3>1. n \in Number /\ n # Rebuild
      BY <2>1 DEF Number, Latest, Rebuild
    <3>2. \A T : SecurityMode \notin T \X {"*"} /\ SecurityMode \notin T \X {"*", "guarded"}
      BY DEF SecurityMode
    <3> QED
      BY <3>1, <3>2, ChainHas DEF Wanted
  <2>3. \A c \in schema : c \in MadeWith \/ \E n \in 1 .. version : c \in Wanted(Chain[n])
    BY DEF InitDatabase, Left
  <2> QED
    BY <2>2, <2>3, MadeWithout
<1>4. \A o \in Opener : opener[o].at = "closed"
  BY DEF InitDatabase
<1>5. PartsAreBrought
  BY <1>2, <1>3, <1>4 DEF PartsAreBrought, Brought, Stands, Secured
<1>6. LineageFollows
  <2>1. Numbered => version >= 13
    BY <1>4 DEF Numbered
  <2>2. version \in 0 .. Latest
    BY <1>1 DEF MigrationTypeOK
  <2>3. CASE version = 0
    BY <2>1, <2>3 DEF InitDatabase, LineageFollows
  <2>4. CASE version # 0
    <3>1. PICK b \in BOOLEAN : slot = [chat |-> b, gen |-> IF b /\ version >= 13 THEN 1 ELSE 0]
      BY <2>4 DEF InitDatabase
    <3>2. lineage = IF version >= 13 /\ slot.chat THEN {[gen |-> 1, active |-> TRUE]} ELSE {}
      BY DEF InitDatabase
    <3>3. CASE b /\ version >= 13
      <4>1. slot.gen = 1 /\ slot.chat /\ lineage = {[gen |-> 1, active |-> TRUE]}
        BY <3>1, <3>2, <3>3
      <4>2. \A c \in lineage : c.gen = 1 /\ c.active = TRUE
        BY <4>1
      <4>3. \E c \in lineage : c.gen = 1
        BY <4>1
      <4> QED
        BY <4>1, <4>2, <4>3 DEF LineageFollows
    <3>4. CASE ~(b /\ version >= 13)
      BY <3>1, <3>2, <3>4, <2>1 DEF LineageFollows
    <3> QED
      BY <3>3, <3>4
  <2> QED
    BY <2>3, <2>4
<1> QED
  BY <1>1, <1>5, <1>6 DEF MigrationInv

-----------------------------------------------------------------------------
(* Where a process goes *)

LEMMA OpenerMoves ==
  ASSUME MigrationTypeOK, NEW o \in Opener, NEW at \in Place, NEW next \in 0 .. Latest + 1,
         Goto(o, at, next)
  PROVE  /\ opener' \in [Opener -> [at : Place, next : 0 .. Latest + 1]]
         /\ opener'[o].at = at /\ opener'[o].next = next
         /\ \A q \in Opener : q # o => opener'[q] = opener[q]
<1>1. /\ opener \in [Opener -> [at : Place, next : 0 .. Latest + 1]]
      /\ opener' = [opener EXCEPT ![o] = [at |-> at, next |-> next]]
  BY DEF MigrationTypeOK, Goto
<1> QED
  BY <1>1

LEMMA MigrationTypeStep == MigrationTypeOK /\ [DatabaseNext]_migrationVars => MigrationTypeOK'
<1> SUFFICES ASSUME MigrationTypeOK, [DatabaseNext]_migrationVars PROVE MigrationTypeOK'
  OBVIOUS
<1>t. /\ version \in 0 .. Latest /\ stops \in Nat
      /\ slot \in [chat : BOOLEAN, gen : Nat] /\ lineage \subseteq [gen : Nat, active : BOOLEAN]
      /\ workspace \in {"none", "provisioning", "configuring", "ready"}
      /\ opener \in [Opener -> [at : Place, next : 0 .. Latest + 1]]
  BY DEF MigrationTypeOK
<1> DEFINE Moved == \E o \in Opener, at \in Place, next \in 0 .. Latest + 1 : Goto(o, at, next)
           Counts == Backfilled /\ Began
<1>0. \A k \in Number : k + 1 \in 0 .. Latest + 1 /\ 0 \in 0 .. Latest + 1 /\ k \in 0 .. Latest + 1
  BY DEF Number, Latest
<1>1. /\ Moved \/ UNCHANGED opener
      /\ version' \in {version, Latest} /\ stops' \in {stops, stops + 1}
  <2>1. ASSUME NEW o \in Opener, OpenDatabase(o) PROVE Moved /\ version' = version /\ stops' = stops
    <3>1. version + 1 \in 0 .. Latest + 1
      BY <1>t DEF Latest
    <3> QED
      BY <2>1, <3>1 DEF OpenDatabase, First, Place, databaseVars
  <2>2. ASSUME NEW o \in Opener, Migrate(o) PROVE Moved /\ version' = version /\ stops' = stops
    <3>1. opener[o].next \in Number
      BY <2>2 DEF Migrate, Number
    <3>2. Goto(o, "failed", 0) \/ Goto(o, "migrating", opener[o].next + 1)
      BY <2>2 DEF Migrate, Fails
    <3> QED
      BY <2>2, <3>1, <3>2, <1>0 DEF Migrate, Place, databaseVars
  <2>3. ASSUME NEW o \in Opener, LookBeforeRebuild(o) \/ RebuildWorkspaces(o)
        PROVE  Moved /\ version' = version /\ stops' = stops
    <3>1. Rebuild \in Number
      BY DEF Rebuild, Number, Latest
    <3>2. Goto(o, "migrating", Rebuild + 1) \/ Goto(o, "rebuilding", Rebuild) \/ Goto(o, "failed", 0)
      BY <2>3 DEF LookBeforeRebuild, RebuildWorkspaces, Fails
    <3> QED
      BY <2>3, <3>1, <3>2, <1>0 DEF LookBeforeRebuild, RebuildWorkspaces, Place, databaseVars
  <2>4. ASSUME NEW o \in Opener, RecordVersion(o) \/ CutOff(o) \/ Close(o)
        PROVE  Moved /\ version' \in {version, Latest} /\ stops' \in {stops, stops + 1}
    <3>1. 0 \in 0 .. Latest + 1
      BY DEF Latest
    <3> QED
      BY <2>4, <3>1 DEF RecordVersion, CutOff, Close, Place, databaseVars
  <2>5. ASSUME NEW o \in Opener, Converse(o) \/ UseWorkspace(o)
        PROVE  UNCHANGED <<opener, version, stops>>
    BY <2>5 DEF Converse, UseWorkspace
  <2> QED
    BY <2>1, <2>2, <2>3, <2>4, <2>5 DEF DatabaseNext, migrationVars, databaseVars
<1>2. opener' \in [Opener -> [at : Place, next : 0 .. Latest + 1]]
  BY <1>1, <1>t, OpenerMoves
<1>3. \/ UNCHANGED <<slot, lineage>>
      \/ Counts
      \/ \E o \in Opener : Converse(o)
  BY DEF DatabaseNext, OpenDatabase, Migrate, LookBeforeRebuild, RebuildWorkspaces, RecordVersion, CutOff,
     Close, UseWorkspace, migrationVars, databaseVars
<1>4. slot' \in [chat : BOOLEAN, gen : Nat] /\ lineage' \subseteq [gen : Nat, active : BOOLEAN]
  <2>1. CASE Counts
    <3>1. slot' \in [chat : BOOLEAN, gen : Nat]
      BY <2>1, <1>t DEF Backfilled
    <3>2. [gen |-> slot'.gen, active |-> TRUE] \in [gen : Nat, active : BOOLEAN]
      BY <3>1
    <3>3. \/ lineage' = lineage
          \/ lineage' = lineage \cup {[gen |-> slot'.gen, active |-> TRUE]}
      BY <2>1 DEF Began
    <3> QED
      BY <3>1, <3>2, <3>3, <1>t
  <2>2. CASE \E o \in Opener : Converse(o)
    <3>1. slot.gen + 1 \in Nat
      BY <1>t
    <3>2. /\ slot' = [chat |-> TRUE, gen |-> slot.gen + 1]
          /\ lineage' = {[c EXCEPT !.active = FALSE] : c \in lineage}
                           \cup {[gen |-> slot.gen + 1, active |-> TRUE]}
      BY <2>2 DEF Converse
    <3>3. \A c \in lineage : [c EXCEPT !.active = FALSE] \in [gen : Nat, active : BOOLEAN]
      BY <1>t
    <3>4. /\ [chat |-> TRUE, gen |-> slot.gen + 1] \in [chat : BOOLEAN, gen : Nat]
          /\ [gen |-> slot.gen + 1, active |-> TRUE] \in [gen : Nat, active : BOOLEAN]
      BY <3>1
    <3> QED
      BY <3>2, <3>3, <3>4
  <2> QED
    BY <1>3, <1>t, <2>1, <2>2
<1>5. workspace' \in {"none", "provisioning", "configuring", "ready"}
  BY <1>t DEF DatabaseNext, OpenDatabase, Migrate, LookBeforeRebuild, RebuildWorkspaces, RecordVersion, CutOff,
     Close, Converse, UseWorkspace, StatusMapped, migrationVars, databaseVars
<1> QED
  BY <1>1, <1>2, <1>4, <1>5, <1>t DEF MigrationTypeOK

\* No step takes a part away, and the steps of one process are nobody else's.
LEMMA PartsStay == MigrationTypeOK /\ [DatabaseNext]_migrationVars => schema \subseteq schema'
BY AfterHas DEF DatabaseNext, OpenDatabase, Migrate, LookBeforeRebuild, RebuildWorkspaces, RecordVersion,
   CutOff, Close, Converse, UseWorkspace, migrationVars, databaseVars

LEMMA BroughtStays ==
  ASSUME schema \subseteq schema', NEW n \in Int, Brought(n)
  PROVE  Brought(n)'
BY DEF Brought

LEMMA OthersStand ==
  ASSUME MigrationTypeOK, schema \subseteq schema', NEW q \in Opener, Stands(q), opener'[q] = opener[q]
  PROVE  Stands(q)'
<1>1. opener[q].next \in Int /\ Latest + 1 \in Int /\ Rebuild \in Int
  BY DEF MigrationTypeOK, Latest, Rebuild
<1> QED
  BY <1>1, BroughtStays DEF Stands

LEMMA StandsAfter ==
  ASSUME MigrationTypeOK, schema \subseteq schema', \A q \in Opener : Stands(q),
         NEW o \in Opener, NEW at \in Place, NEW next \in 0 .. Latest + 1, Goto(o, at, next),
         at = "open" => Brought(Latest + 1)',
         at = "migrating" => Brought(next)',
         at = "rebuilding" => Brought(Rebuild)' /\ next = Rebuild
  PROVE  \A q \in Opener : Stands(q)'
<1> SUFFICES ASSUME NEW q \in Opener PROVE Stands(q)'
  OBVIOUS
<1>1. CASE q = o
  BY <1>1, OpenerMoves DEF Stands
<1>2. CASE q # o
  BY <1>2, OpenerMoves, OthersStand
<1> QED
  BY <1>1, <1>2

\* What every process brought is there, where each stands after a step of one.
LEMMA PartsStep ==
  ASSUME MigrationTypeOK, PartsAreBrought, [DatabaseNext]_migrationVars
  PROVE  PartsAreBrought'
<1>t. /\ version \in 0 .. Latest /\ opener \in [Opener -> [at : Place, next : 0 .. Latest + 1]]
      /\ schema \subseteq schema'
  BY PartsStay DEF MigrationTypeOK
<1>w. Brought(version + 1) /\ (\A o \in Opener : Stands(o)) /\ Secured
  BY DEF PartsAreBrought
<1>p. {"closed", "migrating", "rebuilding", "open", "failed"} = Place
  BY DEF Place
<1>n. Rebuild \in Number /\ 0 \in 0 .. Latest + 1 /\ \A k \in Number : k \in 0 .. Latest + 1 /\ k + 1 \in 0 .. Latest + 1
  BY DEF Number, Latest, Rebuild
<1>v. version' = version => Brought(version + 1)'
  <2>1. version + 1 \in Int
    BY <1>t
  <2>2. Brought(version + 1) /\ version' = version => Brought(version + 1)'
    BY <2>1, <1>t DEF Brought
  <2> QED
    BY <2>2, <1>w
<1>z. UNCHANGED <<schema, workspace>> => Secured'
  BY <1>w DEF Secured
<1>m. ASSUME NEW o \in Opener, NEW n \in Number, opener[o].at = "migrating" /\ opener[o].next = n,
             Wanted(Chain[n]) \subseteq schema'
      PROVE  Brought(n + 1)'
  <2>1. Brought(n)
    BY <1>m, <1>w DEF Stands
  <2>2. \A m \in Number : m < n + 1 => m < n \/ m = n
    BY DEF Number
  <2> QED
    BY <2>1, <2>2, <1>m, <1>t DEF Brought
<1>1. ASSUME NEW o \in Opener, OpenDatabase(o) PROVE PartsAreBrought'
  <2>1. /\ Goto(o, "migrating", version + 1) /\ UNCHANGED <<version, schema, workspace>>
        /\ version + 1 \in 0 .. Latest + 1 /\ "migrating" \in Place
    BY <1>1, <1>t, <1>p DEF OpenDatabase, First, databaseVars, Latest
  <2>2. Brought(version + 1)'
    BY <2>1, <1>v
  <2>3. \A q \in Opener : Stands(q)'
    BY <2>1, <2>2, <1>t, <1>w, StandsAfter
  <2> QED
    BY <2>1, <2>2, <2>3, <1>z DEF PartsAreBrought
<1>2. ASSUME NEW o \in Opener, Migrate(o) PROVE PartsAreBrought'
  <2>0. opener[o].next \in Number \ {Rebuild}
    BY <1>2 DEF Migrate, Number
  <2>p. PICK n \in Number \ {Rebuild} : n = opener[o].next
    BY <2>0
  <2>1. /\ opener[o].at = "migrating" /\ opener[o].next = n /\ version' = version
        /\ workspace' = workspace
    BY <1>2, <2>p DEF Migrate, Migrates, databaseVars
  <2>2. CASE Refused(schema, Chain[n])
    <3>1. Goto(o, "failed", 0) /\ UNCHANGED schema
      BY <1>2, <2>2, <2>1 DEF Migrate, Fails, databaseVars
    <3>2. \A q \in Opener : Stands(q)'
      BY <3>1, <1>n, <1>p, <1>t, <1>w, StandsAfter
    <3> QED
      BY <2>1, <3>1, <3>2, <1>v, <1>z DEF PartsAreBrought
  <2>3. CASE ~Refused(schema, Chain[n])
    <3>1. Goto(o, "migrating", n + 1) /\ schema' = After(schema, Chain[n])
      BY <1>2, <2>3, <2>1 DEF Migrate
    <3>2. Brought(n + 1)'
      BY <2>1, <3>1, <1>m, AfterHas
    <3>3. n + 1 \in 0 .. Latest + 1
      BY <2>1, <1>n
    <3>4. \A q \in Opener : Stands(q)'
      BY <3>1, <3>2, <3>3, <1>p, <1>t, <1>w, StandsAfter
    <3>5. Secured'
      BY <1>w, <2>1, <3>1, OnlyRebuildSecures DEF Secured
    <3> QED
      BY <2>1, <3>4, <3>5, <1>v DEF PartsAreBrought
  <2> QED
    BY <2>2, <2>3
<1>3. ASSUME NEW o \in Opener, LookBeforeRebuild(o) PROVE PartsAreBrought'
  <2>1. /\ opener[o].at = "migrating" /\ opener[o].next = Rebuild
        /\ UNCHANGED <<version, schema, workspace>>
    BY <1>3 DEF LookBeforeRebuild, Migrates, databaseVars
  <2>2. CASE SecurityMode \in schema
    <3>1. Goto(o, "migrating", Rebuild + 1)
      BY <1>3, <2>2 DEF LookBeforeRebuild, SecurityMode
    <3>2. Wanted(Chain[Rebuild]) \subseteq schema'
      BY <2>1, <2>2, <1>n, ChainHas, RebuildBrings
    <3>3. Brought(Rebuild + 1)'
      BY <2>1, <3>2, <1>m, <1>n
    <3>4. \A q \in Opener : Stands(q)'
      BY <3>1, <3>3, <1>n, <1>p, <1>t, <1>w, StandsAfter
    <3> QED
      BY <2>1, <3>4, <1>v, <1>z DEF PartsAreBrought
  <2>3. CASE SecurityMode \notin schema
    <3>1. Goto(o, "rebuilding", Rebuild)
      BY <1>3, <2>3 DEF LookBeforeRebuild, SecurityMode
    <3>2. Brought(Rebuild)'
      BY <2>1, <1>w DEF Stands, Brought
    <3>3. \A q \in Opener : Stands(q)'
      BY <3>1, <3>2, <1>n, <1>p, <1>t, <1>w, StandsAfter
    <3> QED
      BY <2>1, <3>3, <1>v, <1>z DEF PartsAreBrought
  <2> QED
    BY <2>2, <2>3
<1>4. ASSUME NEW o \in Opener, RebuildWorkspaces(o) PROVE PartsAreBrought'
  <2>1. opener[o].at = "rebuilding" /\ version' = version /\ Brought(Rebuild)
    BY <1>4, <1>w DEF RebuildWorkspaces, databaseVars, Stands
  <2>2. CASE SecurityMode \in schema
    <3>1. Goto(o, "failed", 0) /\ UNCHANGED <<schema, workspace>>
      BY <1>4, <2>2 DEF RebuildWorkspaces, SecurityMode, Fails, databaseVars
    <3>2. \A q \in Opener : Stands(q)'
      BY <3>1, <1>n, <1>p, <1>t, <1>w, StandsAfter
    <3> QED
      BY <2>1, <3>1, <3>2, <1>v, <1>z DEF PartsAreBrought
  <2>3. CASE SecurityMode \notin schema
    <3>1. /\ Goto(o, "migrating", Rebuild + 1) /\ schema' = schema \cup MigrateV18.adds
          /\ workspace' = StatusMapped
      BY <1>4, <2>3 DEF RebuildWorkspaces, SecurityMode
    <3>2. Wanted(Chain[Rebuild]) \subseteq schema'
      BY <3>1, <1>n, ChainHas, RebuildBrings
    <3>3. \A m \in Number : m < Rebuild + 1 => m < Rebuild \/ m = Rebuild
      BY DEF Number, Rebuild
    <3>4. Brought(Rebuild + 1)'
      BY <2>1, <3>2, <3>3, <1>t DEF Brought
    <3>5. \A q \in Opener : Stands(q)'
      BY <3>1, <3>4, <1>n, <1>p, <1>t, <1>w, StandsAfter
    <3>6. Secured'
      BY <3>1 DEF Secured, StatusMapped
    <3> QED
      BY <2>1, <3>5, <3>6, <1>v DEF PartsAreBrought
  <2> QED
    BY <2>2, <2>3
<1>5. ASSUME NEW o \in Opener, RecordVersion(o) PROVE PartsAreBrought'
  <2>1. /\ opener[o].at = "migrating" /\ opener[o].next > Latest /\ version' = Latest
        /\ Goto(o, "open", 0) /\ UNCHANGED <<schema, workspace>>
    BY <1>5 DEF RecordVersion, Migrates
  <2>2. Brought(Latest + 1)'
    <3>1. opener[o].next = Latest + 1
      BY <2>1, <1>t DEF Latest
    <3> QED
      BY <2>1, <3>1, <1>w DEF Stands, Brought
  <2>3. \A q \in Opener : Stands(q)'
    BY <2>1, <2>2, <1>n, <1>p, <1>t, <1>w, StandsAfter
  <2>4. Brought(version + 1)'
    BY <2>1, <2>2
  <2> QED
    BY <2>1, <2>3, <2>4, <1>z DEF PartsAreBrought
<1>6. ASSUME NEW o \in Opener, CutOff(o) \/ Close(o) PROVE PartsAreBrought'
  <2>1. Goto(o, "closed", 0) /\ UNCHANGED <<version, schema, workspace>>
    BY <1>6 DEF CutOff, Close, databaseVars
  <2>2. \A q \in Opener : Stands(q)'
    BY <2>1, <1>n, <1>p, <1>t, <1>w, StandsAfter
  <2> QED
    BY <2>1, <2>2, <1>v, <1>z DEF PartsAreBrought
<1>7. CASE (\E o \in Opener : Converse(o) \/ UseWorkspace(o)) \/ UNCHANGED migrationVars
  <2>1. UNCHANGED <<opener, version, schema>>
    BY <1>7 DEF Converse, UseWorkspace, migrationVars, databaseVars
  <2>2. \A q \in Opener : Stands(q)'
    BY <2>1, <1>t, <1>w, OthersStand
  <2>3. workspace' = workspace \/ workspace' # "provisioning"
    BY <1>7 DEF Converse, UseWorkspace, migrationVars, databaseVars
  <2>4. Secured'
    BY <1>w, <2>1, <2>3 DEF Secured
  <2> QED
    BY <2>1, <2>2, <2>4, <1>v DEF PartsAreBrought
<1> QED
  BY <1>1, <1>2, <1>3, <1>4, <1>5, <1>6, <1>7 DEF DatabaseNext

-----------------------------------------------------------------------------
(* The lineage: an open entry is the newest, under the slot's generation.   *)

LEMMA NumberedIsKnown ==
  ASSUME MigrationTypeOK, PartsAreBrought, [DatabaseNext]_migrationVars, Numbered'
  PROVE  Numbered \/ \E o \in Opener : Migrate(o) /\ opener[o].next = 13
<1>t. /\ version \in 0 .. Latest /\ opener \in [Opener -> [at : Place, next : 0 .. Latest + 1]]
  BY DEF MigrationTypeOK
<1> SUFFICES ASSUME ~Numbered, \A o \in Opener : ~(Migrate(o) /\ opener[o].next = 13) PROVE ~Numbered'
  OBVIOUS
<1>0. /\ version \in 0 .. 12
      /\ \A q \in Opener : /\ opener[q].at # "open"
                           /\ opener[q].at \in {"migrating", "rebuilding"} => opener[q].next \in 0 .. 13
  BY <1>t DEF Numbered
<1>1. ASSUME version' = version,
             NEW o \in Opener, NEW at \in Place, NEW next \in 0 .. Latest + 1, Goto(o, at, next),
             at # "open", at \in {"migrating", "rebuilding"} => next \in 0 .. 13
      PROVE  ~Numbered'
  <2>1. ASSUME NEW q \in Opener
        PROVE  /\ opener'[q].at # "open"
               /\ opener'[q].at \in {"migrating", "rebuilding"} => opener'[q].next \in 0 .. 13
    <3>1. CASE q = o
      BY <1>1, <3>1, OpenerMoves
    <3>2. CASE q # o
      BY <1>0, <1>1, <3>2, OpenerMoves
    <3> QED
      BY <3>1, <3>2
  <2> QED
    BY <1>0, <1>1, <2>1 DEF Numbered
<1>p. {"closed", "migrating", "rebuilding", "open", "failed"} = Place /\ 0 .. 13 \subseteq 0 .. Latest + 1
  BY DEF Place, Latest
<1>2. ASSUME NEW o \in Opener, OpenDatabase(o) PROVE ~Numbered'
  <2>1. Goto(o, "migrating", version + 1) /\ version' = version /\ version + 1 \in 0 .. 13
    BY <1>2, <1>0 DEF OpenDatabase, First, databaseVars
  <2> QED
    BY <2>1, <1>1, <1>p
<1>3. ASSUME NEW o \in Opener, Migrate(o) PROVE ~Numbered'
  <2>1. /\ version' = version
        /\ Goto(o, "failed", 0) \/ Goto(o, "migrating", opener[o].next + 1)
        /\ opener[o].next + 1 \in 0 .. 13
    BY <1>3, <1>0 DEF Migrate, Migrates, Fails, databaseVars
  <2>2. 0 \in 0 .. Latest + 1
    BY DEF Latest
  <2> QED
    BY <2>1, <2>2, <1>1, <1>p
<1>4. ASSUME NEW o \in Opener PROVE ~LookBeforeRebuild(o) /\ ~RebuildWorkspaces(o) /\ ~RecordVersion(o)
  <2>1. ~LookBeforeRebuild(o)
    BY <1>0 DEF LookBeforeRebuild, Migrates, Rebuild
  <2>2. ~RebuildWorkspaces(o)
    BY <1>0 DEF RebuildWorkspaces, PartsAreBrought, Stands, Rebuild
  <2>3. ~RecordVersion(o)
    BY <1>0 DEF RecordVersion, Migrates, Latest
  <2> QED
    BY <2>1, <2>2, <2>3
<1>5. ASSUME NEW o \in Opener, CutOff(o) \/ Close(o) PROVE ~Numbered'
  <2>1. Goto(o, "closed", 0) /\ version' = version /\ 0 \in 0 .. Latest + 1
    BY <1>5 DEF CutOff, Close, databaseVars, Latest
  <2> QED
    BY <2>1, <1>1, <1>p
<1>6. CASE (\E o \in Opener : Converse(o) \/ UseWorkspace(o)) \/ UNCHANGED migrationVars
  BY <1>6 DEF Numbered, Converse, UseWorkspace, migrationVars, databaseVars
<1> QED
  BY <1>2, <1>3, <1>4, <1>5, <1>6 DEF DatabaseNext

LEMMA LineageStep ==
  ASSUME MigrationInv, [DatabaseNext]_migrationVars
  PROVE  LineageFollows'
<1>t. slot \in [chat : BOOLEAN, gen : Nat] /\ lineage \subseteq [gen : Nat, active : BOOLEAN]
  BY DEF MigrationInv, MigrationTypeOK
<1>1. CASE UNCHANGED <<slot, lineage>> /\ ~\E o \in Opener : Migrate(o) /\ opener[o].next = 13
  <2>1. Numbered' => Numbered
    BY <1>1, NumberedIsKnown DEF MigrationInv
  <2> QED
    BY <1>1, <2>1 DEF MigrationInv, LineageFollows
<1>2. CASE \E o \in Opener : Migrate(o) /\ opener[o].next = 13
  <2>1. PICK o \in Opener : Migrate(o) /\ opener[o].next = 13
    BY <1>2
  <2>2. CASE Refused(schema, Chain[13])
    <3>1. UNCHANGED <<slot, lineage, version>> /\ Goto(o, "failed", 0)
      BY <2>1, <2>2 DEF Migrate, Fails, databaseVars
    <3>2. /\ opener'[o].at = "failed" /\ \A q \in Opener : q # o => opener'[q] = opener[q]
      <4>1. "failed" \in Place /\ 0 \in 0 .. Latest + 1
        BY DEF Place, Latest
      <4> QED
        BY <3>1, <4>1, OpenerMoves DEF MigrationInv
    <3>3. Numbered' => Numbered
      BY <3>1, <3>2 DEF Numbered
    <3> QED
      BY <3>1, <3>3 DEF MigrationInv, LineageFollows
  <2>3. CASE ~Refused(schema, Chain[13])
    <3>1. Backfilled /\ Began
      BY <2>1, <2>3 DEF Migrate
    <3>2. CASE slot.chat /\ slot.gen = 0
      <4>1. slot' = [slot EXCEPT !.gen = 1] /\ lineage = {}
        BY <3>1, <3>2 DEF Backfilled, MigrationInv, LineageFollows
      <4>2. slot'.chat /\ slot'.gen = 1
        BY <4>1, <3>2, <1>t
      <4>3. lineage' = {[gen |-> 1, active |-> TRUE]}
        BY <3>1, <4>1, <4>2 DEF Began
      <4>4. (\A c \in lineage' : c.gen = 1 /\ c.active = TRUE) /\ (\E c \in lineage' : c.gen = 1)
        BY <4>3
      <4> QED
        BY <4>2, <4>4 DEF LineageFollows
    <3>3. CASE ~(slot.chat /\ slot.gen = 0)
      <4>1. slot' = slot
        BY <3>1, <3>3 DEF Backfilled
      <4>2. lineage' = lineage
        BY <3>1, <4>1 DEF Began, MigrationInv, LineageFollows
      <4>3. slot.chat => slot.gen > 0
        BY <3>3, <1>t
      <4> QED
        BY <4>1, <4>2, <4>3 DEF MigrationInv, LineageFollows
    <3> QED
      BY <3>2, <3>3
  <2> QED
    BY <2>2, <2>3
<1>3. CASE \E o \in Opener : Converse(o)
  <2>1. /\ slot' = [chat |-> TRUE, gen |-> slot.gen + 1]
        /\ lineage' = {[c EXCEPT !.active = FALSE] : c \in lineage}
                        \cup {[gen |-> slot.gen + 1, active |-> TRUE]}
    BY <1>3 DEF Converse
  <2>2. slot'.chat /\ slot'.gen = slot.gen + 1 /\ slot'.gen > 0
    BY <2>1, <1>t
  <2>3. \A c \in lineage : c.gen \in Nat /\ c.gen <= slot.gen
    BY <1>t DEF MigrationInv, LineageFollows
  <2>4. ASSUME NEW c \in lineage' PROVE c.gen <= slot'.gen /\ (c.active <=> c.gen = slot'.gen)
    <3>1. CASE c = [gen |-> slot.gen + 1, active |-> TRUE]
      BY <3>1, <2>2, <1>t
    <3>2. ASSUME NEW d \in lineage, c = [d EXCEPT !.active = FALSE]
          PROVE  c.gen <= slot'.gen /\ (c.active <=> c.gen = slot'.gen)
      <4>1. c.gen = d.gen /\ c.active = FALSE
        BY <3>2, <1>t
      <4> QED
        BY <4>1, <2>2, <2>3, <1>t
    <3> QED
      BY <2>1, <3>1, <3>2
  <2>5. \E c \in lineage' : c.gen = slot'.gen
    <3>1. [gen |-> slot.gen + 1, active |-> TRUE] \in lineage'
      BY <2>1
    <3>2. [gen |-> slot.gen + 1, active |-> TRUE].gen = slot'.gen
      BY <2>2
    <3> QED
      BY <3>1, <3>2
  <2> QED
    BY <2>2, <2>4, <2>5 DEF LineageFollows
<1>4. \/ UNCHANGED <<slot, lineage>>
      \/ \E o \in Opener : Migrate(o) /\ opener[o].next = 13
      \/ \E o \in Opener : Converse(o)
  BY DEF DatabaseNext, OpenDatabase, Migrate, LookBeforeRebuild, RebuildWorkspaces, RecordVersion, CutOff,
     Close, UseWorkspace, migrationVars, databaseVars
<1> QED
  BY <1>1, <1>2, <1>3, <1>4

LEMMA MigrationInvariance == DatabaseSpec => []MigrationInv
<1>1. MigrationInv /\ [DatabaseNext]_migrationVars => MigrationInv'
  BY MigrationTypeStep, PartsStep, LineageStep DEF MigrationInv
<1> QED
  BY <1>1, MigrationInit, PTL DEF DatabaseSpec

\* A database that is served, or recorded as up to date, has every table, column and trigger and no
\* status of the old form, and each conversation of a slot is in its lineage, whoever migrated it,
\* from whichever release, how often they were cut off, and whoever else served or migrated meanwhile.
THEOREM UpgradesAreWhole == DatabaseSpec => []UpgradeIsWhole
<1>2. MigrationInv => UpgradeIsWhole
  <2> SUFFICES ASSUME MigrationInv PROVE UpgradeIsWhole
    OBVIOUS
  <2>1. SchemaIsComplete
    <3> SUFFICES ASSUME version = Latest \/ \E o \in Opener : opener[o].at = "open"
                 PROVE  Current \subseteq schema /\ workspace \in {"none", "configuring", "ready"}
      BY DEF SchemaIsComplete
    <3>1. Brought(Latest + 1)
      BY DEF MigrationInv, PartsAreBrought, Stands
    <3>2. Current \subseteq schema
      BY <3>1 DEF Current, Brought, Number, Latest
    <3>3. Rebuild \in Number
      BY DEF Rebuild, Number, Latest
    <3>4. SecurityMode \in Wanted(Chain[Rebuild])
      BY <3>3, ChainHas, RebuildBrings
    <3>5. SecurityMode \in schema
      BY <3>2, <3>3, <3>4 DEF Current, Number
    <3> QED
      BY <3>2, <3>5 DEF MigrationInv, MigrationTypeOK, PartsAreBrought, Secured
  <2>2. LineageIsWhole
    <3> SUFFICES ASSUME \E o \in Opener : opener[o].at = "open"
                 PROVE  {c.gen : c \in {d \in lineage : d.active}} = IF slot.chat THEN {slot.gen} ELSE {}
      BY DEF LineageIsWhole
    <3>1. Numbered
      BY DEF Numbered
    <3>2. slot \in [chat : BOOLEAN, gen : Nat]
      BY DEF MigrationInv, MigrationTypeOK
    <3>3. CASE slot.chat
      BY <3>1, <3>3 DEF MigrationInv, LineageFollows
    <3>4. CASE ~slot.chat
      <4>1. lineage = {}
        BY <3>2, <3>4 DEF MigrationInv, LineageFollows
      <4> QED
        BY <3>4, <4>1
    <3> QED
      BY <3>3, <3>4
  <2> QED
    BY <2>1, <2>2 DEF UpgradeIsWhole
<1> QED
  BY <1>2, MigrationInvariance, PTL

\* A column is added to a table that this migration or one before it makes.
LEMMA AddedTablesAreMade ==
  ASSUME NEW n \in Number \ {Rebuild}, NEW c \in Chain[n].adds
  PROVE  \E m \in Number : m < n /\ c[1] \in Chain[m].makes
<1>1. \A k \in {1, 2, 4, 6, 16} : k \in Number
  BY DEF Number, Latest
<1>2. /\ "agent_slots" \in Chain[1].makes /\ "capabilities" \in Chain[1].makes
      /\ "claims" \in Chain[2].makes
      /\ {"change_requests", "merge_queue"} \subseteq Chain[4].makes
      /\ "browser_runtime" \in Chain[6].makes
      /\ "organization_work_items" \in Chain[16].makes
  BY DEF Chain, Makes, Migration, MigrateV1, MigrateV2, MigrateV4, MigrateV6, MigrateV16
<1>3. CASE n = 3 \/ n = 5
  BY <1>1, <1>2, <1>3 DEF Chain, Adds, Migration, MigrateV3, MigrateV5
<1>4. CASE n = 7 \/ n = 9 \/ n = 10
  BY <1>1, <1>2, <1>4 DEF Chain, Adds, Migration, MigrateV7, MigrateV9, MigrateV10
<1>5. CASE n = 12 \/ n = 13 \/ n = 26
  BY <1>1, <1>2, <1>5 DEF Chain, Adds, Migration, MigrateV12, MigrateV13, MigrateV26
<1>6. n \in {3, 5, 7, 9, 10, 12, 13, 26}
  BY ChainAdds DEF Rebuild
<1> QED
  BY <1>3, <1>4, <1>5, <1>6

\* So none is refused in a database that has what the migrations before it want.
LEMMA NoneIsRefused ==
  ASSUME NEW n \in Number \ {Rebuild}, Brought(n)
  PROVE  ~Refused(schema, Chain[n])
<1> DEFINE there == schema \cup New(schema, Chain[n].makes) \X {"*"}
<1>1. ASSUME NEW c \in Additions(schema, Chain[n]) PROVE c \notin schema /\ Has(there, c[1])
  <2>1. c \in Chain[n].adds /\ c \notin schema
    BY DEF Additions
  <2>2. PICK m \in Number : m < n /\ c[1] \in Chain[m].makes
    BY <2>1, AddedTablesAreMade
  <2>3. <<c[1], "*">> \in Wanted(Chain[m])
    BY <2>2 DEF Wanted
  <2>4. <<c[1], "*">> \in schema
    BY <2>2, <2>3 DEF Brought
  <2> QED
    BY <2>1, <2>4 DEF Has
<1> QED
  BY <1>1 DEF Refused

\* What was interrupted can be taken up again: gamd fails at no database of any release, whatever
\* was done of its migration, except where another gamd rebuilt the workspaces after this one
\* had looked at them.
THEOREM OnlyOvertakenUpgradesFail == DatabaseSpec => OnlyOvertakenFails
<1>1. ASSUME MigrationInv, [DatabaseNext]_migrationVars, NEW o \in Opener,
             opener[o].at # "failed", opener'[o].at = "failed"
      PROVE  opener[o].at = "rebuilding" /\ <<"agent_workspaces", "security_mode">> \in schema
  <2>t. MigrationTypeOK /\ 0 \in 0 .. Latest + 1 /\ Rebuild + 1 \in 0 .. Latest + 1 /\ Rebuild \in 0 .. Latest + 1
    BY <1>1 DEF MigrationInv, Latest, Rebuild
  <2>p. {"closed", "migrating", "rebuilding", "open", "failed"} = Place
    BY DEF Place
  <2>1. ASSUME NEW q \in Opener, NEW at \in Place, NEW next \in 0 .. Latest + 1, Goto(q, at, next), at # "failed"
        PROVE  FALSE
    BY <1>1, <2>t, <2>1, OpenerMoves
  <2>2. ASSUME NEW q \in Opener, NEW at \in Place, NEW next \in 0 .. Latest + 1, Goto(q, at, next)
        PROVE  q = o
    BY <1>1, <2>t, <2>2, OpenerMoves
  <2>3. opener' # opener
    BY <1>1
  <2>4. ASSUME NEW q \in Opener PROVE ~OpenDatabase(q)
    <3>1. OpenDatabase(q) => Goto(q, "migrating", version + 1) /\ version + 1 \in 0 .. Latest + 1
      BY <2>t DEF OpenDatabase, First, MigrationTypeOK, Latest
    <3> QED
      BY <3>1, <2>1, <2>p
  <2>5. ASSUME NEW q \in Opener PROVE ~Migrate(q)
    <3> SUFFICES ASSUME Migrate(q) PROVE FALSE
      OBVIOUS
    <3>1. opener[q].next \in Number \ {Rebuild} /\ opener[q].at = "migrating"
      BY DEF Migrate, Migrates, Number
    <3>2. Brought(opener[q].next)
      BY <1>1, <3>1 DEF MigrationInv, PartsAreBrought, Stands
    <3>3. Goto(q, "migrating", opener[q].next + 1) /\ opener[q].next + 1 \in 0 .. Latest + 1
      BY <3>1, <3>2, NoneIsRefused DEF Migrate, Number, Latest
    <3> QED
      BY <3>3, <2>1, <2>p
  <2>6. ASSUME NEW q \in Opener PROVE ~LookBeforeRebuild(q)
    <3>1. LookBeforeRebuild(q) => Goto(q, "migrating", Rebuild + 1) \/ Goto(q, "rebuilding", Rebuild)
      BY DEF LookBeforeRebuild
    <3> QED
      BY <3>1, <2>1, <2>t, <2>p
  <2>7. ASSUME NEW q \in Opener, RebuildWorkspaces(q)
        PROVE  opener[o].at = "rebuilding" /\ <<"agent_workspaces", "security_mode">> \in schema
    <3>1. CASE <<"agent_workspaces", "security_mode">> \in schema
      <4>1. Goto(q, "failed", 0) /\ opener[q].at = "rebuilding"
        BY <2>7, <3>1 DEF RebuildWorkspaces, Fails
      <4> QED
        BY <4>1, <3>1, <2>2, <2>t, <2>p
    <3>2. CASE <<"agent_workspaces", "security_mode">> \notin schema
      <4>1. Goto(q, "migrating", Rebuild + 1)
        BY <2>7, <3>2 DEF RebuildWorkspaces
      <4> QED
        BY <4>1, <2>1, <2>t, <2>p
    <3> QED
      BY <3>1, <3>2
  <2>8. ASSUME NEW q \in Opener PROVE ~RecordVersion(q) /\ ~CutOff(q) /\ ~Close(q)
    <3>1. RecordVersion(q) \/ CutOff(q) \/ Close(q) => Goto(q, "open", 0) \/ Goto(q, "closed", 0)
      BY DEF RecordVersion, CutOff, Close
    <3> QED
      BY <3>1, <2>1, <2>t, <2>p
  <2>9. ASSUME NEW q \in Opener PROVE ~Converse(q) /\ ~UseWorkspace(q)
    BY <2>3 DEF Converse, UseWorkspace
  <2> QED
    BY <1>1, <2>3, <2>4, <2>5, <2>6, <2>7, <2>8, <2>9 DEF DatabaseNext, migrationVars
<1>2. MigrationInv /\ [DatabaseNext]_migrationVars =>
        [\A o \in Opener : opener[o].at # "failed" /\ opener'[o].at = "failed" =>
           /\ opener[o].at = "rebuilding" /\ <<"agent_workspaces", "security_mode">> \in schema]_migrationVars
  BY <1>1
<1> QED
  BY <1>2, MigrationInvariance, PTL DEF DatabaseSpec, OnlyOvertakenFails
=============================================================================
