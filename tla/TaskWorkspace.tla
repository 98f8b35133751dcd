---------------------------- MODULE TaskWorkspace ----------------------------
(***************************************************************************)
(* The worktree a task is carried out in: how gamd provides it with the    *)
(* lease, the grant and the token file of the agent that works there, what *)
(* a claim of that agent must show to be verified, and how a verified task *)
(* is completed, handed over to review and its workspace given back        *)
(* (controlPlane.ts, workspaceAuthority.ts, evidenceAuthority.ts).         *)
(*                                                                         *)
(* A handler of gamd is synchronous, but it is several transactions and    *)
(* calls of git: gamd may stop between any two of them, git may fail, and  *)
(* the agent goes on editing and committing meanwhile.  A variable `call`  *)
(* holds the handler under way and its next step.                          *)
(*                                                                         *)
(* Abstracted: projects and their status; one slot carries out each task;  *)
(* the week after which a grant lapses; a commit is the trunk commit it    *)
(* was made from and a number; reading an artifact's file; events.  What   *)
(* an administrator may do to the lease is renewal and the suspension of   *)
(* the slot.  "Slip" marks a mistake that breaks one of the properties.    *)
(***************************************************************************)
EXTENDS Naturals, FiniteSets

CONSTANTS
  Task,        \* tasks of kind work whose completion policy is verified-claim
  OrgTask,     \* those that are work items of the organization
  Claim,       \* ids of claims
  MaxTrunk,    \* bound on what is committed to the project's own branch
  MaxWork,     \* bound on an agent's commits since then
  MaxTry,      \* bound on attempts to provide a workspace
  MaxTrouble,  \* bound on stops of gamd, failures of git, renewals, suspensions and the like, together
  Null

ASSUME WorkspaceAssumption ==
  /\ OrgTask \subseteq Task /\ Null \notin Task \cup Claim
  /\ MaxTrunk \in Nat /\ MaxWork \in Nat /\ MaxTry \in Nat \ {0} /\ MaxTrouble \in Nat

VARIABLES
  trunk,    \* HEAD of the project's repository
  git,      \* per task: its branch, and its worktree on disk
  lease,    \* per task: the last lease of the resource task-workspace:<task>
  grants,   \* per task: grants issued and not revoked; made: how many there were
  made,
  tokens,   \* per task: grants whose token file exists
  row,      \* task_workspaces
  slotOn,   \* tasks whose slot is active
  claim,    \* claims, with their artifact and verification
  file,     \* content of the file artifacts are made of
  done,     \* per task: the claim its machine completion names
  review,   \* claims whose hand-over to review was attempted
  answered, \* tasks of which a release or a clean-up ran to its end
  call,     \* the handler under way
  up,       \* gamd serves requests
  crashes,  \* how often gamd stopped
  troubles  \* and how often anything of the kind happened

evidenceVars  == <<claim, file>>
authorityVars == <<lease, grants, made, tokens, slotOn>>
processCounts == <<crashes, troubles>>
processVars   == <<call, up, processCounts>>
taskVars      == <<done, review, answered>>
workspaceVars == <<trunk, git, row, evidenceVars, authorityVars, processVars, taskVars>>

-----------------------------------------------------------------------------
Commit == (0 .. MaxTrunk) \X (0 .. MaxWork)

\* A commit descends from the trunk commit it was made from, and from what that contains.
Descends(c, base) == c[1] >= base[1]

Tree  == {"none", "clean", "dirty", "stray"}   \* stray: files that git knows no more
Due   == {"never", "ahead", "past"}

NoLease == [epoch |-> 0, status |-> "none", due |-> "never"]
NoRow   == [status |-> "none", base |-> <<0, 0>>, epoch |-> 0, grant |-> 0]
NoClaim == [status |-> "none", task |-> Null, commit |-> Null, epoch |-> 0, file |-> Null]
NoCall  == [op |-> "idle", step |-> "-", task |-> Null, claim |-> Null, base |-> <<0, 0>>, grant |-> 0]

Held(t)   == lease[t].status = "active" /\ lease[t].due # "past"
\* Something goes wrong, or somebody interferes; otherwise `Smoothly`.
Trouble   == troubles < MaxTrouble /\ troubles' = troubles + 1
Smoothly  == UNCHANGED troubles
Ready     == up /\ call.op = "idle"
Clean(t)  == git[t].tree = "clean"
AtStep(o, s) == up /\ call.op = o /\ call.step = s

TypeOK ==
  /\ trunk \in 0 .. MaxTrunk
  /\ git \in [Task -> [branch: Commit \cup {Null}, tree: Tree]]
  /\ lease \in [Task -> [epoch: Nat, status: {"none", "active", "released", "expired"}, due: Due]]
  /\ made \in [Task -> 0 .. MaxTry]
  /\ \A t \in Task : grants[t] \cup tokens[t] \subseteq 1 .. made[t]
  /\ row \in [Task -> [status: {"none", "active", "released"}, base: Commit, epoch: Nat, grant: 0 .. MaxTry]]
  /\ \A t \in Task : row[t].status # "none" => row[t].epoch \in 1 .. lease[t].epoch /\ row[t].grant \in 1 .. made[t]
  /\ claim \in [Claim -> [status: {"none", "submitted", "verified", "rejected"}, task: Task \cup {Null},
                          commit: Commit \cup {Null}, epoch: Nat, file: {0, 1, Null}]]
  /\ file \in {0, 1} /\ done \in [Task -> Claim \cup {Null}]
  /\ slotOn \subseteq Task /\ review \subseteq Claim /\ answered \subseteq Task
  /\ call.op \in {"idle", "provision", "undo", "release", "finalize", "complete"}
  /\ call.task \in Task \cup {Null} /\ up \in BOOLEAN /\ crashes \in 0 .. troubles /\ troubles \in 0 .. MaxTrouble
  /\ ~up => call = NoCall

Init ==
  /\ trunk = 0 /\ file = 0 /\ up = TRUE /\ crashes = 0 /\ troubles = 0 /\ call = NoCall
  /\ git = [t \in Task |-> [branch |-> Null, tree |-> "none"]]
  /\ lease = [t \in Task |-> NoLease] /\ row = [t \in Task |-> NoRow]
  /\ grants = [t \in Task |-> {}] /\ tokens = [t \in Task |-> {}] /\ made = [t \in Task |-> 0]
  /\ slotOn = Task /\ claim = [c \in Claim |-> NoClaim] /\ done = [t \in Task |-> Null]
  /\ review = {} /\ answered = {}

-----------------------------------------------------------------------------
(* Everybody but gamd *)

\* The agent edits files, or commits, on the trunk as it is then, or resets the branch, as far as
\* the first commit.
Works(t) ==
  /\ git[t].tree \in {"clean", "dirty"}
  /\ \/ \E c \in {<<0, 0>>} \cup {<<trunk, n>> : n \in 0 .. MaxWork} : git' = [git EXCEPT ![t] = [branch |-> c, tree |-> "clean"]]
     \/ Clean(t) /\ git' = [git EXCEPT ![t].tree = "dirty"]
  /\ UNCHANGED <<trunk, row, evidenceVars, authorityVars, processVars, taskVars>>

\* Somebody unregisters the worktree; what lies in the directory stays.
TreeForgotten(t) ==
  /\ Trouble /\ Clean(t) /\ git' = [git EXCEPT ![t].tree = "stray"]
  /\ UNCHANGED <<trunk, row, evidenceVars, authorityVars, call, up, crashes, taskVars>>

\* The project's branch moves on, or the file that artifacts are made of changes.
TrunkMoves ==
  /\ trunk < MaxTrunk /\ trunk' = trunk + 1
  /\ UNCHANGED <<git, row, evidenceVars, authorityVars, processVars, taskVars>>
FileChanges ==
  /\ Trouble /\ file = 0 /\ file' = 1
  /\ UNCHANGED <<trunk, git, row, claim, authorityVars, call, up, crashes, taskVars>>

TimePasses(t) ==
  /\ lease[t].due = "ahead" /\ lease' = [lease EXCEPT ![t].due = "past"]
  /\ UNCHANGED <<trunk, git, row, evidenceVars, grants, made, tokens, slotOn, processVars, taskVars>>

\* Renewal of a lapsed lease is refused, and with it the note that it lapsed.
RenewLease(t) ==
  /\ Ready /\ Trouble /\ Held(t) /\ lease' = [lease EXCEPT ![t].due = "ahead"]
  /\ UNCHANGED <<trunk, git, row, evidenceVars, grants, made, tokens, slotOn, call, up, crashes, taskVars>>

\* Slip: the lease's record is deleted, and with it its epoch.
ReleasedByDeletion(t) == IF lease[t].status = "active" THEN [lease EXCEPT ![t] = NoLease] ELSE lease

Released(t) == [lease EXCEPT ![t].status = IF @ = "active" THEN "released" ELSE @]

\* The slot is suspended, and its authority fenced; or it is resumed, without it.
SuspendSlot(t) ==
  /\ Ready /\ Trouble /\ t \in slotOn
  /\ slotOn' = slotOn \ {t} /\ lease' = Released(t) /\ grants' = [grants EXCEPT ![t] = {}]
  /\ UNCHANGED <<trunk, git, row, evidenceVars, made, tokens, call, up, crashes, taskVars>>
ResumeSlot(t) ==
  /\ Ready /\ t \notin slotOn /\ slotOn' = slotOn \cup {t}
  /\ UNCHANGED <<trunk, git, row, evidenceVars, lease, grants, made, tokens, processVars, taskVars>>

-----------------------------------------------------------------------------
(* Providing the workspace *)

\* A directory left by an attempt that was cut short is taken over when nothing happened to it.
Recoverable(t) == Clean(t) /\ git[t].branch = <<trunk, 0>>

Provisioning(t) == call' = [NoCall EXCEPT !.op = "provision", !.step = "lease", !.task = t, !.base = <<trunk, 0>>]

\* Where a row exists it is the answer, whatever its status.  git may fail after it made the branch.
Provision(t) ==
  /\ Ready /\ t \in slotOn /\ row[t].status = "none" /\ made[t] < MaxTry
  /\ \/ Recoverable(t) /\ Smoothly /\ Provisioning(t) /\ UNCHANGED git
     \/ /\ git[t] = [branch |-> Null, tree |-> "none"]
        /\ \/ Smoothly /\ Provisioning(t) /\ git' = [git EXCEPT ![t] = [branch |-> <<trunk, 0>>, tree |-> "clean"]]
           \/ Trouble /\ git' = [git EXCEPT ![t].branch = <<trunk, 0>>] /\ UNCHANGED call
  /\ UNCHANGED <<trunk, row, evidenceVars, authorityVars, up, crashes, taskVars>>

\* An active lease of an earlier attempt serves, even one that has lapsed without being noticed.
ProvisionLease ==
  LET t == call.task IN
  /\ AtStep("provision", "lease")
  /\ lease' = IF lease[t].status = "active" THEN lease
              ELSE [lease EXCEPT ![t] = [epoch |-> @.epoch + 1, status |-> "active", due |-> "never"]]
  /\ call' = [call EXCEPT !.step = "grant"]
  /\ UNCHANGED <<trunk, git, row, evidenceVars, grants, made, tokens, slotOn, up, processCounts, taskVars>>

ProvisionGrant ==
  LET t == call.task IN
  /\ AtStep("provision", "grant") /\ Held(t)
  /\ made' = [made EXCEPT ![t] = @ + 1] /\ grants' = [grants EXCEPT ![t] = @ \cup {made[t] + 1}]
  /\ call' = [call EXCEPT !.step = "token", !.grant = made[t] + 1]
  /\ UNCHANGED <<trunk, git, row, evidenceVars, lease, tokens, slotOn, up, processCounts, taskVars>>

ProvisionToken ==
  LET t == call.task IN
  /\ AtStep("provision", "token")
  /\ tokens' = [tokens EXCEPT ![t] = @ \cup {call.grant}] /\ call' = [call EXCEPT !.step = "row"]
  /\ UNCHANGED <<trunk, git, row, evidenceVars, lease, grants, made, slotOn, up, processCounts, taskVars>>

ProvisionRow ==
  LET t == call.task IN
  /\ AtStep("provision", "row")
  /\ row' = [row EXCEPT ![t] = [status |-> "active", base |-> call.base, epoch |-> lease[t].epoch, grant |-> call.grant]]
  /\ call' = NoCall
  /\ UNCHANGED <<trunk, git, evidenceVars, authorityVars, up, processCounts, taskVars>>

\* A step fails, as the issue of a grant under a lease that lapsed does.  The token file is removed
\* at once, the rest by the handler's catch; of a lease it did not come to hold it knows nothing.
ProvisionFails ==
  /\ AtStep("provision", call.step)
  /\ IF call.step = "grant" /\ ~Held(call.task) THEN Smoothly ELSE Trouble
  /\ tokens' = [tokens EXCEPT ![call.task] = @ \ {call.grant}]
  /\ call' = [call EXCEPT !.op = "undo", !.step = IF @ = "lease" THEN "tree" ELSE "grant"]
  /\ UNCHANGED <<trunk, git, row, evidenceVars, lease, grants, made, slotOn, up, crashes, taskVars>>

\* Slip: the catch block ends the lease only.
UndoGrantForgotten == AtStep("undo", "grant") /\ call' = [call EXCEPT !.step = "lease"]
                      /\ UNCHANGED <<trunk, git, row, evidenceVars, authorityVars, up, processCounts, taskVars>>

UndoGrant ==
  /\ AtStep("undo", "grant")
  /\ grants' = [grants EXCEPT ![call.task] = @ \ {call.grant}] /\ call' = [call EXCEPT !.step = "lease"]
  /\ UNCHANGED <<trunk, git, row, evidenceVars, lease, made, tokens, slotOn, up, processCounts, taskVars>>

\* A lapsed lease cannot be released: the refusal is swallowed.
UndoLease ==
  /\ AtStep("undo", "lease")
  /\ lease' = IF Held(call.task) THEN Released(call.task) ELSE lease
  /\ call' = [call EXCEPT !.step = "tree"]
  /\ UNCHANGED <<trunk, git, row, evidenceVars, grants, made, tokens, slotOn, up, processCounts, taskVars>>

\* A clean worktree goes; its branch stays.
UndoTree ==
  /\ AtStep("undo", "tree")
  /\ git' = IF Clean(call.task) THEN [git EXCEPT ![call.task].tree = "none"] ELSE git
  /\ call' = NoCall
  /\ UNCHANGED <<trunk, row, evidenceVars, authorityVars, up, processCounts, taskVars>>

-----------------------------------------------------------------------------
(* Claims and their verification *)

\* What an agent may do: it has the token of the workspace it was given, for the lease's epoch.
Acts(t) == row[t].status # "none" /\ row[t].grant \in grants[t] \cap tokens[t]

\* A claim may name any commit, or none; its author holds the lease.
SubmitClaim(c, t) ==
  /\ Ready /\ claim[c].status = "none" /\ Acts(t) /\ Held(t)
  /\ \E k \in {git[t].branch, <<0, 0>>, Null} :
       claim' = [claim EXCEPT ![c] = [status |-> "submitted", task |-> t, commit |-> k, epoch |-> lease[t].epoch, file |-> Null]]
  /\ UNCHANGED <<trunk, git, row, file, authorityVars, processVars, taskVars>>

\* Only here is the lapse of a lease written down although the request fails.
RegisterArtifact(c) ==
  LET t == claim[c].task IN
  /\ Ready /\ claim[c].status = "submitted" /\ Acts(t) /\ lease[t].status = "active"
  /\ IF Held(t) THEN claim' = [claim EXCEPT ![c].file = file] /\ UNCHANGED lease
                ELSE lease' = [lease EXCEPT ![t].status = "expired"] /\ UNCHANGED claim
  /\ UNCHANGED <<trunk, git, row, file, grants, made, tokens, slotOn, processVars, taskVars>>

\* The workspace of the claim's resource is the one the claim was made in.
SameAuthority(c) == LET t == claim[c].task IN row[t].status = "active" /\ row[t].epoch = claim[c].epoch

\* Slip: uncommitted work beside the claimed commit is overlooked.
CommitIsHeadOnly(c) ==
  LET t == claim[c].task IN
  row[t].status # "none" =>
    /\ SameAuthority(c) /\ claim[c].commit \notin {Null, row[t].base}
    /\ git[t].branch = claim[c].commit /\ git[t].tree \in {"clean", "dirty"}

CommitIsWorkspaceHead(c) ==
  LET t == claim[c].task IN
  row[t].status # "none" =>
    /\ SameAuthority(c) /\ claim[c].commit \notin {Null, row[t].base}
    /\ git[t].branch = claim[c].commit /\ Clean(t) /\ Descends(claim[c].commit, row[t].base)

Passes(c) ==
  /\ CommitIsWorkspaceHead(c)
  /\ claim[c].file \in {Null, file}
  /\ claim[c].commit # Null \/ claim[c].file # Null

\* The verdict is committed before anything follows from it; asked again, it is the answer.
VerifyClaim(c) ==
  /\ Ready /\ claim[c].status # "none"
  /\ claim' = [claim EXCEPT ![c].status = IF @ # "submitted" THEN @ ELSE IF Passes(c) THEN "verified" ELSE "rejected"]
  /\ call' = IF claim'[c].status = "verified"
               THEN [NoCall EXCEPT !.op = "complete", !.step = "task", !.task = claim[c].task, !.claim = c] ELSE NoCall
  /\ UNCHANGED <<trunk, git, row, file, authorityVars, up, processCounts, taskVars>>

\* Slip: a task may be completed again, by another claim.
CompleteAgain ==
  LET t == call.task IN
  /\ AtStep("complete", "task")
  /\ IF SameAuthority(call.claim)
       THEN done' = [done EXCEPT ![t] = call.claim] /\ call' = [call EXCEPT !.step = "review"]
       ELSE UNCHANGED done /\ call' = NoCall
  /\ UNCHANGED <<trunk, git, row, evidenceVars, authorityVars, up, processCounts, review, answered>>

\* A task completed before has its workspace given back; completed by another claim, it is an error.
CompleteTask ==
  LET t == call.task
      c == call.claim IN
  /\ AtStep("complete", "task")
  /\ IF done[t] = Null /\ SameAuthority(c) /\ claim[c].commit # Null
       THEN done' = [done EXCEPT ![t] = c] /\ call' = [call EXCEPT !.step = "review"]
       ELSE /\ UNCHANGED done
            /\ call' = IF done[t] = c THEN [call EXCEPT !.op = "finalize", !.step = "lease"] ELSE NoCall
  /\ UNCHANGED <<trunk, git, row, evidenceVars, authorityVars, up, processCounts, review, answered>>

HandOver ==
  /\ AtStep("complete", "review")
  /\ review' = IF call.task \in OrgTask THEN review \cup {call.claim} ELSE review
  /\ call' = [call EXCEPT !.op = "finalize", !.step = "lease"]
  /\ UNCHANGED <<trunk, git, row, evidenceVars, authorityVars, up, processCounts, done, answered>>

-----------------------------------------------------------------------------
(* Giving the workspace back: `release` on request, `finalize` after completion *)

\* On request the worktree goes first, and only a clean one.
ReleaseTaskWorkspace(t) ==
  /\ Ready /\ row[t].status # "none"
  /\ row[t].status = "active" => Clean(t)
  /\ call' = [NoCall EXCEPT !.op = "release", !.step = IF row[t].status = "active" THEN "tree" ELSE "lease", !.task = t]
  /\ UNCHANGED <<trunk, git, row, evidenceVars, authorityVars, up, processCounts, taskVars>>

\* Slip: git worktree remove --force.
RemovableByForce(t) == git[t].tree \in {"clean", "dirty"}

\* git itself refuses a worktree that became dirty since it was looked at.
Removable(t) == Clean(t)

\* The worktree is looked at and removed.  Of a verified task only a failure is noted and the row
\* stays active, unless git knows the worktree no more.  git may also fail for reasons of its own.
RemoveTree ==
  LET t == call.task IN
  /\ \/ AtStep("release", "tree")
     \/ AtStep("finalize", "tree") /\ row[t].status = "active"
  /\ \/ /\ Removable(t) /\ git' = [git EXCEPT ![t].tree = "none"]
        /\ call' = [call EXCEPT !.step = "row"] /\ UNCHANGED answered /\ Smoothly
     \/ /\ UNCHANGED git /\ IF Removable(t) THEN Trouble ELSE Smoothly
        /\ IF call.op = "finalize" /\ git[t].tree \in {"none", "stray"}
             THEN call' = [call EXCEPT !.step = "row"] /\ UNCHANGED answered
             ELSE /\ call' = NoCall
                  /\ answered' = IF call.op = "finalize" THEN answered \cup {t} ELSE answered
  /\ UNCHANGED <<trunk, row, evidenceVars, authorityVars, up, crashes, done, review>>

RowReleased ==
  LET t == call.task IN
  /\ up /\ call.op \in {"release", "finalize"} /\ call.step = "row"
  /\ row' = [row EXCEPT ![t].status = "released"]
  /\ IF call.op = "finalize"
       THEN call' = NoCall /\ answered' = answered \cup {t}
       ELSE call' = [call EXCEPT !.step = "lease"] /\ UNCHANGED answered
  /\ UNCHANGED <<trunk, git, evidenceVars, authorityVars, up, processCounts, done, review>>

\* Slip: a lease that cannot be released is passed over.
EndLeaseOrGoOn ==
  LET t == call.task IN
  /\ up /\ call.op \in {"release", "finalize"} /\ call.step = "lease"
  /\ call' = [call EXCEPT !.step = "fence"] /\ UNCHANGED lease
  /\ UNCHANGED <<trunk, git, row, evidenceVars, grants, made, tokens, slotOn, up, processCounts, taskVars>>

\* The lease of the row; releasing one that lapsed unnoticed is refused and ends the handler.
EndLease ==
  LET t == call.task IN
  /\ up /\ call.op \in {"release", "finalize"} /\ call.step = "lease"
  /\ IF lease[t].epoch = row[t].epoch /\ lease[t].status = "active"
       THEN IF Held(t) THEN lease' = Released(t) /\ call' = [call EXCEPT !.step = "fence"]
                       ELSE UNCHANGED lease /\ call' = NoCall
       ELSE UNCHANGED lease /\ call' = [call EXCEPT !.step = "fence"]
  /\ UNCHANGED <<trunk, git, row, evidenceVars, grants, made, tokens, slotOn, up, processCounts, taskVars>>

\* The grant is revoked and its token file removed.
Fence ==
  LET t == call.task IN
  /\ up /\ call.op \in {"release", "finalize"} /\ call.step = "fence"
  /\ grants' = [grants EXCEPT ![t] = @ \ {row[t].grant}] /\ tokens' = [tokens EXCEPT ![t] = @ \ {row[t].grant}]
  /\ IF call.op = "finalize" /\ row[t].status = "active"
       THEN call' = [call EXCEPT !.step = "tree"] /\ UNCHANGED answered
       ELSE call' = NoCall /\ answered' = answered \cup {t}
  /\ UNCHANGED <<trunk, git, row, evidenceVars, lease, made, slotOn, up, processCounts, done, review>>

-----------------------------------------------------------------------------
(* The process *)

Crash ==
  /\ up /\ Trouble
  /\ up' = FALSE /\ crashes' = crashes + 1 /\ call' = NoCall
  /\ UNCHANGED <<trunk, git, row, evidenceVars, authorityVars, taskVars>>

\* Slip: tasks that are completed already are passed over.
RecoveredOpen == {c \in Claim : claim[c].status = "verified" /\ claim[c].task \in OrgTask
                                /\ row[claim[c].task].status # "none" /\ done[claim[c].task] = Null}

\* Verified work of the organization, as start-up finds it.
Recovered == {c \in Claim : claim[c].status = "verified" /\ claim[c].task \in OrgTask
                            /\ row[claim[c].task].status # "none"}

\* gamd serves requests only after it went through what was verified.
Startup ==
  /\ ~up /\ up' = TRUE /\ review' = review \cup Recovered
  /\ UNCHANGED <<trunk, git, row, evidenceVars, authorityVars, call, processCounts, done, answered>>

AgentStep == \E t \in Task : \/ Works(t) \/ TreeForgotten(t) \/ TimePasses(t)
                             \/ RenewLease(t) \/ SuspendSlot(t) \/ ResumeSlot(t)
                             \/ \E c \in Claim : SubmitClaim(c, t)
OtherStep == TrunkMoves \/ FileChanges \/ \E c \in Claim : RegisterArtifact(c)
ProvisionStep == \/ \E t \in Task : Provision(t)
                 \/ ProvisionLease \/ ProvisionGrant \/ ProvisionToken \/ ProvisionRow
                 \/ ProvisionFails \/ UndoGrant \/ UndoLease \/ UndoTree
FinishStep == \/ \E c \in Claim : VerifyClaim(c)
              \/ CompleteTask \/ HandOver
              \/ \E t \in Task : ReleaseTaskWorkspace(t)
              \/ RemoveTree \/ RowReleased \/ EndLease \/ Fence
Next == AgentStep \/ OtherStep \/ ProvisionStep \/ FinishStep \/ Crash \/ Startup

Spec == Init /\ [][Next]_workspaceVars

-----------------------------------------------------------------------------
(* Properties *)

\* A completed task names a verified claim of its own, made under the lease of its workspace, of a
\* commit that is new and built on the workspace's base.
CompletionIsEarned ==
  \A t \in Task : done[t] # Null =>
    LET c == claim[done[t]] IN
    /\ c.status = "verified" /\ c.task = t /\ c.epoch = row[t].epoch
    /\ c.commit # row[t].base /\ Descends(c.commit, row[t].base)

\* No completion is replaced, and a claim is verified only while the worktree holds nothing but it.
VerdictsAreFinal ==
  [][\A t \in Task :
       /\ done[t] # Null => done'[t] = done[t]
       /\ \A c \in Claim : claim[c].status = "submitted" /\ claim'[c].status = "verified"
                           /\ claim[c].task = t /\ row[t].status # "none" => Clean(t)]_workspaceVars

\* Whatever the agent does while gamd looks away, files that are not committed stay.
UncommittedWorkKept == [][\A t \in Task : git[t].tree = "dirty" => git'[t].tree # "none"]_workspaceVars

\* Neither a completion nor an uncommitted file is lost.
WorkIsKept == VerdictsAreFinal /\ UncommittedWorkKept

\* Once a release or the clean-up after completion ran to its end, nobody acts on the task by the
\* workspace's authority: the grant is revoked, its file gone, and its lease over.
AnsweredIsFenced ==
  \A t \in answered : /\ row[t].grant \notin grants[t] \cup tokens[t]
                      /\ lease[t].epoch = row[t].epoch => lease[t].status # "active"

\* Grants, and token files, that no workspace has.
Leftovers == UNION {{t} \X ((grants[t] \cup tokens[t]) \ {row[t].grant}) : t \in Task}

\* An attempt to provide a workspace that failed leaves no authority behind.  What there is without a
\* row, while no handler runs, was left by a gamd that stopped: one grant each time at most.
LeftoversAreOfCrashes ==
  call.op = "idle" =>
    /\ Cardinality(Leftovers) <= crashes
    /\ \A t \in Task : row[t].status = "none" /\ Held(t) => crashes > 0

\* Work of the organization that was completed has been handed over to review whenever gamd serves
\* requests and none is under way, however often it stopped in between.
CompletionIsHandedOver ==
  Ready => \A t \in OrgTask : done[t] # Null => done[t] \in review

\* A worktree that is gone is not thought to be there: what was interrupted can be taken up again.
InterruptedCanBeRepeated ==
  Ready => \A t \in Task : row[t].status = "active" => git[t].tree # "none"
=============================================================================
