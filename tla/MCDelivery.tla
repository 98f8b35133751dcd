----------------------------- MODULE MCDelivery -----------------------------
(* Small instances of PromptDelivery, checked side by side: a message that  *)
(* two planner runs take up, and a task with its retries that one takes up  *)
(* (two of them do not keep the promise: README, section 8).  A behaviour   *)
(* is one of "part".                                                        *)
EXTENDS PromptDelivery

CONSTANTS r1, r2

VARIABLE part

\* Message: no run plans a task.  Task: one run, and no message.
Within ==
  IF part = "message"
    THEN \A t \in Task : version[t] = 0 /\ \A r \in Run : run[r].prompt # t
    ELSE run[r2] = NoRun /\ run[r1].prompt \notin Message

MCInit == part \in {"message", "task"} /\ Init
MCNext == UNCHANGED part /\ Next /\ Within'
MCSpec == MCInit /\ [][MCNext]_<<part, vars>> /\ Fairness
=============================================================================
