--------------------------- MODULE MCOrganization ---------------------------
(* Small instances of the organization, checked side by side: its work, for *)
(* two agents, a request and a review; and the runtimes of two agents of    *)
(* one role, whose conversations have to follow them.  A behaviour is one   *)
(* of "part": the first has no conversations, the second no work.           *)
EXTENDS OrganizationWork

VARIABLE part

\* The lead is registered before the reviewer; a slot of the Review Pool waits.
Agents == 1 .. 2
Keys == Agents \cup {9}

Within ==
  IF part = "work"
    THEN \A s \in SlotId : slots[s].chat = Null
    ELSE /\ \A s \in SlotId : slots[s].role = LeadRole
         /\ \A k \in Key : asked[k] # NoAsk => k \in Agents /\ asked[k].role = LeadRole

MCInit == part \in {"work", "runtime"} /\ InitWork

MCNext ==
  /\ UNCHANGED part
  /\ \/ part = "work" /\ WorkNext
     \/ part = "runtime" /\ RuntimeNext /\ UNCHANGED <<workVars, moves>>
  /\ Within'

MCSpec == MCInit /\ [][MCNext]_<<part, allVars>>
=============================================================================
