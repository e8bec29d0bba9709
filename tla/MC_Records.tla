----------------------------- MODULE MC_Records ------------------------------
EXTENDS Records

(* Outcomes that between them reach every state, and the ways back. *)
MCOutcomes ==
    [kind : {"ok"}, tag : {"none"}, flag : {FALSE}]
    \cup [kind : {"unknown"}, tag : {"none"}, flag : BOOLEAN]
    \cup [kind : {"not-ok"}, tag : {"wait", "changes"}, flag : {FALSE}]
    \cup [kind : {"triage"}, tag : {"redesign"}, flag : {FALSE}]

(* No agent works beside one whose spawn was given up: the retry does not start
   before it ended (SPEC 13.5.1 "so two agents never work one key").  Violated: an
   entry with no id is not in the agent list (v2/steps.ts, v2/rules-entry.ts stops). *)
UnseenAlone == unseen => step.st # "running" /\ ~old
=============================================================================
