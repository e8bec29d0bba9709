------------------------------ MODULE MC_Slots ------------------------------
(* Two lives and two slots, with a place for one life at a time. *)
EXTENDS Slots

\* What Alone leaves out (docs/factory-loop/v2/SPEC.md:4558, "One writer"): an agent whose spawn was
\* given up works beside no other.
UnseenAlone == \A u \in unseen, a \in agents : u.works /\ ~a.loose => a.slot # u.slot

\* And what WorkSaved leaves out: what such an agent wrote is saved before its slot is reset.
StraySaved == op.at = "reset" => slot[op.slot].work # "stray"
=============================================================================
