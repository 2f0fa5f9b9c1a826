------------------------------- MODULE Outbox -------------------------------
(***************************************************************************)
(* What the mail tool promises about drafts.  A draft is written, may then *)
(* wait for its confirmation, and ends canceled or done; both ends are     *)
(* final.  A mail is a waiting draft, and the mail ends the wait, unless   *)
(* Gmail's answer is lost: only then may the same draft leave again.       *)
(***************************************************************************)
EXTENDS Naturals, Sequences

VARIABLES
  fate, \* what became of each draft, in the order they were begun
  out,  \* the drafts that left as mails, oldest first
  lost  \* mails whose answer was lost

\* What may become of a draft in one step.
After == [writing  |-> {"writing", "waiting", "done"},
          waiting  |-> {"waiting", "canceled", "done"},
          canceled |-> {"canceled"},
          done     |-> {"done"}]

Init == fate = <<>> /\ out = <<>> /\ lost = 0

\* One more draft is begun.
Begin == fate' = Append(fate, "writing") /\ UNCHANGED <<out, lost>>

\* Drafts are finished, canceled, given up or overtaken by newer ones.
Onward ==
  /\ DOMAIN fate' = DOMAIN fate
  /\ \A d \in DOMAIN fate : fate'[d] \in After[fate[d]]

\* A waiting draft leaves.
Leave(d) ==
  /\ fate[d] = "waiting"
  /\ out' = Append(out, d)
  /\ Onward
  /\ \/ fate'[d] = "done" /\ lost' = lost
     \/ fate'[d] # "canceled" /\ lost' = lost + 1

Next ==
  \/ Begin
  \/ Onward /\ UNCHANGED <<out, lost>>
  \/ \E d \in DOMAIN fate : Leave(d)

Spec == Init /\ [][Next]_<<fate, out, lost>>
=============================================================================
