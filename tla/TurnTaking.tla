----------------------------- MODULE TurnTaking -----------------------------
(***************************************************************************)
(* What a squad session promises: the channel hears the turns in their     *)
(* order, each at most once, with nobody in between.  A session may stop   *)
(* early; it may never skip ahead, repeat or interleave.                   *)
(***************************************************************************)
EXTENDS Naturals, Sequences

CONSTANTS Bot,   \* the speakers
          Turns  \* who speaks first, second, ...: a sequence of speakers

VARIABLE said    \* the speakers heard so far

Init == said = <<>>

Speak ==
  /\ Len(said) < Len(Turns)
  /\ said' = Append(said, Turns[Len(said) + 1])

Spec == Init /\ [][Speak]_said
=============================================================================
