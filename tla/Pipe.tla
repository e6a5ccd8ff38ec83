-------------------------------- MODULE Pipe --------------------------------
(***************************************************************************)
(* One direction of a proxied connection as its two ends see it: what one  *)
(* end has put in and what the other has taken out.  Nothing is invented,  *)
(* repeated or left out on the way; the last items may never arrive.       *)
(***************************************************************************)
EXTENDS Sequences, SequencesExt

CONSTANT Item

VARIABLES sent, got

Init == sent = <<>> /\ got = <<>>

Put ==
    /\ IsStrictPrefix(sent, sent') /\ sent' \in Seq(Item)
    /\ UNCHANGED got

Take ==
    /\ IsStrictPrefix(got, got')
    /\ IsPrefix(got', sent)
    /\ UNCHANGED sent

Next == Put \/ Take

Spec == Init /\ [][Next]_<<sent, got>>
=============================================================================
