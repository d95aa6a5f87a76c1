---------------------------- MODULE OrderedLine ----------------------------
(***************************************************************************)
(* What the receiver of the SOC's UART promises to the handlers of         *)
(* app_ctrl.c, without bytes, buffer or parser: the frames the SOC sends   *)
(* are numbered, some of them are spoiled on the way or in the buffer, and *)
(* the others are handed over in the order they were sent, once each.  A   *)
(* frame is never overtaken unless it is spoiled.                          *)
(*                                                                         *)
(* One thing is promised less: a frame that was handed over or is spoiled  *)
(* may come again, as a copy that a move of the buffer left behind.        *)
(***************************************************************************)
EXTENDS Naturals, Sequences

VARIABLES
    sent,      \* the frames the SOC has sent or is sending
    spoiled,   \* those of them that lost a byte
    got        \* what was handed over, and whether as a copy

Init == sent = 0 /\ spoiled = {} /\ got = <<>>

Spoils == spoiled \subseteq spoiled' /\ spoiled' \subseteq 1..sent'

Send == sent' = sent + 1 /\ Spoils /\ UNCHANGED got

Spoil == Spoils /\ UNCHANGED <<sent, got>>

\* Spoiled or handed over
Settled(f) == f \in spoiled \/ \E j \in DOMAIN got : got[j].f = f

HandOver(f, copy) == /\ \A g \in 1..(f - 1) : Settled(g)
                     /\ got' = Append(got, [f |-> f, copy |-> copy])
                     /\ UNCHANGED <<sent, spoiled>>

InOrder(f) == /\ \A j \in DOMAIN got : got[j].copy \/ got[j].f < f
              /\ HandOver(f, FALSE)

Again(f) == Settled(f) /\ HandOver(f, TRUE)

Next == Send \/ Spoil \/ \E f \in 1..sent : InOrder(f) \/ Again(f)

vars == <<sent, spoiled, got>>

Spec == Init /\ [][Next]_vars
=============================================================================
