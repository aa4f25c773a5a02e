------------------------------- MODULE Handshake -------------------------------
(***************************************************************************)
(* What the connection state table promises, without its fourteen names.   *)
(* Each peer says three things in order -- its header, its open and its    *)
(* close -- and hears its partner's three in order.  It says the next one  *)
(* only once it has heard the partner's previous one.                      *)
(***************************************************************************)
EXTENDS Naturals

VARIABLES said, heard

handshake == <<said, heard>>

Peers == {"client", "server"}
Other(p) == IF p = "client" THEN "server" ELSE "client"

\* 0 nothing, 1 the header, 2 the open, 3 the close.
Stages == 0..3

Init == /\ said  = [p \in Peers |-> 0]
        /\ heard = [p \in Peers |-> 0]

Speak(p) == /\ said[p] < 3
            /\ said[p] <= heard[p]
            /\ said' = [said EXCEPT ![p] = @ + 1]
            /\ UNCHANGED heard

Hear(p) == /\ heard[p] < said[Other(p)]
           /\ heard' = [heard EXCEPT ![p] = @ + 1]
           /\ UNCHANGED said

Next == \E p \in Peers : Speak(p) \/ Hear(p)

\* Nobody has to begin to close; every other stage is spoken in the end, and a
\* close that was heard is answered.
Answers(p) == /\ said[p] = 2 => heard[p] = 3
              /\ Speak(p)

Fairness == \A p \in Peers : WF_handshake(Answers(p)) /\ WF_handshake(Hear(p))

Spec == Init /\ [][Next]_handshake /\ Fairness

-----------------------------------------------------------------------------

TypeOK == /\ said  \in [Peers -> Stages]
          /\ heard \in [Peers -> Stages]

\* Nothing is heard that was not said, and no peer runs more than one stage
\* ahead of its partner.
InStep == \A p \in Peers : /\ heard[p] <= said[Other(p)]
                           /\ said[p] <= said[Other(p)] + 1
=============================================================================
