--------------------------- MODULE MCConnectionPair ---------------------------
(***************************************************************************)
(* ConnectionPair for TLC.  MIN-MAX-FRAME-SIZE is 2; a peer may declare    *)
(* that minimum on one channel, or size 3 on two channels.                 *)
(***************************************************************************)
EXTENDS ConnectionPair

CONSTANTS m1, m2

MCMechanisms == {m1, m2}

Open(max, channels) ==
    [kind |-> "frame", body |-> "open", channel |-> 0, size |-> 2,
     complete |-> TRUE,
     declares |-> [maxFrameSize |-> max, channelMax |-> channels]]

Plain(body, channel, size) ==
    [kind |-> "frame", body |-> body, channel |-> channel, size |-> size,
     complete |-> TRUE]

Sasl(body, names) ==
    [kind |-> "frame", body |-> body, size |-> 2, complete |-> TRUE,
     names |-> names, code |-> "ok"]

\* Relayed frames on both sides of each pair of limits.
Amqp == {Open(2, 0), Open(3, 1), Plain("close", 0, 2), Plain("other", 0, 2),
         Plain("other", 1, 3), Plain("other", 0, 4)}

\* Each application asks for more than its part of the dialogue.
Dialogue == {Sasl("mechanisms", {m1}), Sasl("mechanisms", {m1, m2}),
             Sasl("init", {m1}), Sasl("init", {m2}), Sasl("challenge", {}),
             Sasl("response", {}), Sasl("outcome", {})}

MCOffered == [p \in Peers |-> Amqp \cup Dialogue]
MCAmqp    == [p \in Peers |-> Amqp]
BothLayers == {"amqp", "sasl"}
OneLayer   == {"amqp"}
=============================================================================
