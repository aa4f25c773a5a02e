------------------------- MODULE MCConnectionEndpoint -------------------------
(***************************************************************************)
(* ConnectionEndpoint for TLC: two mechanisms, MIN-MAX-FRAME-SIZE of 2,    *)
(* and units on both sides of every guard the layer has.                   *)
(***************************************************************************)
EXTENDS ConnectionEndpoint

CONSTANTS m1, m2

MCMechanisms == {m1, m2}

\* Size 2 and channel 0 are a priori acceptable; size 3 and channel 1 only to
\* a peer whose open declared them; size 4 and channel 2 to no peer.
Open(channel, complete, max, channels) ==
    [kind |-> "frame", body |-> "open", channel |-> channel, size |-> 2,
     complete |-> complete,
     declares |-> [maxFrameSize |-> max, channelMax |-> channels]]

Plain(body, channel, size, complete) ==
    [kind |-> "frame", body |-> body, channel |-> channel, size |-> size,
     complete |-> complete]

Sasl(body, size, complete, names, code) ==
    [kind |-> "frame", body |-> body, size |-> size, complete |-> complete,
     names |-> names, code |-> code]

Opens == {Open(0, TRUE, 2, 0), Open(0, TRUE, 3, 1), Open(1, TRUE, 3, 1),
          Open(0, FALSE, 3, 1)}

Plains == {Plain("close", 0, 2, TRUE), Plain("close", 0, 2, FALSE),
           Plain("other", 0, 2, TRUE), Plain("other", 1, 3, FALSE),
           Plain("other", 2, 2, TRUE), Plain("other", 0, 4, TRUE)}

Dialogue ==
    {Sasl("mechanisms", 2, TRUE, names, "ok") : names \in SUBSET {m1, m2}} \cup
    {Sasl("init", 2, TRUE, {m}, "ok") : m \in {m1, m2}} \cup
    {Sasl("init", 2, FALSE, {m1}, "ok"),
     Sasl("challenge", 2, TRUE, {}, "ok"), Sasl("response", 2, TRUE, {}, "ok"),
     Sasl("outcome", 3, TRUE, {}, "ok")} \cup
    {Sasl("outcome", 2, TRUE, {}, code) : code \in {"ok", "auth", "undeclared"}}

MCOffered  == Headers \cup Opens \cup Plains \cup Dialogue \cup {EmptyFrame}
MCIncoming == MCOffered \cup {Garbage}
=============================================================================
