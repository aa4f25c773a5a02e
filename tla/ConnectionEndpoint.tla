-------------------------- MODULE ConnectionEndpoint --------------------------
(***************************************************************************)
(* One endpoint (Impl.Core over Spec.Connection) against an arbitrary      *)
(* application and an arbitrary partner: any unit may be offered, any unit *)
(* may arrive, in any order, for ever.                                     *)
(*                                                                         *)
(* `conn' and `answer' are the code's: the core's connection state and the *)
(* outputs of its last step.  `said' and `heard' are history: the kinds of *)
(* unit written to and taken from the wire since the connection last was   *)
(* in START.  The properties compare what the state claims with them.      *)
(***************************************************************************)
EXTENDS Connection

CONSTANTS
    Offered,   \* units the application may ask to send
    Incoming   \* units the partner may put on the wire

ASSUME EndpointAssumption == /\ Offered \subseteq Units
                             /\ Incoming \subseteq Units \cup {Garbage}

VARIABLES conn, answer, said, heard

vars == <<conn, answer, said, heard>>

-----------------------------------------------------------------------------

Kinds == {"header", "open", "close", "sasl", "other"}

KindOf(u) == IF u.kind = "header" THEN "header" ELSE RoleOfBody(u)

KindsOf(units) == {KindOf(units[i]) : i \in DOMAIN units}

Init == /\ conn = InitialEndpoint
        /\ answer = [out |-> FALSE, ok |-> TRUE, wrote |-> <<>>]
        /\ said = {}
        /\ heard = {}

\* The core's answer r to a step in direction `out': the connection moves, the
\* outputs are handed on, and history is kept for this header exchange only.
AnswerOf(r, out, taken) ==
    /\ conn' = r.conn
    /\ answer' = [out |-> out, ok |-> r.ok, wrote |-> r.wrote]
    /\ said' = IF r.conn.state = "START" THEN {}
               ELSE said \cup KindsOf(r.wrote)
    /\ heard' = IF r.conn.state = "START" THEN {} ELSE heard \cup taken

\* Impl.Core.submit: the application asks the core to send u.
Submit(u) == AnswerOf(Sending(conn, u), TRUE, {})

\* Impl.Core.step on a frame input: one arriving unit offered to the layer.
Receive(u) == LET r == Arriving(conn, u)
              IN  AnswerOf(r, FALSE, IF r.ok THEN {KindOf(u)} ELSE {})

Next == \/ \E u \in Offered  : Submit(u)
        \/ \E u \in Incoming : Receive(u)

Spec == Init /\ [][Next]_vars

-----------------------------------------------------------------------------
(* Invariants. *)

\* Type correctness of the core's connection state and of the history.
TypeOK ==
    /\ conn \in Endpoints
    /\ answer.out \in BOOLEAN /\ answer.ok \in BOOLEAN
    /\ answer.wrote \in Seq(Units)
    /\ said \subseteq Kinds
    /\ heard \subseteq Kinds

\* Contracts/Sasl.lean's reachable dialogue, with the table's state added: the
\* SASL layer lives between the headers and the outcome only, a dialogue that
\* has begun is that layer's, and from the announcement to the outcome there
\* are mechanisms and this peer has its role.
DialogueInv ==
    /\ conn.layer = "sasl" => conn.state \in {"HDR_SENT", "HDR_RCVD", "HDR_EXCH", "END"}
    /\ conn.phase # "absent" => conn.layer = "sasl" /\ conn.state \in {"HDR_EXCH", "END"}
    /\ conn.layer = "sasl" /\ conn.state = "HDR_EXCH" => conn.phase # "absent"
    /\ conn.phase \in {"mechanismsKnown", "awaitingOutcome"} <=> conn.role # "none"
    /\ conn.phase \in {"mechanismsKnown", "awaitingOutcome"} <=> conn.mechanisms # {}

\* What a state's name claims about the exchange is what crossed the wire: the
\* fourteen labels of the table are the only memory the code has of it.  The
\* error states claim nothing; CLOSE_RCVD does not know whether an open was
\* written, and HDR_RCVD and HDR_EXCH do not know whether one was heard.
StateTellsHistory ==
    conn.state \notin {"DISCARDING", "END"} =>
        /\ conn.state = "START" => said = {} /\ heard = {}
        /\ "header" \in said <=> conn.state \notin {"START", "HDR_RCVD"}
        /\ "header" \in heard <=>
               conn.state \notin {"START", "HDR_SENT", "OPEN_PIPE", "OC_PIPE"}
        /\ conn.state # "CLOSE_RCVD" =>
               ("open" \in said <=>
                    conn.state \in {"OPEN_SENT", "OPEN_PIPE", "OPENED", "CLOSE_PIPE",
                                    "OC_PIPE", "CLOSE_SENT"})
        /\ conn.state \in {"OPEN_RCVD", "OPENED", "CLOSE_RCVD", "CLOSE_SENT"} =>
               "open" \in heard
        /\ "close" \in said <=> conn.state \in {"CLOSE_PIPE", "OC_PIPE", "CLOSE_SENT"}
        /\ "close" \in heard <=> conn.state = "CLOSE_RCVD"

\* The limits in force are the a priori ones until the open that replaces them
\* has crossed, in its own direction, in this header exchange: a SASL layer
\* established in between leaves nothing of an earlier exchange behind.
LimitsFromOpens ==
    /\ "open" \notin said  => conn.localLimits = APriori
    /\ "open" \notin heard => conn.remoteLimits = APriori

\* The dialogue's position is what was said and heard of it: the peer that
\* announced said so, its partner heard it, and once an initiation has crossed
\* both have spoken.  Nothing of the AMQP layer is said while SASL goes on.
DialogueTold ==
    /\ conn.layer = "sasl" => said \cap {"open", "close"} = {}
    /\ conn.role = "server" => "sasl" \in said
    /\ conn.role = "client" => "sasl" \in heard
    /\ conn.phase = "awaitingOutcome" => "sasl" \in said /\ "sasl" \in heard

-----------------------------------------------------------------------------
(* Action properties. *)

Wrote(kind) == kind \in KindsOf(answer'.wrote)

\* However sends, arrivals and SASL layers interleave, no header exchange ever
\* carries a second open from this peer (second-open-refusal of the register).
OpenWrittenOnce == [][ "open" \in said => ~Wrote("open") ]_vars

\* Once its close is on the wire a peer writes no frame, whatever arrives and
\* whatever it is asked to send.
NoFrameAfterClose ==
    [][ "close" \in said =>
            ~\E k \in Kinds \ {"header"} : Wrote(k) ]_vars

\* A connection returns to START only by the outcome of a dialogue it took
\* part in: both peers have spoken SASL in this exchange, and the outcome went
\* from the server to the client.
SaslEstablishment ==
    [][ conn.state # "START" /\ conn'.state = "START" =>
            /\ conn.phase = "awaitingOutcome"
            /\ answer'.ok
            /\ answer'.out <=> conn.role = "server"
            /\ "sasl" \in said /\ "sasl" \in heard ]_vars

\* Within one SASL layer the dialogue never goes back, and neither the roles
\* nor the mechanisms change once they are announced.
DialogueNeverRestarts ==
    [][ conn.layer = "sasl" /\ conn'.layer = "sasl" =>
            /\ Rank(conn.phase) <= Rank(conn'.phase)
            /\ conn.role # "none" => /\ conn'.role = conn.role
                                     /\ conn'.mechanisms = conn.mechanisms ]_vars
=============================================================================
