------------------------------ MODULE Connection ------------------------------
(***************************************************************************)
(* The AMQP 1.0 connection layer of lean/Spec/Connection.lean as pure      *)
(* operators: the state table, the frame and header steps, the SASL        *)
(* dialogue, and the placement of a refusal.  An endpoint is a record, a   *)
(* step is an operator from an endpoint and one wire unit to an answer.    *)
(* Modules that own variables EXTEND this one.                             *)
(*                                                                         *)
(* Octets are abstracted to wire units: a protocol header of a supported   *)
(* layer, a frame, or "garbage" (octets that decode to neither).  A frame  *)
(* keeps what a guard reads: its performative, channel, size, and the      *)
(* fields that decide a step.  `complete' stands for "every mandatory      *)
(* field is there, each at its declared type" (missingMandatory, intField, *)
(* fieldShapeAdmitted), and for an outcome that reports a failure also for *)
(* "it sets no additional-data".  The condition, class and text of a       *)
(* refusal are left out: no state depends on them.                         *)
(*                                                                         *)
(* A definition named Mut... is a plausible slip in the definition after   *)
(* it; nothing uses it except the mutation runs of PROJECT.json.           *)
(***************************************************************************)
EXTENDS Naturals, Sequences

CONSTANTS
    MinMaxFrameSize,  \* MIN-MAX-FRAME-SIZE of the artifact's constant table
    Mechanisms        \* the SASL mechanism names

ASSUME ConnectionAssumption == MinMaxFrameSize \in Nat

-----------------------------------------------------------------------------
(* The state table. *)

States == {"START", "HDR_RCVD", "HDR_SENT", "HDR_EXCH", "OPEN_RCVD",
           "OPEN_SENT", "OPEN_PIPE", "CLOSE_PIPE", "OC_PIPE", "OPENED",
           "CLOSE_RCVD", "CLOSE_SENT", "DISCARDING", "END"}

\* The "Legal Sends" column: the states of each class; the rest send nothing.
HeaderSenders     == {"START", "HDR_RCVD"}
OpenSenders       == {"HDR_SENT", "HDR_EXCH", "OPEN_RCVD"}
ConformingSenders == {"OPEN_SENT", "OPEN_PIPE"}
AnySenders        == {"OPENED", "CLOSE_RCVD"}

\* The "Legal Receives" column, on the same terms.
HeaderReceivers == {"START", "HDR_SENT", "OPEN_PIPE", "OC_PIPE"}
OpenReceivers   == {"HDR_RCVD", "HDR_EXCH", "OPEN_SENT", "CLOSE_PIPE"}
AnyReceivers    == {"OPEN_RCVD", "OPENED", "CLOSE_SENT", "DISCARDING"}

-----------------------------------------------------------------------------
(* Data. *)

Layers == {"amqp", "sasl"}
Phases == {"absent", "awaitingMechanisms", "mechanismsKnown", "awaitingOutcome"}
Roles  == {"none", "server", "client"}

Rank(phase) ==
    CASE phase = "absent"             -> 0
      [] phase = "awaitingMechanisms" -> 1
      [] phase = "mechanismsKnown"    -> 2
      [] phase = "awaitingOutcome"    -> 3

\* The values the sasl-code choice declares.
SaslCodes == {"ok", "auth", "sys", "sys-perm", "sys-temp"}

Limits  == [maxFrameSize : Nat, channelMax : Nat]
APriori == [maxFrameSize |-> MinMaxFrameSize, channelMax |-> 0]

Endpoints == [state        : States,
              layer        : Layers,
              phase        : Phases,
              role         : Roles,
              mechanisms   : SUBSET Mechanisms,
              localLimits  : Limits,
              remoteLimits : Limits]

InitialEndpoint == [state        |-> "START",
                    layer        |-> "amqp",
                    phase        |-> "absent",
                    role         |-> "none",
                    mechanisms   |-> {},
                    localLimits  |-> APriori,
                    remoteLimits |-> APriori]

-----------------------------------------------------------------------------
(* Wire units. *)

SaslBodies == {"mechanisms", "init", "challenge", "response", "outcome"}

Header(layer) == [kind |-> "header", layer |-> layer]
Garbage       == [kind |-> "garbage"]
EmptyFrame    == [kind |-> "frame", body |-> "none"]

Headers    == [kind : {"header"}, layer : Layers]
OpenFrames == [kind : {"frame"}, body : {"open"}, channel : Nat, size : Nat,
               complete : BOOLEAN, declares : Limits]
PlainFrames == [kind : {"frame"}, body : {"close", "other"}, channel : Nat,
                size : Nat, complete : BOOLEAN]
\* `names' is the announced list of a sasl-mechanisms and the choice of a
\* sasl-init; `code' is the outcome's code, "undeclared" when the choice
\* table has no row for it.
SaslFrames == [kind : {"frame"}, body : SaslBodies, size : Nat,
               complete : BOOLEAN, names : SUBSET Mechanisms,
               code : SaslCodes \cup {"undeclared"}]
Frames == OpenFrames \cup PlainFrames \cup SaslFrames \cup {EmptyFrame}
Units  == Headers \cup Frames

-----------------------------------------------------------------------------
(* Answers: the endpoint a step leaves, whether the step was taken, and    *)
(* the units it writes.                                                    *)

Taken(e, wrote)   == [conn |-> e, ok |-> TRUE,  wrote |-> wrote]
Refused(e, wrote) == [conn |-> e, ok |-> FALSE, wrote |-> wrote]

\* Where an unplaced refusal leaves the peer: a refused send moves nothing, a
\* refused receive ends a SASL exchange (or stays ended), and otherwise
\* leaves the peer in the table's error-triggered variant of CLOSE_SENT.
WithPlace(e, out) ==
    IF out THEN e
    ELSE [e EXCEPT !.state = IF e.state = "END" \/ e.layer = "sasl"
                             THEN "END" ELSE "DISCARDING"]

-----------------------------------------------------------------------------
(* Header exchange. *)

\* Mutant: the dialogue begins as soon as one header has crossed.
MutAfterHeaderExchange(e) ==
    IF e.layer = "sasl" /\ e.phase = "absent"
    THEN [e EXCEPT !.phase = "awaitingMechanisms"]
    ELSE e

AfterHeaderExchange(e) ==
    IF e.layer = "sasl" /\ e.state = "HDR_EXCH" /\ e.phase = "absent"
    THEN [e EXCEPT !.phase = "awaitingMechanisms"]
    ELSE e

HeaderSent(state) == IF state = "START" THEN "HDR_SENT" ELSE "HDR_EXCH"

\* Mutant: a pipelined open is forgotten when the partner's header comes.
MutHeaderReceived(state) ==
    CASE state = "START"     -> "HDR_RCVD"
      [] state \in {"HDR_SENT", "OPEN_PIPE"} -> "HDR_EXCH"
      [] state = "OC_PIPE"   -> "CLOSE_PIPE"
      [] OTHER               -> state

HeaderReceived(state) ==
    CASE state = "START"     -> "HDR_RCVD"
      [] state = "HDR_SENT"  -> "HDR_EXCH"
      [] state = "OPEN_PIPE" -> "OPEN_SENT"
      [] state = "OC_PIPE"   -> "CLOSE_PIPE"
      [] OTHER               -> state

\* From START either layer is free; afterwards a header must name the layer
\* the exchange is in.
LayerAgrees(e, layer) == e.state # "START" => layer = e.layer

StepHeader(e, out, layer) ==
    LET next(state) == AfterHeaderExchange([e EXCEPT !.state = state,
                                                     !.layer = layer])
    IN  IF out
        THEN IF e.state \in HeaderSenders /\ LayerAgrees(e, layer)
             THEN Taken(next(HeaderSent(e.state)), <<Header(layer)>>)
             ELSE Refused(e, <<>>)
        ELSE IF e.state \notin HeaderReceivers
             THEN Refused(WithPlace(e, FALSE), <<>>)
             ELSE IF LayerAgrees(e, layer)
                  THEN Taken(next(HeaderReceived(e.state)), <<>>)
                  ELSE Refused([e EXCEPT !.state = "END"], <<>>)

\* A header that does not decode where one is due is answered with this
\* peer's own header, and ends the connection.
HeaderFailure(e) == Refused([e EXCEPT !.state = "END"], <<Header(e.layer)>>)

-----------------------------------------------------------------------------
(* The SASL dialogue. *)

\* Mutant: a sasl-init is taken from either peer, as it was before the
\* dialogue knew its roles.
MutSaslAdmits(e, out, f) ==
    /\ f.body \in SaslBodies /\ f.size <= MinMaxFrameSize /\ f.complete
    /\ \/ e.phase = "awaitingMechanisms" /\ f.body = "mechanisms" /\ f.names # {}
       \/ /\ e.phase = "mechanismsKnown" /\ f.body = "init"
          /\ \E m \in e.mechanisms : f.names = {m}
       \/ /\ e.phase = "awaitingOutcome"
          /\ \/ f.body = "response" /\ (out <=> e.role # "server")
             \/ f.body \in {"challenge", "outcome"} /\ (out <=> e.role = "server")

\* Mutant: the mechanisms may be announced again before the outcome.
MutSaslReannounced(e, out, f) ==
    /\ f.body \in SaslBodies /\ f.size <= MinMaxFrameSize /\ f.complete
    /\ \/ e.phase # "absent" /\ f.body = "mechanisms" /\ f.names # {}
       \/ /\ e.phase = "mechanismsKnown" /\ f.body = "init"
          /\ e.role # (IF out THEN "server" ELSE "client")
          /\ \E m \in e.mechanisms : f.names = {m}
       \/ /\ e.phase = "awaitingOutcome" /\ f.body = "outcome"
          /\ out <=> e.role = "server"
          /\ f.code \in SaslCodes

SaslAdmits(e, out, f) ==
    /\ f.body \in SaslBodies
    /\ f.size <= MinMaxFrameSize
    /\ f.complete
    /\ \/ /\ e.phase = "awaitingMechanisms"
          /\ f.body = "mechanisms"
          /\ f.names # {}
       \/ /\ e.phase = "mechanismsKnown"
          /\ f.body = "init"
          /\ e.role # (IF out THEN "server" ELSE "client")
          /\ \E m \in e.mechanisms : f.names = {m}
       \/ /\ e.phase = "awaitingOutcome"
          /\ \/ f.body = "challenge" /\ (out <=> e.role = "server")
             \/ f.body = "response"  /\ (out <=> e.role # "server")
             \/ /\ f.body = "outcome"
                /\ out <=> e.role = "server"
                /\ f.code \in SaslCodes

\* Mutant: the outcome clears the dialogue under the reference's name, idle.
MutAfterSasl(e, out, f) ==
    CASE f.body = "mechanisms" ->
           [e EXCEPT !.phase = "mechanismsKnown", !.mechanisms = f.names,
                     !.role = IF out THEN "server" ELSE "client"]
      [] f.body = "init"    -> [e EXCEPT !.phase = "awaitingOutcome"]
      [] f.body = "outcome" -> [InitialEndpoint EXCEPT !.phase = "idle"]
      [] OTHER              -> e

\* Mutant: whoever takes part in the announcement is the server.
MutAfterSaslRoles(e, out, f) ==
    CASE f.body = "mechanisms" -> [e EXCEPT !.phase = "mechanismsKnown",
                                            !.mechanisms = f.names, !.role = "server"]
      [] f.body = "init"       -> [e EXCEPT !.phase = "awaitingOutcome"]
      [] f.body = "outcome"    -> InitialEndpoint
      [] OTHER                 -> e

\* Only an admitted sasl-outcome can carry the code ok; it sends the peer
\* back to the protocol headers, the AMQP layer's this time.
AfterSasl(e, out, f) ==
    CASE f.body = "mechanisms" ->
           [e EXCEPT !.phase = "mechanismsKnown", !.mechanisms = f.names,
                     !.role = IF out THEN "server" ELSE "client"]
      [] f.body = "init"    -> [e EXCEPT !.phase = "awaitingOutcome"]
      [] f.body = "outcome" -> InitialEndpoint
      [] OTHER              -> e

\* No conjunct reads e.state: the dialogue's position is the only moment the
\* code asks for in this layer.  An admitted outcome that reports a failure
\* is itself a refusal, placed at END in both directions and written in
\* neither.
StepSaslFrame(e, out, f) ==
    IF ~SaslAdmits(e, out, f) THEN Refused(WithPlace(e, out), <<>>)
    ELSE IF f.body = "outcome" /\ f.code # "ok"
         THEN Refused([e EXCEPT !.state = "END"], <<>>)
         ELSE Taken(AfterSasl(e, out, f), IF out THEN <<f>> ELSE <<>>)

-----------------------------------------------------------------------------
(* The AMQP layer. *)

RoleOfBody(f) ==
    IF f.body \in {"open", "close"} THEN f.body
    ELSE IF f.body \in SaslBodies THEN "sasl" ELSE "other"

\* Mutant: a `*' cell admits every frame, a second open among them.
MutPermitsSend(state, role) ==
    \/ state \in OpenSenders /\ role = "open"
    \/ state \in ConformingSenders /\ role # "open"
    \/ state \in AnySenders

\* Mutant: a peer that has closed may still answer until it hears the close.
MutPermitsSendClosing(state, role) ==
    \/ state \in OpenSenders /\ role = "open"
    \/ state \in ConformingSenders \cup AnySenders \cup {"CLOSE_SENT"} /\ role # "open"

\* The columns, asked of a frame's role.  No cell admits a second open.
PermitsSend(state, role) ==
    \/ state \in OpenSenders /\ role = "open"
    \/ state \in ConformingSenders \cup AnySenders /\ role # "open"

PermitsReceive(state, role) ==
    \/ state \in OpenReceivers /\ role = "open"
    \/ state \in AnyReceivers /\ role # "open"

Permits(state, out, role) ==
    IF out THEN PermitsSend(state, role) ELSE PermitsReceive(state, role)

OpenSent(state) ==
    CASE state = "HDR_SENT"  -> "OPEN_PIPE"
      [] state = "HDR_EXCH"  -> "OPEN_SENT"
      [] state = "OPEN_RCVD" -> "OPENED"
      [] OTHER               -> state

\* Mutant: the arrow of the peer that opened first is missing.
MutOpenReceived(state) ==
    CASE state = "HDR_EXCH"   -> "OPEN_RCVD"
      [] state = "CLOSE_PIPE" -> "CLOSE_SENT"
      [] OTHER                -> state

\* HDR_RCVD admits an open and stays where it is.
OpenReceived(state) ==
    CASE state = "HDR_EXCH"   -> "OPEN_RCVD"
      [] state = "OPEN_SENT"  -> "OPENED"
      [] state = "CLOSE_PIPE" -> "CLOSE_SENT"
      [] OTHER                -> state

\* Mutant: the close that answers a close waits for one more.
MutCloseSent(state) ==
    CASE state = "OPEN_SENT" -> "CLOSE_PIPE"
      [] state = "OPEN_PIPE" -> "OC_PIPE"
      [] OTHER               -> "CLOSE_SENT"

CloseSent(state) ==
    CASE state = "OPEN_SENT"  -> "CLOSE_PIPE"
      [] state = "OPEN_PIPE"  -> "OC_PIPE"
      [] state = "CLOSE_RCVD" -> "END"
      [] OTHER                -> "CLOSE_SENT"

\* Mutant: only the error-triggered close ends with the partner's, so two
\* closes that cross leave both peers answering.
MutCloseReceived(state) == IF state = "DISCARDING" THEN "END" ELSE "CLOSE_RCVD"

CloseReceived(state) ==
    IF state \in {"CLOSE_SENT", "DISCARDING"} THEN "END" ELSE "CLOSE_RCVD"

\* Mutant: the two sides' limits are installed the wrong way round.
MutAfterFrame(e, out, f) ==
    CASE f.body = "open" /\ out ->
           [e EXCEPT !.state = OpenSent(@), !.remoteLimits = f.declares]
      [] f.body = "open" /\ ~out ->
           [e EXCEPT !.state = OpenReceived(@), !.localLimits = f.declares]
      [] f.body = "close" /\ out  -> [e EXCEPT !.state = CloseSent(@)]
      [] f.body = "close" /\ ~out -> [e EXCEPT !.state = CloseReceived(@)]
      [] OTHER -> e

\* Mutant: what the partner's open declares is not kept.
MutAfterFrameForgets(e, out, f) ==
    CASE f.body = "open" /\ out ->
           [e EXCEPT !.state = OpenSent(@), !.localLimits = f.declares]
      [] f.body = "open" /\ ~out  -> [e EXCEPT !.state = OpenReceived(@)]
      [] f.body = "close" /\ out  -> [e EXCEPT !.state = CloseSent(@)]
      [] f.body = "close" /\ ~out -> [e EXCEPT !.state = CloseReceived(@)]
      [] OTHER -> e

\* Only open and close move the endpoint; an open installs what it declares.
AfterFrame(e, out, f) ==
    CASE f.body = "open" /\ out ->
           [e EXCEPT !.state = OpenSent(@), !.localLimits = f.declares]
      [] f.body = "open" /\ ~out ->
           [e EXCEPT !.state = OpenReceived(@), !.remoteLimits = f.declares]
      [] f.body = "close" /\ out  -> [e EXCEPT !.state = CloseSent(@)]
      [] f.body = "close" /\ ~out -> [e EXCEPT !.state = CloseReceived(@)]
      [] OTHER -> e

\* Mutant: what a peer sends is measured by what it accepts itself.
MutLimitsFor(e, out) ==
    IF out /\ e.state \in ConformingSenders THEN APriori ELSE e.localLimits

LimitsFor(e, out) ==
    IF ~out THEN e.localLimits
    ELSE IF e.state \in ConformingSenders THEN APriori ELSE e.remoteLimits

Fits(f, limits) == /\ f.size <= limits.maxFrameSize
                   /\ f.channel <= limits.channelMax

AmqpAdmits(e, out, f) ==
    /\ f.body \notin SaslBodies
    /\ Permits(e.state, out, RoleOfBody(f))
    /\ f.body = "open" => f.channel = 0
    /\ f.body \in {"open", "close"} => f.complete
    /\ Fits(f, LimitsFor(e, out))

StepAmqpFrame(e, out, f) ==
    IF AmqpAdmits(e, out, f)
    THEN Taken(AfterFrame(e, out, f), IF out THEN <<f>> ELSE <<>>)
    ELSE Refused(WithPlace(e, out), <<>>)

\* A frame with no body is judged as a relayed frame, and nothing is written
\* for one that is sent.
BodylessFrame(e, out) ==
    IF e.layer = "amqp" /\ Permits(e.state, out, "other")
    THEN Taken(e, <<>>)
    ELSE Refused(WithPlace(e, out), <<>>)

-----------------------------------------------------------------------------
(* Dispatch. *)

\* Mutant: the performative, not the layer, decides which machine answers.
MutStepFrame(e, out, f) ==
    IF f.body = "none" THEN BodylessFrame(e, out)
    ELSE IF f.body \in SaslBodies THEN StepSaslFrame(e, out, f)
    ELSE StepAmqpFrame(e, out, f)

StepFrame(e, out, f) ==
    IF f.body = "none" THEN BodylessFrame(e, out)
    ELSE IF e.layer = "sasl" THEN StepSaslFrame(e, out, f)
    ELSE StepAmqpFrame(e, out, f)

\* The send route: the application's submission, decoded before the layer is
\* asked, so it is a header or a frame.
Sending(e, u) ==
    IF u.kind = "header" THEN StepHeader(e, TRUE, u.layer)
    ELSE StepFrame(e, TRUE, u)

\* The receive route: the state decides whether a header or a frame is due.
\* Whatever is not the header that is due fails the negotiation; whatever is
\* not a readable frame where one is due is refused.
Arriving(e, u) ==
    IF e.state \in HeaderReceivers
    THEN IF u.kind = "header" THEN StepHeader(e, FALSE, u.layer)
         ELSE HeaderFailure(e)
    ELSE IF u.kind = "frame" THEN StepFrame(e, FALSE, u)
         ELSE Refused(WithPlace(e, FALSE), <<>>)
=============================================================================
