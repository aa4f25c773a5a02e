--------------------------- MODULE Connection_proofs ---------------------------
(***************************************************************************)
(* Lemmas about the operators of Connection, cited by the proofs about the *)
(* machines built from it: a step is one of the few refusals, or the       *)
(* tables admit it and it is one of four moves; and either way the answer  *)
(* is an endpoint and a sequence of units.                                 *)
(***************************************************************************)
EXTENDS Connection, TLAPS

-----------------------------------------------------------------------------
(* What the operators of Connection return. *)

\* The ways a refusal leaves an endpoint: where it was, at END, or, in the
\* AMQP layer, in DISCARDING; only at END may a header have been written.
Refusals(e) ==
    {Refused(e, <<>>),
     Refused([e EXCEPT !.state = "END"], <<>>),
     Refused([e EXCEPT !.state = "END"], <<Header(e.layer)>>)}
    \cup (IF e.layer = "amqp"
          THEN {Refused([e EXCEPT !.state = "DISCARDING"], <<>>)} ELSE {})

\* A refusal that withPlace places is one of them.
LEMMA PlacedRefusal ==
    ASSUME NEW e \in Endpoints, NEW out \in BOOLEAN
    PROVE  Refused(WithPlace(e, out), <<>>) \in Refusals(e)
<1>1. CASE out
  BY <1>1 DEF WithPlace, Refusals
<1>2. CASE ~out /\ (e.state = "END" \/ e.layer = "sasl")
  BY <1>2 DEF WithPlace, Refusals
<1>3. CASE ~out /\ ~(e.state = "END" \/ e.layer = "sasl")
  <2>1. e.layer = "amqp"
    BY <1>3 DEF Endpoints, Layers
  <2> QED
    BY <1>3, <2>1 DEF WithPlace, Refusals
<1> QED
  BY <1>1, <1>2, <1>3

\* The endpoint a header step that is taken leaves.
AfterHeader(e, out, layer) ==
    AfterHeaderExchange([e EXCEPT !.state = IF out THEN HeaderSent(e.state)
                                                   ELSE HeaderReceived(e.state),
                                  !.layer = layer])

-----------------------------------------------------------------------------
(* Every answer of the send and the receive route, in one form. *)

\* What a unit that is taken writes: itself when it is sent, unless it is a
\* keepalive, and nothing when it arrives.
UnitWrote(out, u) == IF out THEN <<u>> ELSE <<>>

\* The step is taken: the state's column and the layer admit the header, the
\* dialogue its frame, the table and the limits an AMQP frame or a keepalive.
TakenAs(e, out, u, r) ==
    \/ /\ u \in Headers
       /\ e.state \in (IF out THEN HeaderSenders ELSE HeaderReceivers)
       /\ LayerAgrees(e, u.layer)
       /\ r = Taken(AfterHeader(e, out, u.layer), UnitWrote(out, u))
    \/ /\ u \in SaslFrames
       /\ e.layer = "sasl"
       /\ SaslAdmits(e, out, u)
       /\ r = Taken(AfterSasl(e, out, u), UnitWrote(out, u))
    \/ /\ u \in OpenFrames \cup PlainFrames
       /\ e.layer = "amqp"
       /\ AmqpAdmits(e, out, u)
       /\ r = Taken(AfterFrame(e, out, u), UnitWrote(out, u))
    \/ /\ u = EmptyFrame
       /\ e.layer = "amqp"
       /\ Permits(e.state, out, "other")
       /\ r = Taken(e, <<>>)

\* A refused send leaves the endpoint where it was, or, when it is the outcome
\* that reports a failure, at END; it writes nothing.
SendRefusals(e, u) ==
    {Refused(e, <<>>)}
    \cup (IF e.layer = "sasl" /\ u \in SaslFrames
          THEN {Refused([e EXCEPT !.state = "END"], <<>>)} ELSE {})

\* What an answer wrote.
LEMMA WroteField ==
    \A e, w : Taken(e, w).wrote = w /\ Refused(e, w).wrote = w
  BY DEF Taken, Refused

\* A unit is a header, a frame of one of the two layers, or a keepalive.
LEMMA UnitCases ==
    ASSUME NEW u \in Units \cup {Garbage}
    PROVE  \/ u \in Headers /\ u.kind = "header" /\ u.layer \in Layers /\ u = Header(u.layer)
           \/ u \in SaslFrames /\ u.kind = "frame" /\ u.body \in SaslBodies
           \/ /\ u \in OpenFrames \cup PlainFrames /\ u.kind = "frame"
              /\ u.body \notin SaslBodies /\ u.body # "none"
           \/ u = EmptyFrame /\ u.kind = "frame" /\ u.body = "none"
           \/ u = Garbage /\ u.kind = "garbage"
<1>1. CASE u \in Headers
  BY <1>1 DEF Headers, Header
<1>2. CASE u \in SaslFrames
  BY <1>2 DEF SaslFrames
<1>3. CASE u \in OpenFrames \cup PlainFrames
  BY <1>3 DEF OpenFrames, PlainFrames, SaslBodies
<1>4. CASE u = EmptyFrame
  BY <1>4 DEF EmptyFrame
<1>5. CASE u = Garbage
  BY <1>5 DEF Garbage
<1> QED
  BY <1>1, <1>2, <1>3, <1>4, <1>5 DEF Units, Frames

\* The answer to a frame, in either direction.
LEMMA FrameShape ==
    ASSUME NEW e \in Endpoints, NEW out \in BOOLEAN, NEW f \in Frames
    PROVE  \/ StepFrame(e, out, f) \in (IF out THEN SendRefusals(e, f) ELSE Refusals(e))
           \/ TakenAs(e, out, f, StepFrame(e, out, f))
<1> DEFINE r == StepFrame(e, out, f)
<1>1. f \in Units \cup {Garbage} /\ f.kind = "frame"
  BY DEF Units, Frames, OpenFrames, PlainFrames, SaslFrames, EmptyFrame
<1>2. e.layer = "sasl" \/ e.layer = "amqp"
  BY DEF Endpoints, Layers
<1>3. WithPlace(e, TRUE) = e
  BY DEF WithPlace
<1>4. CASE f = EmptyFrame
  <2>1. f.body = "none" /\ r = BodylessFrame(e, out)
    BY <1>4 DEF EmptyFrame, StepFrame
  <2>2. \/ r = Taken(e, <<>>) /\ e.layer = "amqp" /\ Permits(e.state, out, "other")
        \/ r = Refused(WithPlace(e, out), <<>>)
    BY <2>1 DEF BodylessFrame
  <2> QED
    BY <1>3, <1>4, <2>2, PlacedRefusal DEF TakenAs, SendRefusals
<1>5. CASE f \in SaslFrames \/ (e.layer = "sasl" /\ f # EmptyFrame)
  <2>1. f.body # "none"
    BY <1>1, <1>5, UnitCases DEF SaslFrames, SaslBodies
  <2>2. CASE e.layer = "sasl"
    <3>1. r = StepSaslFrame(e, out, f)
      BY <2>1, <2>2 DEF StepFrame
    <3>2. CASE ~SaslAdmits(e, out, f)
      BY <1>3, <3>1, <3>2, PlacedRefusal DEF StepSaslFrame, SendRefusals
    <3>3. CASE SaslAdmits(e, out, f)
      <4>1. f \in SaslFrames
        BY <1>1, <2>1, <3>3, UnitCases DEF SaslAdmits, Headers, Garbage
      <4>2. \/ r = Refused([e EXCEPT !.state = "END"], <<>>)
            \/ r = Taken(AfterSasl(e, out, f), UnitWrote(out, f))
        BY <3>1, <3>3 DEF StepSaslFrame, UnitWrote
      <4> QED
        BY <2>2, <3>3, <4>1, <4>2 DEF TakenAs, SendRefusals, Refusals
    <3> QED
      BY <3>2, <3>3
  <2>3. CASE e.layer = "amqp"
    <3>1. f.body \in SaslBodies
      BY <1>5, <2>3 DEF SaslFrames
    <3>2. r = Refused(WithPlace(e, out), <<>>)
      BY <2>1, <2>3, <3>1 DEF StepFrame, StepAmqpFrame, AmqpAdmits
    <3> QED
      BY <1>3, <3>2, PlacedRefusal DEF SendRefusals
  <2> QED
    BY <1>2, <2>2, <2>3
<1>6. CASE f \in OpenFrames \cup PlainFrames /\ e.layer = "amqp"
  <2>1. f.body # "none"
    BY <1>6 DEF OpenFrames, PlainFrames
  <2>2. r = StepAmqpFrame(e, out, f)
    BY <1>6, <2>1 DEF StepFrame
  <2>3. CASE AmqpAdmits(e, out, f)
    BY <1>6, <2>2, <2>3 DEF StepAmqpFrame, TakenAs, UnitWrote
  <2>4. CASE ~AmqpAdmits(e, out, f)
    BY <1>3, <2>2, <2>4, PlacedRefusal DEF StepAmqpFrame, SendRefusals
  <2> QED
    BY <2>3, <2>4
<1> QED
  BY <1>2, <1>4, <1>5, <1>6 DEF Frames

\* The answer to a submission.
LEMMA SendingShape ==
    ASSUME NEW e \in Endpoints, NEW u \in Units
    PROVE  \/ Sending(e, u) \in SendRefusals(e, u)
           \/ TakenAs(e, TRUE, u, Sending(e, u))
<1>1. CASE u.kind = "header"
  <2>1. u \in Headers /\ u.layer \in Layers /\ u = Header(u.layer)
    BY <1>1, UnitCases
  <2>2. Sending(e, u) = StepHeader(e, TRUE, u.layer)
    BY <1>1 DEF Sending
  <2>3. \/ Sending(e, u) = Refused(e, <<>>)
        \/ /\ e.state \in HeaderSenders /\ LayerAgrees(e, u.layer)
           /\ Sending(e, u) = Taken(AfterHeader(e, TRUE, u.layer), <<Header(u.layer)>>)
    BY <2>2 DEF StepHeader, AfterHeader
  <2> QED
    BY <2>1, <2>3 DEF SendRefusals, TakenAs, UnitWrote
<1>2. CASE u.kind # "header"
  <2>1. u \in Frames
    BY <1>2 DEF Units, Headers
  <2>2. Sending(e, u) = StepFrame(e, TRUE, u)
    BY <1>2 DEF Sending
  <2> QED
    BY <2>1, <2>2, FrameShape
<1> QED
  BY <1>1, <1>2

\* The answer to an arrival.  Only where a header is due, and something else
\* arrives, does a refusal write.
LEMMA ArrivingShape ==
    ASSUME NEW e \in Endpoints, NEW u \in Units \cup {Garbage}
    PROVE  /\ \/ Arriving(e, u) \in Refusals(e)
              \/ TakenAs(e, FALSE, u, Arriving(e, u))
           /\ \/ Arriving(e, u).wrote = <<>>
              \/ /\ e.state \in HeaderReceivers /\ u \notin Headers
                 /\ Arriving(e, u) = HeaderFailure(e)
<1> DEFINE r == Arriving(e, u)
<1>1. CASE e.state \in HeaderReceivers /\ u.kind = "header"
  <2>1. u \in Headers /\ u.layer \in Layers
    BY <1>1, UnitCases
  <2>2. r = StepHeader(e, FALSE, u.layer)
    BY <1>1 DEF Arriving
  <2>3. \/ r = Refused([e EXCEPT !.state = "END"], <<>>)
        \/ LayerAgrees(e, u.layer) /\ r = Taken(AfterHeader(e, FALSE, u.layer), <<>>)
    BY <1>1, <2>2 DEF StepHeader, AfterHeader
  <2>4. r.wrote = <<>>
    BY <2>3, WroteField
  <2> QED
    BY <1>1, <2>1, <2>3, <2>4 DEF TakenAs, UnitWrote, Refusals
<1>2. CASE e.state \in HeaderReceivers /\ u.kind # "header"
  BY <1>2 DEF Arriving, HeaderFailure, Refusals, Headers
<1>3. CASE e.state \notin HeaderReceivers /\ u.kind = "frame"
  <2>1. u \in Frames
    BY <1>3, UnitCases DEF Frames
  <2>2. r = StepFrame(e, FALSE, u)
    BY <1>3 DEF Arriving
  <2>3. r \in Refusals(e) \/ TakenAs(e, FALSE, u, r)
    BY <2>1, <2>2, FrameShape
  <2>4. r.wrote = <<>>
    <3>1. \E c : r = Refused(c, <<>>) \/ r = Taken(c, <<>>)
      BY <2>2, Zenon DEF StepFrame, BodylessFrame, StepSaslFrame, StepAmqpFrame
    <3> QED
      BY <3>1, WroteField
  <2> QED
    BY <2>3, <2>4
<1>4. CASE e.state \notin HeaderReceivers /\ u.kind # "frame"
  <2>1. r = Refused(WithPlace(e, FALSE), <<>>)
    BY <1>4 DEF Arriving
  <2> QED
    BY <2>1, PlacedRefusal, WroteField
<1> QED
  BY <1>1, <1>2, <1>3, <1>4

-----------------------------------------------------------------------------
(* Where each move leads, field by field. *)

\* A header sets the layer, moves the state out of START, and begins the
\* dialogue of a SASL layer once both headers have crossed.
LEMMA HeaderMove ==
    ASSUME NEW e \in Endpoints, NEW out \in BOOLEAN, NEW layer \in Layers
    PROVE  LET c == AfterHeader(e, out, layer)
           IN  /\ c \in Endpoints
               /\ c.state = IF out THEN HeaderSent(e.state) ELSE HeaderReceived(e.state)
               /\ c.state # "START"
               /\ c.layer = layer
               /\ c.phase = IF layer = "sasl" /\ c.state = "HDR_EXCH" /\ e.phase = "absent"
                            THEN "awaitingMechanisms" ELSE e.phase
               /\ c.role = e.role /\ c.mechanisms = e.mechanisms
               /\ c.localLimits = e.localLimits /\ c.remoteLimits = e.remoteLimits
<1> DEFINE s == IF out THEN HeaderSent(e.state) ELSE HeaderReceived(e.state)
           p == IF layer = "sasl" /\ s = "HDR_EXCH" /\ e.phase = "absent"
                THEN "awaitingMechanisms" ELSE e.phase
<1>1. s \in States \ {"START"}
  BY DEF States, HeaderSent, HeaderReceived, Endpoints
<1>2. p \in Phases
  BY DEF Endpoints, Phases
<1>3. AfterHeader(e, out, layer) = [e EXCEPT !.state = s, !.layer = layer, !.phase = p]
  BY DEF AfterHeader, AfterHeaderExchange, Endpoints
<1> HIDE DEF s, p
<1>4. /\ [e EXCEPT !.state = s, !.layer = layer, !.phase = p] \in Endpoints
      /\ [e EXCEPT !.state = s, !.layer = layer, !.phase = p].state = s
      /\ [e EXCEPT !.state = s, !.layer = layer, !.phase = p].phase = p
  BY <1>1, <1>2 DEF Endpoints
<1> USE DEF s, p
<1> QED
  BY <1>1, <1>3, <1>4 DEF Endpoints

\* An admitted frame of the dialogue moves the dialogue on; the outcome undoes
\* it, and the peer is where it was before the headers.
LEMMA SaslMove ==
    ASSUME NEW e \in Endpoints, NEW out \in BOOLEAN, NEW f \in SaslFrames,
           SaslAdmits(e, out, f)
    PROVE  LET c == AfterSasl(e, out, f)
           IN  /\ c \in Endpoints
               /\ f.body = "outcome" => c = InitialEndpoint /\ e.phase = "awaitingOutcome"
               /\ f.body # "outcome" =>
                      /\ c.state = e.state /\ c.layer = e.layer
                      /\ c.localLimits = e.localLimits /\ c.remoteLimits = e.remoteLimits
               /\ f.body = "mechanisms" =>
                      /\ e.phase = "awaitingMechanisms"
                      /\ c.phase = "mechanismsKnown"
                      /\ c.mechanisms = f.names /\ f.names # {}
                      /\ c.role = IF out THEN "server" ELSE "client"
               /\ f.body = "init" =>
                      /\ e.phase = "mechanismsKnown"
                      /\ e.role # (IF out THEN "server" ELSE "client")
                      /\ c.phase = "awaitingOutcome"
                      /\ c.mechanisms = e.mechanisms /\ c.role = e.role
               /\ f.body \in {"challenge", "response"} =>
                      c = e /\ e.phase = "awaitingOutcome"
<1>1. CASE f.body = "outcome"
  <2>1. InitialEndpoint \in Endpoints
    BY ConnectionAssumption
    DEF InitialEndpoint, Endpoints, States, Layers, Phases, Roles, Limits, APriori
  <2> QED
    BY <1>1, <2>1 DEF AfterSasl, SaslAdmits
<1>2. CASE f.body = "mechanisms"
  <2>1. f.names \in SUBSET Mechanisms
    BY DEF SaslFrames
  <2> QED
    BY <1>2, <2>1 DEF AfterSasl, SaslAdmits, Endpoints, Phases, Roles
<1>3. CASE f.body \notin {"outcome", "mechanisms"}
  BY <1>3 DEF AfterSasl, SaslAdmits, Endpoints, Phases
<1> QED
  BY <1>1, <1>2, <1>3

\* An AMQP frame moves the state as its column says, and an open installs the
\* limits of its direction; nothing else of the endpoint changes, and no frame
\* leads to START.
LEMMA AmqpMove ==
    ASSUME NEW e \in Endpoints, NEW out \in BOOLEAN,
           NEW f \in OpenFrames \cup PlainFrames
    PROVE  LET c == AfterFrame(e, out, f)
           IN  /\ c \in Endpoints
               /\ c.layer = e.layer /\ c.phase = e.phase /\ c.role = e.role
               /\ c.mechanisms = e.mechanisms
               /\ RoleOfBody(f) = f.body /\ f.body \in {"open", "close", "other"}
               /\ c.state = IF f.body = "open"
                            THEN IF out THEN OpenSent(e.state) ELSE OpenReceived(e.state)
                            ELSE IF f.body = "close"
                                 THEN IF out THEN CloseSent(e.state)
                                      ELSE CloseReceived(e.state)
                                 ELSE e.state
               /\ c.localLimits  = IF out /\ f.body = "open" THEN f.declares
                                   ELSE e.localLimits
               /\ c.remoteLimits = IF ~out /\ f.body = "open" THEN f.declares
                                   ELSE e.remoteLimits
               /\ AmqpAdmits(e, out, f) => c.state # "START"
<1>1. RoleOfBody(f) = f.body /\ f.body \in {"open", "close", "other"}
  BY DEF RoleOfBody, OpenFrames, PlainFrames, SaslBodies
<1>2. /\ OpenSent(e.state) \in States /\ OpenReceived(e.state) \in States
      /\ CloseSent(e.state) \in States /\ CloseReceived(e.state) \in States
  BY DEF OpenSent, OpenReceived, CloseSent, CloseReceived, States, Endpoints
<1>3. AmqpAdmits(e, out, f) => Permits(e.state, out, f.body)
  BY <1>1 DEF AmqpAdmits
<1>4. CASE f.body = "open"
  <2>1. f.declares \in Limits
    BY <1>4 DEF OpenFrames, PlainFrames
  <2>2. Permits(e.state, out, "open") =>
            (IF out THEN OpenSent(e.state) ELSE OpenReceived(e.state)) # "START"
    BY DEF Permits, PermitsSend, PermitsReceive, OpenSenders, ConformingSenders,
           AnySenders, OpenReceivers, AnyReceivers, OpenSent, OpenReceived
  <2> QED
    BY <1>1, <1>2, <1>3, <1>4, <2>1, <2>2 DEF AfterFrame, Endpoints
<1>5. CASE f.body = "close"
  <2>1. CloseSent(e.state) # "START" /\ CloseReceived(e.state) # "START"
    BY DEF CloseSent, CloseReceived
  <2> QED
    BY <1>1, <1>2, <1>5, <2>1 DEF AfterFrame, Endpoints
<1>6. CASE f.body = "other"
  <2>1. ~Permits("START", out, "other")
    BY DEF Permits, PermitsSend, PermitsReceive, OpenSenders, ConformingSenders,
           AnySenders, OpenReceivers, AnyReceivers
  <2> QED
    BY <1>1, <1>3, <1>6, <2>1 DEF AfterFrame
<1> QED
  BY <1>1, <1>4, <1>5, <1>6

\* A refusal changes the state, if anything, and leaves it in one of two.
LEMMA RefusalMove ==
    ASSUME NEW e \in Endpoints, NEW r \in Refusals(e)
    PROVE  /\ r.ok = FALSE
           /\ r.conn \in Endpoints
           /\ r.conn = e \/ r.conn.state \in {"END", "DISCARDING"}
           /\ r.conn.state = "DISCARDING" => e.layer = "amqp" \/ r.conn = e
           /\ r.conn.layer = e.layer /\ r.conn.phase = e.phase
           /\ r.conn.role = e.role /\ r.conn.mechanisms = e.mechanisms
           /\ r.conn.localLimits = e.localLimits
           /\ r.conn.remoteLimits = e.remoteLimits
           /\ r.wrote = <<>> \/ r.wrote = <<Header(e.layer)>>
<1>1. PICK s \in {e.state, "END", "DISCARDING"} :
          /\ r.conn = [e EXCEPT !.state = s]
          /\ s = "DISCARDING" => e.layer = "amqp" \/ e.state = s
          /\ r.ok = FALSE
          /\ r.wrote = <<>> \/ r.wrote = <<Header(e.layer)>>
  <2>1. e = [e EXCEPT !.state = e.state]
    BY DEF Endpoints
  <2> QED
    BY <2>1 DEF Refusals, Refused
<1>2. s \in States
  BY <1>1 DEF Endpoints, States
<1> QED
  BY <1>1, <1>2 DEF Endpoints

\* Every answer is an endpoint and a sequence of units.
LEMMA AnswerTyped ==
    ASSUME NEW e \in Endpoints, NEW out \in BOOLEAN, NEW u \in Units \cup {Garbage}, NEW r,
           r \in Refusals(e) \/ TakenAs(e, out, u, r)
    PROVE  /\ r.conn \in Endpoints
           /\ r.ok \in BOOLEAN
           /\ r.wrote \in Seq(Units)
<1>1. CASE r \in Refusals(e)
  <2>1. Header(e.layer) \in Units
    BY DEF Header, Units, Headers, Endpoints
  <2>2. <<>> \in Seq(Units) /\ <<Header(e.layer)>> \in Seq(Units)
    BY <2>1
  <2> QED
    BY <1>1, <2>2, RefusalMove
<1>2. CASE TakenAs(e, out, u, r)
  <2>1. PICK c, w : r = Taken(c, w) /\ c \in Endpoints /\ w \in {<<>>, UnitWrote(out, u)}
    <3>1. CASE u \in Headers
      <4>1. u.layer \in Layers
        BY <3>1 DEF Headers
      <4>2. r = Taken(AfterHeader(e, out, u.layer), UnitWrote(out, u)) \/ r = Taken(e, <<>>)
        BY <1>2, <3>1, UnitCases DEF TakenAs, Headers, SaslFrames, OpenFrames, PlainFrames
      <4> QED
        BY <4>1, <4>2, HeaderMove
    <3>2. CASE u \notin Headers
      BY <1>2, <3>2, SaslMove, AmqpMove DEF TakenAs
    <3> QED
      BY <3>1, <3>2
  <2>2. r.conn = c /\ r.ok = TRUE /\ r.wrote = w
    BY <2>1 DEF Taken
  <2>3. u # Garbage
    BY <1>2 DEF TakenAs, Headers, SaslFrames, OpenFrames, PlainFrames, EmptyFrame, Garbage
  <2>4. UnitWrote(out, u) \in Seq(Units) /\ <<>> \in Seq(Units)
    <3>1. u \in Units
      BY <2>3
    <3>2. <<u>> \in Seq(Units) /\ <<>> \in Seq(Units)
      BY <3>1
    <3> QED
      BY <3>2 DEF UnitWrote
  <2>5. w \in Seq(Units)
    <3>1. CASE w = <<>>
      BY <2>4, <3>1
    <3>2. CASE w = UnitWrote(out, u)
      BY <2>4, <3>2
    <3> QED
      BY <2>1, <3>1, <3>2
  <2> QED
    BY <2>1, <2>2, <2>5
<1> QED
  BY <1>1, <1>2

-----------------------------------------------------------------------------
(* The two routes, one disjunct per kind of answer. *)

\* The role the columns are asked about is the performative.
LEMMA FrameRole ==
    ASSUME NEW f \in OpenFrames \cup PlainFrames
    PROVE  /\ f.kind = "frame"
           /\ RoleOfBody(f) = f.body
           /\ f.body \in {"open", "close", "other"}
           /\ f.body = "open" => f \in OpenFrames /\ f.declares \in Limits
  BY DEF RoleOfBody, OpenFrames, PlainFrames, SaslBodies

\* An AMQP frame was taken, in the direction out.
FrameTaken(e, out, u, r) ==
    /\ u \in OpenFrames \cup PlainFrames
    /\ e.layer = "amqp"
    /\ AmqpAdmits(e, out, u)
    /\ Permits(e.state, out, u.body)
    /\ r.conn = AfterFrame(e, out, u) /\ r.ok

\* A frame of the dialogue was taken.
SaslTaken(e, out, u, r) ==
    /\ u \in SaslFrames
    /\ e.layer = "sasl"
    /\ SaslAdmits(e, out, u)
    /\ r.conn = AfterSasl(e, out, u) /\ r.ok

\* A header was taken.
HeaderTaken(e, out, u, r) ==
    /\ u \in Headers /\ u.layer \in Layers
    /\ LayerAgrees(e, u.layer)
    /\ e.state \in (IF out THEN HeaderSenders ELSE HeaderReceivers)
    /\ r.conn = AfterHeader(e, out, u.layer) /\ r.ok

\* What a step that is taken did.
LEMMA TakenMoves ==
    ASSUME NEW e \in Endpoints, NEW out \in BOOLEAN, NEW u \in Units, NEW r,
           TakenAs(e, out, u, r)
    PROVE  \/ /\ \/ HeaderTaken(e, out, u, r)
                 \/ SaslTaken(e, out, u, r)
                 \/ FrameTaken(e, out, u, r)
              /\ r.wrote = UnitWrote(out, u)
           \/ /\ u = EmptyFrame
              /\ Permits(e.state, out, "other") /\ e.layer = "amqp"
              /\ r.conn = e /\ r.ok /\ r.wrote = <<>>
<1>1. CASE /\ u \in Headers
           /\ e.state \in (IF out THEN HeaderSenders ELSE HeaderReceivers)
           /\ LayerAgrees(e, u.layer)
           /\ r = Taken(AfterHeader(e, out, u.layer), UnitWrote(out, u))
  <2>1. u.layer \in Layers
    BY <1>1 DEF Headers
  <2> QED
    BY <1>1, <2>1 DEF Taken, HeaderTaken
<1>2. CASE /\ u \in SaslFrames
           /\ e.layer = "sasl"
           /\ SaslAdmits(e, out, u)
           /\ r = Taken(AfterSasl(e, out, u), UnitWrote(out, u))
  BY <1>2 DEF Taken, SaslTaken
<1>3. CASE /\ u \in OpenFrames \cup PlainFrames
           /\ e.layer = "amqp"
           /\ AmqpAdmits(e, out, u)
           /\ r = Taken(AfterFrame(e, out, u), UnitWrote(out, u))
  <2>1. Permits(e.state, out, u.body)
    BY <1>3, FrameRole DEF AmqpAdmits
  <2> QED
    BY <1>3, <2>1 DEF Taken, FrameTaken
<1>4. CASE /\ u = EmptyFrame
           /\ e.layer = "amqp"
           /\ Permits(e.state, out, "other")
           /\ r = Taken(e, <<>>)
  BY <1>4 DEF Taken
<1> QED
  BY <1>1, <1>2, <1>3, <1>4, Zenon DEF TakenAs

\* The send route.
LEMMA SendingMoves ==
    ASSUME NEW e \in Endpoints, NEW u \in Units
    PROVE  LET r == Sending(e, u)
           IN  \/ r.conn = e /\ r.wrote = <<>>
               \/ /\ e.layer = "sasl" /\ u \in SaslFrames
                  /\ r.conn = [e EXCEPT !.state = "END"] /\ r.wrote = <<>>
               \/ HeaderTaken(e, TRUE, u, r) /\ r.wrote = <<u>>
               \/ SaslTaken(e, TRUE, u, r) /\ r.wrote = <<u>>
               \/ FrameTaken(e, TRUE, u, r) /\ r.wrote = <<u>>
<1> DEFINE r == Sending(e, u)
<1>1. CASE r \in SendRefusals(e, u)
  <2>1. \/ r = Refused(e, <<>>)
        \/ e.layer = "sasl" /\ u \in SaslFrames /\ r = Refused([e EXCEPT !.state = "END"], <<>>)
    BY <1>1 DEF SendRefusals
  <2> DEFINE ended == [e EXCEPT !.state = "END"]
  <2>2. \/ r.conn = e /\ r.wrote = <<>>
        \/ /\ e.layer = "sasl" /\ u \in SaslFrames
           /\ r.conn = ended /\ r.wrote = <<>>
    <3> HIDE DEF r, ended
    <3> QED
      BY <2>1 DEF Refused, ended
  <2> QED
    BY <2>2
<1>2. CASE TakenAs(e, TRUE, u, r)
  <2>1. UnitWrote(TRUE, u) = <<u>>
    BY DEF UnitWrote
  <2>2. \/ /\ HeaderTaken(e, TRUE, u, r) \/ SaslTaken(e, TRUE, u, r) \/ FrameTaken(e, TRUE, u, r)
           /\ r.wrote = UnitWrote(TRUE, u)
        \/ r.conn = e /\ r.wrote = <<>>
    BY <1>2, TakenMoves, Zenon
  <2> QED
    BY <2>1, <2>2
<1>3. r \in SendRefusals(e, u) \/ TakenAs(e, TRUE, u, r)
  BY SendingShape
<1> QED
  BY <1>1, <1>2, <1>3

\* The receive route.
LEMMA ArrivingMoves ==
    ASSUME NEW e \in Endpoints, NEW u \in Units
    PROVE  LET r == Arriving(e, u)
           IN  \/ r \in Refusals(e) /\ r.wrote = <<>>
               \/ /\ e.state \in HeaderReceivers /\ u \notin Headers
                  /\ r = HeaderFailure(e)
               \/ HeaderTaken(e, FALSE, u, r) /\ r.wrote = <<>>
               \/ SaslTaken(e, FALSE, u, r) /\ r.wrote = <<>>
               \/ FrameTaken(e, FALSE, u, r) /\ r.wrote = <<>>
               \/ /\ u = EmptyFrame /\ Permits(e.state, FALSE, "other")
                  /\ r.conn = e /\ r.wrote = <<>>
<1> DEFINE r == Arriving(e, u)
<1>1. /\ r \in Refusals(e) \/ TakenAs(e, FALSE, u, r)
      /\ \/ r.wrote = <<>>
         \/ e.state \in HeaderReceivers /\ u \notin Headers /\ r = HeaderFailure(e)
  BY ArrivingShape
<1>2. CASE TakenAs(e, FALSE, u, r)
  <2>1. UnitWrote(FALSE, u) = <<>>
    BY DEF UnitWrote
  <2>2. \/ /\ HeaderTaken(e, FALSE, u, r) \/ SaslTaken(e, FALSE, u, r) \/ FrameTaken(e, FALSE, u, r)
           /\ r.wrote = UnitWrote(FALSE, u)
        \/ /\ u = EmptyFrame
           /\ Permits(e.state, FALSE, "other") /\ e.layer = "amqp"
           /\ r.conn = e /\ r.ok /\ r.wrote = <<>>
    BY <1>2, TakenMoves, Zenon
  <2> QED
    BY <2>1, <2>2
<1> QED
  BY <1>1, <1>2

-----------------------------------------------------------------------------
(* Where a step that is taken leads, field by field, in each direction. *)

HeaderLed(e, out, u, c) ==
    /\ c \in Endpoints
    /\ c.state = IF out THEN HeaderSent(e.state) ELSE HeaderReceived(e.state)
    /\ c.layer = u.layer
    /\ c.phase = IF u.layer = "sasl" /\ c.state = "HDR_EXCH" /\ e.phase = "absent"
                 THEN "awaitingMechanisms" ELSE e.phase
    /\ c.role = e.role /\ c.mechanisms = e.mechanisms
    /\ c.localLimits = e.localLimits /\ c.remoteLimits = e.remoteLimits

FrameLed(e, out, u, c) ==
    /\ c \in Endpoints
    /\ c.layer = e.layer /\ c.phase = e.phase /\ c.role = e.role
    /\ c.mechanisms = e.mechanisms
    /\ c.state = IF u.body = "open"
                 THEN IF out THEN OpenSent(e.state) ELSE OpenReceived(e.state)
                 ELSE IF u.body = "close"
                      THEN IF out THEN CloseSent(e.state) ELSE CloseReceived(e.state)
                      ELSE e.state
    /\ c.localLimits  = IF out /\ u.body = "open" THEN u.declares ELSE e.localLimits
    /\ c.remoteLimits = IF ~out /\ u.body = "open" THEN u.declares ELSE e.remoteLimits

\* A header that is taken leads where HeaderLed says.
LEMMA HeaderLeads ==
    \A e \in Endpoints, out \in BOOLEAN : \A u, r :
        HeaderTaken(e, out, u, r) => HeaderLed(e, out, u, r.conn)
<1> SUFFICES ASSUME NEW e \in Endpoints, NEW out \in BOOLEAN, NEW u, NEW r,
                    HeaderTaken(e, out, u, r)
             PROVE  HeaderLed(e, out, u, r.conn)
  OBVIOUS
<1>1. u.layer \in Layers /\ r.conn = AfterHeader(e, out, u.layer)
  BY DEF HeaderTaken
<1> QED
  BY <1>1, HeaderMove DEF HeaderLed

\* An AMQP frame that is taken leads where FrameLed says.
LEMMA FrameLeads ==
    \A e \in Endpoints, out \in BOOLEAN : \A u, r :
        FrameTaken(e, out, u, r) => FrameLed(e, out, u, r.conn)
<1> SUFFICES ASSUME NEW e \in Endpoints, NEW out \in BOOLEAN, NEW u, NEW r,
                    FrameTaken(e, out, u, r)
             PROVE  FrameLed(e, out, u, r.conn)
  OBVIOUS
<1>1. u \in OpenFrames \cup PlainFrames /\ r.conn = AfterFrame(e, out, u)
  BY DEF FrameTaken
<1> QED
  BY <1>1, AmqpMove DEF FrameLed
=============================================================================
