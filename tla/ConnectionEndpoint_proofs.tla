---------------------- MODULE ConnectionEndpoint_proofs ----------------------
(***************************************************************************)
(* Proofs about ConnectionEndpoint: its invariants and action properties   *)
(* hold for every MIN-MAX-FRAME-SIZE, every set of mechanisms, and every   *)
(* set of units the application and the partner may use.                   *)
(*                                                                         *)
(* The argument is one inductive invariant, IInv.  The steps fall into the *)
(* refusals, which one lemma handles for all of them, and the steps taken, *)
(* one lemma for each way the endpoint moves.                              *)
(***************************************************************************)
EXTENDS ConnectionEndpoint, Connection_proofs

\* The inductive invariant.  StateTellsHistory is not inductive alone: that no
\* open or close was said in a SASL layer (DialogueTold), and which states a
\* SASL layer may be in (DialogueInv), keep the SASL step, which never reads
\* the state, from disturbing it.
IInv == /\ TypeOK
        /\ DialogueInv
        /\ StateTellsHistory
        /\ LimitsFromOpens
        /\ DialogueTold

-----------------------------------------------------------------------------
(* What a step does to the history. *)

\* The kinds of no unit, and of one.
LEMMA KindsWritten ==
    /\ KindsOf(<<>>) = {}
    /\ \A u : KindsOf(<<u>>) = {KindOf(u)}
<1>1. DOMAIN <<>> = {}
  OBVIOUS
<1>2. ASSUME NEW u PROVE DOMAIN <<u>> = {1} /\ <<u>>[1] = u
  OBVIOUS
<1>3. ASSUME NEW u PROVE KindsOf(<<u>>) = {KindOf(u)}
  BY <1>2 DEF KindsOf
<1> QED
  BY <1>1, <1>3 DEF KindsOf

-----------------------------------------------------------------------------
(* A refusal, in either direction, keeps the invariant. *)

\* Any of the refusals, to a send or to an arrival, keeps the invariant.
LEMMA RefusalKeeps ==
    ASSUME IInv, NEW out \in BOOLEAN, NEW r \in Refusals(conn), AnswerOf(r, out, {})
    PROVE  IInv'
<1> USE DEF IInv
<1>1. CASE r = Refused(conn, <<>>)
  <2>1. r.conn = conn /\ r.ok = FALSE /\ r.wrote = <<>>
    BY <1>1 DEF Refused
  <2>2. /\ conn' = conn /\ answer' = [out |-> out, ok |-> FALSE, wrote |-> <<>>]
        /\ said' = IF conn.state = "START" THEN {} ELSE said
        /\ heard' = IF conn.state = "START" THEN {} ELSE heard
    BY <2>1, KindsWritten DEF AnswerOf
  <2>3. conn.state = "START" => said = {} /\ heard = {}
    BY DEF StateTellsHistory
  <2>4. TypeOK'
    BY <2>2 DEF TypeOK
  <2>5. said' = said /\ heard' = heard
    BY <2>2, <2>3
  <2> QED
    BY <2>2, <2>4, <2>5 DEF DialogueInv, StateTellsHistory, LimitsFromOpens, DialogueTold
<1>2. CASE r # Refused(conn, <<>>)
  <2>1. PICK s \in {"END", "DISCARDING"} :
          /\ r.conn = [conn EXCEPT !.state = s]
          /\ conn.layer = "amqp" \/ s = "END"
          /\ r.ok = FALSE
          /\ r.wrote = <<>> \/ r.wrote = <<Header(conn.layer)>>
    BY <1>2 DEF Refusals, Refused
  <2>2. r.conn \in Endpoints /\ r.conn.state = s
    BY <2>1 DEF TypeOK, Endpoints, States
  <2>3. KindsOf(r.wrote) \subseteq {"header"} /\ r.wrote \in Seq(Units)
    <3>1. CASE r.wrote = <<>>
      BY <3>1, KindsWritten
    <3>2. CASE r.wrote = <<Header(conn.layer)>>
      <4>1. Header(conn.layer) \in Units /\ KindOf(Header(conn.layer)) = "header"
        BY DEF TypeOK, Endpoints, Header, Units, Headers, KindOf
      <4>2. KindsOf(r.wrote) = {"header"}
        BY <3>2, <4>1, KindsWritten
      <4> QED
        BY <3>2, <4>1, <4>2
    <3> QED
      BY <2>1, <3>1, <3>2
  <2>4. /\ conn' = [conn EXCEPT !.state = s]
        /\ answer'.out = out /\ answer'.ok = FALSE
        /\ answer'.wrote = r.wrote
        /\ said' = said \cup KindsOf(r.wrote)
        /\ heard' = heard
    BY <2>1, <2>2 DEF AnswerOf
  <2>5. TypeOK'
    BY <2>2, <2>3, <2>4, <2>1 DEF TypeOK, Kinds
  <2>6. DialogueInv' /\ StateTellsHistory'
    BY <2>1, <2>4 DEF TypeOK, Endpoints, DialogueInv, StateTellsHistory
  <2>7. LimitsFromOpens' /\ DialogueTold'
    BY <2>3, <2>4 DEF TypeOK, Endpoints, LimitsFromOpens, DialogueTold
  <2> QED
    BY <2>5, <2>6, <2>7
<1> QED
  BY <1>1, <1>2

-----------------------------------------------------------------------------
(* So does a header that is taken. *)

\* A header this peer builds is a unit, of kind header.
LEMMA HeaderUnit ==
    ASSUME NEW layer \in Layers
    PROVE  Header(layer) \in Units /\ KindOf(Header(layer)) = "header"
  BY DEF Header, Units, Headers, KindOf

\* A header taken, in either direction, keeps the invariant.
LEMMA HeaderKeeps ==
    ASSUME IInv, NEW out \in BOOLEAN, NEW layer \in Layers,
           conn.state \in (IF out THEN HeaderSenders ELSE HeaderReceivers),
           LayerAgrees(conn, layer),
           AnswerOf(Taken(AfterHeader(conn, out, layer),
                          IF out THEN <<Header(layer)>> ELSE <<>>),
                    out, IF out THEN {} ELSE {"header"})
    PROVE  IInv'
<1> USE DEF IInv
<1> DEFINE s == IF out THEN HeaderSent(conn.state) ELSE HeaderReceived(conn.state)
           p == IF layer = "sasl" /\ s = "HDR_EXCH" /\ conn.phase = "absent"
                THEN "awaitingMechanisms" ELSE conn.phase
<1>1. s \in States \ {"START"}
  BY DEF States, HeaderSent, HeaderReceived, HeaderReceivers, TypeOK, Endpoints
<1>2. AfterHeader(conn, out, layer) =
          [conn EXCEPT !.state = s, !.layer = layer, !.phase = p]
  BY DEF AfterHeader, AfterHeaderExchange, TypeOK, Endpoints
<1>3. AfterHeader(conn, out, layer).state # "START"
  BY <1>1, <1>2 DEF TypeOK, Endpoints
<1>4. /\ conn' = [conn EXCEPT !.state = s, !.layer = layer, !.phase = p]
      /\ said'  = IF out THEN said \cup {"header"} ELSE said
      /\ heard' = IF out THEN heard ELSE heard \cup {"header"}
      /\ answer' = [out |-> out, ok |-> TRUE,
                    wrote |-> IF out THEN <<Header(layer)>> ELSE <<>>]
  BY <1>2, <1>3, HeaderUnit, KindsWritten DEF AnswerOf, Taken
<1>5. conn' \in Endpoints
  <2>1. p \in Phases
    BY DEF TypeOK, Endpoints, Phases
  <2> HIDE DEF p, s
  <2> QED
    BY <1>1, <1>4, <2>1 DEF TypeOK, Endpoints
<1>6. /\ conn'.state = s /\ conn'.layer = layer /\ conn'.phase = p
      /\ conn'.role = conn.role /\ conn'.mechanisms = conn.mechanisms
      /\ conn'.localLimits = conn.localLimits
      /\ conn'.remoteLimits = conn.remoteLimits
  BY <1>4 DEF TypeOK, Endpoints
<1>7. TypeOK'
  <2>1. answer'.wrote \in Seq(Units) /\ answer'.out \in BOOLEAN /\ answer'.ok \in BOOLEAN
    BY <1>4, HeaderUnit
  <2> QED
    BY <1>4, <1>5, <2>1 DEF TypeOK, Kinds
<1>8. DialogueInv'
  BY <1>6 DEF TypeOK, Endpoints, DialogueInv, LayerAgrees, Layers, HeaderSent,
              HeaderReceived, HeaderSenders, HeaderReceivers
<1>9. StateTellsHistory'
  BY <1>4, <1>6 DEF StateTellsHistory, HeaderSent, HeaderReceived, HeaderSenders,
                    HeaderReceivers
<1>10. LimitsFromOpens'
  BY <1>4, <1>6 DEF LimitsFromOpens
<1>11. DialogueTold'
  BY <1>4, <1>6 DEF DialogueTold, StateTellsHistory, DialogueInv, LayerAgrees,
                    HeaderSenders, HeaderReceivers
<1> QED
  BY <1>7, <1>8, <1>9, <1>10, <1>11

-----------------------------------------------------------------------------
(* A SASL frame that is taken. *)

\* What is written and what is heard of a frame that is taken.
FrameWrote(out, f) == IF out THEN <<f>> ELSE <<>>
FrameHeard(out, f) == IF out THEN {} ELSE {KindOf(f)}

\* What a frame that is taken writes is a sequence of units.
LEMMA FrameWroteType ==
    ASSUME NEW out \in BOOLEAN, NEW f \in Frames
    PROVE  FrameWrote(out, f) \in Seq(Units)
<1>1. f \in Units
  BY DEF Units
<1>2. CASE out
  BY <1>1, <1>2 DEF FrameWrote
<1>3. CASE ~out
  BY <1>3 DEF FrameWrote
<1> QED
  BY <1>2, <1>3

\* A SASL frame taken keeps the invariant, an outcome through START.
LEMMA SaslKeeps ==
    ASSUME IInv, conn.layer = "sasl", NEW out \in BOOLEAN, NEW f \in Frames,
           SaslAdmits(conn, out, f),
           AnswerOf(Taken(AfterSasl(conn, out, f), FrameWrote(out, f)),
                    out, FrameHeard(out, f))
    PROVE  IInv'
<1> USE DEF IInv
<1>1. KindOf(f) = "sasl"
  BY DEF SaslAdmits, SaslBodies, KindOf, RoleOfBody, Frames, OpenFrames,
         PlainFrames, SaslFrames, EmptyFrame
<1>2. conn.state \in {"HDR_EXCH", "END"} /\ conn.phase # "absent"
  BY DEF DialogueInv, SaslAdmits
<1>3. /\ answer' = [out |-> out, ok |-> TRUE, wrote |-> FrameWrote(out, f)]
      /\ answer'.wrote \in Seq(Units)
  BY FrameWroteType DEF AnswerOf, Taken
<1>4. CASE f.body = "outcome"
  <2>1. conn' = InitialEndpoint /\ said' = {} /\ heard' = {}
    BY <1>4 DEF AnswerOf, Taken, AfterSasl, InitialEndpoint
  <2>2. InitialEndpoint \in Endpoints
    BY ConnectionAssumption
    DEF InitialEndpoint, Endpoints, States, Layers, Phases, Roles, Limits, APriori
  <2>3. TypeOK'
    BY <1>3, <2>1, <2>2 DEF TypeOK
  <2>4. DialogueInv' /\ StateTellsHistory' /\ LimitsFromOpens' /\ DialogueTold'
    BY <2>1 DEF DialogueInv, StateTellsHistory, LimitsFromOpens, DialogueTold,
                InitialEndpoint
  <2> QED
    BY <2>3, <2>4
<1>5. CASE f.body # "outcome"
  <2> DEFINE c == AfterSasl(conn, out, f)
  <2>1. /\ c \in Endpoints
        /\ c.state = conn.state /\ c.layer = conn.layer
        /\ c.localLimits = conn.localLimits /\ c.remoteLimits = conn.remoteLimits
    <3>1. CASE f.body = "mechanisms"
      <4>1. f.names \in SUBSET Mechanisms
        BY <3>1 DEF Frames, OpenFrames, PlainFrames, SaslFrames, EmptyFrame
      <4> QED
        BY <3>1, <4>1 DEF AfterSasl, TypeOK, Endpoints, Phases, Roles
    <3>2. CASE f.body # "mechanisms"
      BY <1>5, <3>2 DEF AfterSasl, TypeOK, Endpoints, Phases
    <3> QED
      BY <3>1, <3>2
  <2>2. /\ conn' = c
        /\ said'  = IF out THEN said \cup {"sasl"} ELSE said
        /\ heard' = IF out THEN heard ELSE heard \cup {"sasl"}
    BY <1>1, <1>2, <2>1, KindsWritten DEF AnswerOf, Taken, FrameWrote, FrameHeard
  <2>3. TypeOK'
    BY <1>3, <2>1, <2>2 DEF TypeOK, Kinds
  <2>4. StateTellsHistory' /\ LimitsFromOpens'
    BY <1>2, <2>1, <2>2 DEF StateTellsHistory, LimitsFromOpens
  <2>5. CASE f.body = "mechanisms"
    <3>1. /\ c.phase = "mechanismsKnown" /\ c.mechanisms = f.names /\ f.names # {}
          /\ c.role = IF out THEN "server" ELSE "client"
      BY <2>5 DEF AfterSasl, SaslAdmits, TypeOK, Endpoints
    <3> QED
      BY <1>2, <2>1, <2>2, <2>3, <2>4, <3>1 DEF DialogueInv, DialogueTold
  <2>6. CASE f.body = "init"
    <3>1. /\ conn.phase = "mechanismsKnown" /\ c.phase = "awaitingOutcome"
          /\ c.role = conn.role /\ c.mechanisms = conn.mechanisms
          /\ c.role # (IF out THEN "server" ELSE "client")
      BY <2>6 DEF AfterSasl, SaslAdmits, TypeOK, Endpoints
    <3>2. conn.role \in {"server", "client"}
      BY <3>1 DEF DialogueInv, TypeOK, Endpoints, Roles
    <3>3. DialogueInv'
      BY <1>2, <2>1, <2>2, <3>1 DEF DialogueInv
    <3>4. DialogueTold'
      BY <2>1, <2>2, <3>1, <3>2 DEF DialogueTold
    <3> QED
      BY <2>3, <2>4, <3>3, <3>4
  <2>7. CASE f.body \notin {"mechanisms", "init"}
    <3>1. conn' = conn
      BY <1>5, <2>2, <2>7 DEF AfterSasl
    <3> QED
      BY <2>2, <2>3, <2>4, <3>1 DEF DialogueInv, DialogueTold
  <2> QED
    BY <2>5, <2>6, <2>7
<1> QED
  BY <1>4, <1>5

-----------------------------------------------------------------------------
(* An AMQP frame that is taken. *)

\* A keepalive taken keeps the invariant.
LEMMA BodylessKeeps ==
    ASSUME IInv, NEW out \in BOOLEAN, conn.state # "START",
           AnswerOf(Taken(conn, <<>>), out, FrameHeard(out, EmptyFrame))
    PROVE  IInv'
<1> USE DEF IInv
<1>1. FrameHeard(out, EmptyFrame) \subseteq {"other"}
  BY DEF FrameHeard, KindOf, RoleOfBody, EmptyFrame, SaslBodies
<1>2. /\ conn' = conn /\ said' = said
      /\ heard' = heard \cup FrameHeard(out, EmptyFrame)
      /\ answer' = [out |-> out, ok |-> TRUE, wrote |-> <<>>]
  BY KindsWritten DEF AnswerOf, Taken
<1>3. TypeOK'
  <2>1. answer'.wrote \in Seq(Units) /\ answer'.out \in BOOLEAN /\ answer'.ok \in BOOLEAN
    BY <1>2
  <2> QED
    BY <1>1, <1>2, <2>1 DEF TypeOK, Kinds
<1>4. DialogueInv' /\ StateTellsHistory' /\ LimitsFromOpens' /\ DialogueTold'
  BY <1>1, <1>2 DEF DialogueInv, StateTellsHistory, LimitsFromOpens, DialogueTold
<1> QED
  BY <1>3, <1>4

\* An open, a close or a relayed frame taken keeps the invariant.
LEMMA AmqpKeeps ==
    ASSUME IInv, conn.layer = "amqp", NEW out \in BOOLEAN, NEW f \in Frames,
           AmqpAdmits(conn, out, f), f.body # "none",
           AnswerOf(Taken(AfterFrame(conn, out, f), FrameWrote(out, f)),
                    out, FrameHeard(out, f))
    PROVE  IInv'
<1> USE DEF IInv
<1> DEFINE c == AfterFrame(conn, out, f)
           k == RoleOfBody(f)
<1>1. KindOf(f) = k /\ k \in {"open", "close", "other"}
  BY DEF AmqpAdmits, SaslBodies, KindOf, RoleOfBody, Frames, OpenFrames,
         PlainFrames, SaslFrames, EmptyFrame
<1>2. /\ c \in Endpoints
      /\ c.layer = conn.layer /\ c.phase = conn.phase /\ c.role = conn.role
      /\ c.mechanisms = conn.mechanisms
      /\ c.state = IF k = "open" THEN IF out THEN OpenSent(conn.state)
                                             ELSE OpenReceived(conn.state)
                   ELSE IF k = "close" THEN IF out THEN CloseSent(conn.state)
                                                   ELSE CloseReceived(conn.state)
                   ELSE conn.state
      /\ ~(out /\ k = "open") => c.localLimits = conn.localLimits
      /\ ~(~out /\ k = "open") => c.remoteLimits = conn.remoteLimits
  <2>1. CASE k = "open"
    <3>1. f.body = "open" /\ f.declares \in Limits
      BY <2>1 DEF RoleOfBody, Frames, OpenFrames, PlainFrames, SaslFrames,
                  SaslBodies, EmptyFrame
    <3>2. OpenSent(conn.state) \in States /\ OpenReceived(conn.state) \in States
      BY DEF OpenSent, OpenReceived, States, TypeOK, Endpoints
    <3> QED
      BY <2>1, <3>1, <3>2 DEF AfterFrame, TypeOK, Endpoints
  <2>2. CASE k = "close"
    <3>1. f.body = "close"
      BY <2>2 DEF RoleOfBody
    <3>2. CloseSent(conn.state) \in States /\ CloseReceived(conn.state) \in States
      BY DEF CloseSent, CloseReceived, States, TypeOK, Endpoints
    <3> QED
      BY <2>2, <3>1, <3>2 DEF AfterFrame, TypeOK, Endpoints
  <2>3. CASE k = "other"
    <3>1. f.body \notin {"open", "close"}
      BY <2>3 DEF RoleOfBody
    <3> QED
      BY <2>3, <3>1 DEF AfterFrame, TypeOK
  <2> QED
    BY <1>1, <2>1, <2>2, <2>3
<1>3. Permits(conn.state, out, k)
  BY DEF AmqpAdmits
<1>4. c.state # "START"
  BY <1>1, <1>2, <1>3 DEF Permits, PermitsSend, PermitsReceive, OpenSenders,
       ConformingSenders, AnySenders, OpenReceivers, AnyReceivers, OpenSent,
       OpenReceived, CloseSent, CloseReceived
<1>5. /\ conn' = c
      /\ said'  = IF out THEN said \cup {k} ELSE said
      /\ heard' = IF out THEN heard ELSE heard \cup {k}
      /\ answer' = [out |-> out, ok |-> TRUE, wrote |-> FrameWrote(out, f)]
  BY <1>1, <1>4, KindsWritten DEF AnswerOf, Taken, FrameWrote, FrameHeard
<1>6. TypeOK'
  BY <1>1, <1>2, <1>5, FrameWroteType DEF TypeOK, Kinds
<1> HIDE DEF c, k
<1>7. DialogueInv'
  BY <1>2, <1>5 DEF DialogueInv
<1>8. StateTellsHistory'
  BY <1>1, <1>2, <1>3, <1>5
  DEF StateTellsHistory, Permits, PermitsSend, PermitsReceive, OpenSenders,
      ConformingSenders, AnySenders, OpenReceivers, AnyReceivers, OpenSent,
      OpenReceived, CloseSent, CloseReceived
<1>9. LimitsFromOpens'
  BY <1>1, <1>2, <1>5 DEF LimitsFromOpens
<1>10. DialogueTold'
  BY <1>2, <1>5 DEF DialogueTold
<1> QED
  BY <1>6, <1>7, <1>8, <1>9, <1>10

-----------------------------------------------------------------------------
(* Every step keeps the invariant. *)

\* A step is the core's answer to one unit, a refusal or one of the moves; a
\* unit is heard when it arrived and was taken.
LEMMA StepShape ==
    ASSUME IInv, Next
    PROVE  \E out \in BOOLEAN, u \in Units \cup {Garbage} : \E r :
               /\ r \in Refusals(conn) \/ TakenAs(conn, out, u, r)
               /\ AnswerOf(r, out, IF r.ok /\ ~out THEN {KindOf(u)} ELSE {})
<1>1. conn \in Endpoints
  BY DEF IInv, TypeOK
<1>2. ASSUME NEW u \in Units, Submit(u)
      PROVE  \E r : /\ r \in Refusals(conn) \/ TakenAs(conn, TRUE, u, r)
                    /\ AnswerOf(r, TRUE, {})
  <2>1. SendRefusals(conn, u) \subseteq Refusals(conn)
    BY DEF SendRefusals, Refusals
  <2>2. Sending(conn, u) \in Refusals(conn) \/ TakenAs(conn, TRUE, u, Sending(conn, u))
    BY <1>1, <2>1, SendingShape
  <2> QED
    BY <1>2, <2>2 DEF Submit
<1>3. ASSUME NEW u \in Units \cup {Garbage}, Receive(u)
      PROVE  \E r : /\ r \in Refusals(conn) \/ TakenAs(conn, FALSE, u, r)
                    /\ AnswerOf(r, FALSE, IF r.ok THEN {KindOf(u)} ELSE {})
  <2>1. Arriving(conn, u) \in Refusals(conn) \/ TakenAs(conn, FALSE, u, Arriving(conn, u))
    BY <1>1, ArrivingShape
  <2> QED
    BY <1>3, <2>1 DEF Receive
<1> QED
  BY <1>2, <1>3, EndpointAssumption DEF Next

\* A step that is taken keeps the invariant, whichever move it is.
LEMMA TakenKeeps ==
    ASSUME IInv, NEW out \in BOOLEAN, NEW u \in Units \cup {Garbage}, NEW r,
           TakenAs(conn, out, u, r),
           AnswerOf(r, out, IF r.ok /\ ~out THEN {KindOf(u)} ELSE {})
    PROVE  IInv'
<1>1. r.ok = TRUE
  BY DEF TakenAs, Taken
<1>2. AnswerOf(r, out, IF out THEN {} ELSE {KindOf(u)})
  BY <1>1
<1>3. CASE u \in Headers
  <2>1. u.layer \in Layers /\ u = Header(u.layer) /\ KindOf(u) = "header"
    BY <1>3, HeaderUnit DEF Headers, Header
  <2>2. /\ conn.state \in (IF out THEN HeaderSenders ELSE HeaderReceivers)
        /\ LayerAgrees(conn, u.layer)
        /\ r = Taken(AfterHeader(conn, out, u.layer), UnitWrote(out, u))
    BY <1>3 DEF TakenAs, Headers, SaslFrames, OpenFrames, PlainFrames, EmptyFrame
  <2>3. AnswerOf(Taken(AfterHeader(conn, out, u.layer),
                       IF out THEN <<Header(u.layer)>> ELSE <<>>),
                 out, IF out THEN {} ELSE {"header"})
    BY <1>2, <2>1, <2>2 DEF UnitWrote
  <2> QED
    BY <2>1, <2>2, <2>3, HeaderKeeps
<1>4. CASE u = EmptyFrame
  <2>1. /\ Permits(conn.state, out, "other")
        /\ r = Taken(conn, <<>>)
    BY <1>4 DEF TakenAs, Headers, SaslFrames, OpenFrames, PlainFrames, EmptyFrame
  <2>2. conn.state # "START"
    BY <2>1 DEF Permits, PermitsSend, PermitsReceive, OpenSenders, ConformingSenders,
                AnySenders, OpenReceivers, AnyReceivers
  <2>3. AnswerOf(Taken(conn, <<>>), out, FrameHeard(out, EmptyFrame))
    BY <1>2, <1>4, <2>1 DEF FrameHeard
  <2> QED
    BY <2>2, <2>3, BodylessKeeps
<1>5. CASE u \notin Headers /\ u # EmptyFrame
  <2>1. UnitWrote(out, u) = FrameWrote(out, u)
    BY DEF UnitWrote, FrameWrote
  <2>2. AnswerOf(r, out, FrameHeard(out, u))
    BY <1>2 DEF FrameHeard
  <2>3. CASE u \in SaslFrames
    <3>1. /\ conn.layer = "sasl" /\ SaslAdmits(conn, out, u)
          /\ r = Taken(AfterSasl(conn, out, u), FrameWrote(out, u))
      BY <1>5, <2>1, <2>3 DEF TakenAs, SaslFrames, OpenFrames, PlainFrames, SaslBodies
    <3>2. u \in Frames
      BY <2>3 DEF Frames
    <3> QED
      BY <2>2, <3>1, <3>2, SaslKeeps
  <2>4. CASE u \notin SaslFrames
    <3>1. /\ u \in OpenFrames \cup PlainFrames
          /\ conn.layer = "amqp" /\ AmqpAdmits(conn, out, u)
          /\ r = Taken(AfterFrame(conn, out, u), FrameWrote(out, u))
      BY <1>5, <2>1, <2>4 DEF TakenAs
    <3>2. u \in Frames /\ u.body # "none"
      BY <3>1 DEF Frames, OpenFrames, PlainFrames
    <3> QED
      BY <2>2, <3>1, <3>2, AmqpKeeps
  <2> QED
    BY <2>3, <2>4
<1> QED
  BY <1>3, <1>4, <1>5

\* Every step keeps the invariant.
LEMMA StepKeeps == ASSUME IInv, Next PROVE IInv'
<1>1. PICK out \in BOOLEAN, u \in Units \cup {Garbage} : \E r :
          /\ r \in Refusals(conn) \/ TakenAs(conn, out, u, r)
          /\ AnswerOf(r, out, IF r.ok /\ ~out THEN {KindOf(u)} ELSE {})
  BY StepShape
<1>2. PICK r : /\ r \in Refusals(conn) \/ TakenAs(conn, out, u, r)
               /\ AnswerOf(r, out, IF r.ok /\ ~out THEN {KindOf(u)} ELSE {})
  BY <1>1
<1>3. CASE r \in Refusals(conn)
  <2>1. r.ok = FALSE
    BY <1>3 DEF Refusals, Refused
  <2>2. AnswerOf(r, out, {})
    BY <1>2, <2>1
  <2> QED
    BY <1>3, <2>2, RefusalKeeps
<1>4. CASE TakenAs(conn, out, u, r)
  BY <1>2, <1>4, TakenKeeps
<1> QED
  BY <1>2, <1>3, <1>4

-----------------------------------------------------------------------------
(* The theorems. *)

\* The invariant holds of a peer that has exchanged nothing.
LEMMA InvInit == Init => IInv
<1> SUFFICES ASSUME Init PROVE IInv
  OBVIOUS
<1>1. conn \in Endpoints
  BY ConnectionAssumption
  DEF Init, InitialEndpoint, Endpoints, States, Layers, Phases, Roles, Limits, APriori
<1> QED
  BY <1>1 DEF Init, IInv, TypeOK, DialogueInv, StateTellsHistory, LimitsFromOpens,
              DialogueTold, InitialEndpoint, Kinds

\* Every step keeps the invariant.
LEMMA InvNext == IInv /\ [Next]_vars => IInv'
<1> SUFFICES ASSUME IInv, [Next]_vars PROVE IInv'
  OBVIOUS
<1>1. CASE Next
  BY <1>1, StepKeeps
<1>2. CASE UNCHANGED vars
  BY <1>2 DEF vars, IInv, TypeOK, DialogueInv, StateTellsHistory, LimitsFromOpens,
              DialogueTold
<1> QED
  BY <1>1, <1>2

\* The inductive invariant holds of every behaviour of an endpoint.
THEOREM Invariance == Spec => []IInv
  BY InvInit, InvNext, PTL DEF Spec

\* Type correctness, for every constant.
THEOREM TypeCorrect == Spec => []TypeOK
<1>1. IInv => TypeOK
  BY DEF IInv
<1> QED
  BY <1>1, Invariance, PTL

\* What a state's name claims of the exchange is what crossed the wire.
THEOREM StateIsHistory == Spec => []StateTellsHistory
<1>1. IInv => StateTellsHistory
  BY DEF IInv
<1> QED
  BY <1>1, Invariance, PTL

\* A SASL layer lives between the headers and its outcome, in every behaviour.
THEOREM DialogueSound == Spec => []DialogueInv
<1>1. IInv => DialogueInv
  BY DEF IInv
<1> QED
  BY <1>1, Invariance, PTL

\* No limits but the a priori ones are in force before the open that sets them.
THEOREM LimitsSound == Spec => []LimitsFromOpens
<1>1. IInv => LimitsFromOpens
  BY DEF IInv
<1> QED
  BY <1>1, Invariance, PTL

\* A dialogue's position is what was said and heard of it.
THEOREM DialogueIsTold == Spec => []DialogueTold
<1>1. IInv => DialogueTold
  BY DEF IInv
<1> QED
  BY <1>1, Invariance, PTL

-----------------------------------------------------------------------------
(* What a peer may still write. *)

\* What any step of an endpoint writes, told from where it stood: a header; in
\* the SASL layer a frame of the dialogue; in the AMQP layer a frame whose kind
\* the state's send column has.
LEMMA StepWrites ==
    ASSUME IInv, Next, NEW k \in Kinds, Wrote(k)
    PROVE  \/ k = "header"
           \/ conn.layer = "sasl" /\ k = "sasl"
           \/ PermitsSend(conn.state, k)
<1>1. conn \in Endpoints
  BY DEF IInv, TypeOK
<1>2. PICK out \in BOOLEAN, u \in Units \cup {Garbage} : \E r :
          /\ r \in Refusals(conn) \/ TakenAs(conn, out, u, r)
          /\ AnswerOf(r, out, IF r.ok /\ ~out THEN {KindOf(u)} ELSE {})
  BY StepShape
<1>3. PICK r : /\ r \in Refusals(conn) \/ TakenAs(conn, out, u, r)
               /\ AnswerOf(r, out, IF r.ok /\ ~out THEN {KindOf(u)} ELSE {})
  BY <1>2
<1>4. k \in KindsOf(r.wrote)
  BY <1>3 DEF AnswerOf, Wrote
<1>5. CASE r \in Refusals(conn)
  <2>1. r.wrote = <<>> \/ r.wrote = <<Header(conn.layer)>>
    BY <1>1, <1>5, RefusalMove
  <2>2. KindOf(Header(conn.layer)) = "header"
    BY DEF Header, KindOf
  <2> QED
    BY <1>4, <2>1, <2>2, KindsWritten
<1>6. CASE TakenAs(conn, out, u, r)
  <2>1. \E c : r = Taken(c, UnitWrote(out, u)) \/ r = Taken(c, <<>>)
    BY <1>6 DEF TakenAs
  <2>2. r.wrote = UnitWrote(out, u) \/ r.wrote = <<>>
    BY <2>1, WroteField
  <2>3. out /\ r.wrote = <<u>> /\ k = KindOf(u)
    BY <1>4, <2>2, KindsWritten DEF UnitWrote
  <2>4. CASE u \in Headers
    BY <2>3, <2>4 DEF Headers, KindOf
  <2>5. CASE u \in SaslFrames /\ conn.layer = "sasl"
    BY <2>3, <2>5 DEF SaslFrames, KindOf, RoleOfBody, SaslBodies
  <2>6. CASE u \in OpenFrames \cup PlainFrames /\ AmqpAdmits(conn, out, u)
    <3>1. KindOf(u) = RoleOfBody(u)
      BY <2>6 DEF KindOf, OpenFrames, PlainFrames
    <3> QED
      BY <2>3, <2>6, <3>1 DEF AmqpAdmits, Permits
  <2>7. CASE u = EmptyFrame /\ Permits(conn.state, out, "other")
    <3>1. KindOf(u) = "other"
      BY <2>7 DEF EmptyFrame, KindOf, RoleOfBody, SaslBodies
    <3> QED
      BY <2>3, <2>7, <3>1 DEF Permits
  <2> QED
    BY <1>6, <2>4, <2>5, <2>6, <2>7 DEF TakenAs
<1> QED
  BY <1>3, <1>5, <1>6

\* A header exchange never carries a second open from this peer.
THEOREM OneOpen == Spec => OpenWrittenOnce
<1>1. IInv /\ [Next]_vars => [ "open" \in said => ~Wrote("open") ]_vars
  <2> SUFFICES ASSUME IInv, Next, "open" \in said, Wrote("open") PROVE FALSE
    BY DEF IInv
  <2>1. PermitsSend(conn.state, "open")
    BY StepWrites DEF Kinds
  <2>2. conn.state \in OpenSenders
    BY <2>1 DEF PermitsSend
  <2> QED
    BY <2>2 DEF IInv, StateTellsHistory, OpenSenders
<1> QED
  BY <1>1, Invariance, PTL DEF Spec, OpenWrittenOnce

\* After its close a peer writes no frame.
THEOREM ClosedPeerIsSilent == Spec => NoFrameAfterClose
<1>1. IInv /\ [Next]_vars =>
        [ "close" \in said => ~\E k \in Kinds \ {"header"} : Wrote(k) ]_vars
  <2> SUFFICES ASSUME IInv, Next, "close" \in said,
                      NEW k \in Kinds \ {"header"}, Wrote(k)
               PROVE  FALSE
    OBVIOUS
  <2>1. conn.layer # "sasl"
    BY DEF IInv, DialogueTold
  <2>2. PermitsSend(conn.state, k)
    BY <2>1, StepWrites
  <2> QED
    BY <2>2 DEF IInv, StateTellsHistory, PermitsSend, OpenSenders,
                ConformingSenders, AnySenders
<1> QED
  BY <1>1, Invariance, PTL DEF Spec, NoFrameAfterClose

-----------------------------------------------------------------------------
(* The dialogue, step by step. *)

\* A connection comes back to START only by the outcome both peers spoke SASL
\* for, and the outcome goes from the server to the client.
THEOREM OutcomeEstablishes == Spec => SaslEstablishment
<1>1. IInv /\ [Next]_vars =>
        [ conn.state # "START" /\ conn'.state = "START" =>
              /\ conn.phase = "awaitingOutcome"
              /\ answer'.ok
              /\ answer'.out <=> conn.role = "server"
              /\ "sasl" \in said /\ "sasl" \in heard ]_vars
  <2> SUFFICES ASSUME IInv, Next, conn.state # "START", conn'.state = "START"
               PROVE  /\ conn.phase = "awaitingOutcome"
                      /\ answer'.ok
                      /\ answer'.out <=> conn.role = "server"
                      /\ "sasl" \in said /\ "sasl" \in heard
    OBVIOUS
  <2>1. conn \in Endpoints
    BY DEF IInv, TypeOK
  <2>2. PICK out \in BOOLEAN, u \in Units \cup {Garbage} : \E r :
            /\ r \in Refusals(conn) \/ TakenAs(conn, out, u, r)
            /\ AnswerOf(r, out, IF r.ok /\ ~out THEN {KindOf(u)} ELSE {})
    BY StepShape
  <2>3. PICK r : /\ r \in Refusals(conn) \/ TakenAs(conn, out, u, r)
                 /\ AnswerOf(r, out, IF r.ok /\ ~out THEN {KindOf(u)} ELSE {})
    BY <2>2
  <2>4. conn' = r.conn /\ answer' = [out |-> out, ok |-> r.ok, wrote |-> r.wrote]
    BY <2>3 DEF AnswerOf
  <2>5. r \notin Refusals(conn)
    BY <2>1, <2>4, RefusalMove
  <2>6. ASSUME NEW c, NEW w, r = Taken(c, w) PROVE c = conn' /\ answer'.ok
    BY <2>4, <2>6 DEF Taken
  <2>7. u \notin Headers \/ ~\E w : r = Taken(AfterHeader(conn, out, u.layer), w)
    BY <2>1, <2>6, HeaderMove DEF Headers
  <2>8. ~(u \in OpenFrames \cup PlainFrames /\ AmqpAdmits(conn, out, u)
              /\ \E w : r = Taken(AfterFrame(conn, out, u), w))
    BY <2>1, <2>6, AmqpMove
  <2>9. /\ u \in SaslFrames /\ SaslAdmits(conn, out, u)
        /\ r = Taken(AfterSasl(conn, out, u), UnitWrote(out, u))
    BY <2>3, <2>5, <2>6, <2>7, <2>8 DEF TakenAs
  <2>10. u.body = "outcome"
    <3>1. conn' = AfterSasl(conn, out, u)
      BY <2>6, <2>9
    <3> QED
      BY <2>1, <2>9, <3>1, SaslMove
  <2>11. conn.phase = "awaitingOutcome" /\ (out <=> conn.role = "server")
    BY <2>9, <2>10 DEF SaslAdmits
  <2>12. "sasl" \in said /\ "sasl" \in heard
    BY <2>11 DEF IInv, DialogueTold
  <2> QED
    BY <2>4, <2>6, <2>9, <2>11, <2>12
<1> QED
  BY <1>1, Invariance, PTL DEF Spec, SaslEstablishment

\* Within one SASL layer the dialogue only advances, under the roles and the
\* mechanisms that were announced.
THEOREM DialogueAdvances == Spec => DialogueNeverRestarts
<1>1. IInv /\ [Next]_vars =>
        [ conn.layer = "sasl" /\ conn'.layer = "sasl" =>
              /\ Rank(conn.phase) <= Rank(conn'.phase)
              /\ conn.role # "none" => /\ conn'.role = conn.role
                                       /\ conn'.mechanisms = conn.mechanisms ]_vars
  <2> SUFFICES ASSUME IInv, Next, conn.layer = "sasl", conn'.layer = "sasl"
               PROVE  /\ Rank(conn.phase) <= Rank(conn'.phase)
                      /\ conn.role # "none" => /\ conn'.role = conn.role
                                               /\ conn'.mechanisms = conn.mechanisms
    OBVIOUS
  <2>1. conn \in Endpoints
    BY DEF IInv, TypeOK
  <2>2. /\ Rank("absent") = 0 /\ Rank("awaitingMechanisms") = 1
        /\ Rank("mechanismsKnown") = 2 /\ Rank("awaitingOutcome") = 3
        /\ conn.phase \in Phases
    BY <2>1 DEF Rank, Endpoints
  <2>3. Rank(conn.phase) \in Nat
    BY <2>2 DEF Phases
  <2>4. PICK out \in BOOLEAN, u \in Units \cup {Garbage} : \E r :
            /\ r \in Refusals(conn) \/ TakenAs(conn, out, u, r)
            /\ AnswerOf(r, out, IF r.ok /\ ~out THEN {KindOf(u)} ELSE {})
    BY StepShape
  <2>5. PICK r : /\ r \in Refusals(conn) \/ TakenAs(conn, out, u, r)
                 /\ AnswerOf(r, out, IF r.ok /\ ~out THEN {KindOf(u)} ELSE {})
    BY <2>4
  <2>6. conn' = r.conn
    BY <2>5 DEF AnswerOf
  <2>7. ASSUME NEW c, NEW w, r = Taken(c, w) PROVE c = conn'
    BY <2>6, <2>7 DEF Taken
  <2>8. CASE r \in Refusals(conn) \/ conn' = conn
    <3>1. /\ conn'.phase = conn.phase /\ conn'.role = conn.role
          /\ conn'.mechanisms = conn.mechanisms
      BY <2>1, <2>6, <2>8, RefusalMove
    <3> QED
      BY <2>3, <3>1
  <2>9. CASE u \in Headers /\ \E w : r = Taken(AfterHeader(conn, out, u.layer), w)
    <3>1. u.layer \in Layers /\ conn' = AfterHeader(conn, out, u.layer)
      BY <2>7, <2>9 DEF Headers
    <3>2. /\ \/ conn'.phase = conn.phase
             \/ conn.phase = "absent" /\ conn'.phase = "awaitingMechanisms"
          /\ conn'.role = conn.role /\ conn'.mechanisms = conn.mechanisms
      BY <2>1, <3>1, HeaderMove
    <3> QED
      BY <2>2, <2>3, <3>2
  <2>10. CASE /\ u \in SaslFrames /\ SaslAdmits(conn, out, u)
              /\ \E w : r = Taken(AfterSasl(conn, out, u), w)
    <3>1. conn' = AfterSasl(conn, out, u)
      BY <2>7, <2>10
    <3>2. u.body # "outcome"
      BY <2>1, <2>10, <3>1, SaslMove DEF InitialEndpoint
    <3>3. CASE u.body = "mechanisms"
      <4>1. conn.phase = "awaitingMechanisms" /\ conn'.phase = "mechanismsKnown"
        BY <2>1, <2>10, <3>1, <3>3, SaslMove
      <4>2. conn.role = "none"
        BY <4>1 DEF IInv, DialogueInv
      <4> QED
        BY <2>2, <4>1, <4>2
    <3>4. CASE u.body = "init"
      <4>1. /\ conn.phase = "mechanismsKnown" /\ conn'.phase = "awaitingOutcome"
            /\ conn'.mechanisms = conn.mechanisms /\ conn'.role = conn.role
        BY <2>1, <2>10, <3>1, <3>4, SaslMove
      <4> QED
        BY <2>2, <4>1
    <3>5. CASE u.body \in {"challenge", "response"}
      BY <2>1, <2>3, <2>10, <3>1, <3>5, SaslMove
    <3> QED
      BY <2>10, <3>2, <3>3, <3>4, <3>5 DEF SaslFrames, SaslBodies
  <2> QED
    BY <2>5, <2>7, <2>8, <2>9, <2>10 DEF TakenAs
<1> QED
  BY <1>1, Invariance, PTL DEF Spec, DialogueNeverRestarts
=============================================================================
