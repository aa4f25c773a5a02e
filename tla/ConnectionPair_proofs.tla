------------------------- MODULE ConnectionPair_proofs -------------------------
(***************************************************************************)
(* The safety of two cores joined by a stream, for all frames their        *)
(* applications may offer.  The invariant says which of ten modes the pair *)
(* is in.  In an exchange, of headers, opens and closes, what is on its    *)
(* way to a peer leads it from the stage it has heard to the stage its     *)
(* partner has said; in a SASL dialogue the two endpoints and both streams *)
(* are known exactly.  The properties of the run, and the step simulation  *)
(* of Handshake, are read off the modes.                                   *)
(***************************************************************************)
EXTENDS ConnectionPair, Connection_proofs, SequenceTheorems

-----------------------------------------------------------------------------
(* The stages of one direction. *)

\* The ten states of a peer whose open does not precede its partner's header:
\* each is a pair of stages, what the peer has said and what it has heard.
Staged == {"START", "HDR_RCVD", "HDR_SENT", "HDR_EXCH", "OPEN_RCVD",
           "OPEN_SENT", "OPENED", "CLOSE_RCVD", "CLOSE_SENT", "END"}

\* An open and a frame of the exchange the receiver, with limits mine, takes.
GoodOpen(f, mine, theirs) ==
    /\ f \in OpenFrames
    /\ f.channel = 0 /\ f.complete
    /\ Fits(f, mine)
    /\ f.declares = theirs

GoodPlain(f, body, mine) ==
    /\ f \in PlainFrames
    /\ f.body = body
    /\ body = "close" => f.complete
    /\ Fits(f, mine)

\* The unit v takes a peer from stage a to stage b; only relayed frames, at
\* stage 2, leave it where it is.
Advances(v, a, b, layer, mine, theirs) ==
    \/ a = 0 /\ b = 1 /\ v = Header(layer)
    \/ a = 1 /\ b = 2 /\ GoodOpen(v, mine, theirs)
    \/ a = 2 /\ b = 2 /\ GoodPlain(v, "other", mine)
    \/ a = 2 /\ b = 3 /\ GoodPlain(v, "close", mine)

\* The stream w leads a receiver from the stage it has heard to the stage its
\* partner has said.
Carries(w, heard, said, layer, mine, theirs) ==
    /\ w \in Seq(Units)
    /\ heard <= said
    /\ said < 2 \/ heard = 3 => Len(w) = said - heard
    /\ Len(w) >= said - heard
    /\ \A i \in 1 .. Len(w) :
          /\ heard + i = 1 => w[i] = Header(layer)
          /\ heard + i = 2 => GoodOpen(w[i], mine, theirs)
          /\ heard + i > 2 =>
                GoodPlain(w[i], IF said = 3 /\ i = Len(w) THEN "close" ELSE "other", mine)

-----------------------------------------------------------------------------
(* The modes of the pair. *)

\* A peer in an exchange of headers, opens and closes in the layer.
Exchanging(e, layer) ==
    /\ e.state \in Staged
    /\ layer = "sasl" => e.state \in {"START", "HDR_RCVD", "HDR_SENT", "HDR_EXCH"}
    /\ e.layer = IF e.state = "START" THEN "amqp" ELSE layer
    /\ e.phase = IF layer = "sasl" /\ e.state = "HDR_EXCH" THEN "awaitingMechanisms" ELSE "absent"
    /\ e.role = "none" /\ e.mechanisms = {}
    /\ SaidBy(e.state) < 2 => e.localLimits = APriori
    /\ HeardBy(e.state) < 2 => e.remoteLimits = APriori
    /\ e.localLimits.maxFrameSize >= MinMaxFrameSize

\* What p hears of its partner, in an exchange.
Follows(p, layer) ==
    /\ Carries(wire[p], HeardBy(conn[p].state), SaidBy(conn[Other(p)].state), layer,
               conn[p].localLimits, conn[Other(p)].localLimits)
    /\ HeardBy(conn[p].state) >= 2 => conn[p].remoteLimits = conn[Other(p)].localLimits

\* What an application remembers.
Memory(authenticated, owes, challenges) ==
    [authenticated |-> authenticated, owes |-> owes, challenges |-> challenges]

Exchange(layer) ==
    /\ first = "amqp" => layer = "amqp"
    /\ \E n \in 0 .. MaxChallenges : \A p \in Peers :
          app[p] = Memory(first = "sasl" /\ layer = "amqp", FALSE, n)
    /\ \A p \in Peers : Exchanging(conn[p], layer) /\ Follows(p, layer)

\* A peer in the dialogue, both headers crossed.
InDialogue(state, phase, role, names) ==
    [state |-> state, layer |-> "sasl", phase |-> phase, role |-> role,
     mechanisms |-> names, localLimits |-> APriori, remoteLimits |-> APriori]

\* Every outcome an application may send reports success.
Accepting == \A p \in Peers : \A f \in Offered[p] : f.body = "outcome" => f.code = "ok"

\* A server that has sent an outcome that reports a failure is at END, and its
\* dialogue goes on as if it had not: no guard of the dialogue reads the state.
ServerStates == IF Accepting THEN {"HDR_EXCH"} ELSE {"HDR_EXCH", "END"}

\* Where a peer is that has sent a header and heard none.
AwaitingHeader(layer) ==
    [state |-> "HDR_SENT", layer |-> layer, phase |-> "absent", role |-> "none",
     mechanisms |-> {}, localLimits |-> APriori, remoteLimits |-> APriori]

\* Both applications are in the dialogue: what the client, and the server, know
\* to be owed, and how many challenges the server is ahead.
Talking(clientOwes, serverOwes, ahead) ==
    /\ first = "sasl"
    /\ \E n \in Nat : /\ n + ahead <= MaxChallenges
                      /\ app["client"] = Memory(FALSE, clientOwes, n)
                      /\ app["server"] = Memory(FALSE, serverOwes, n + ahead)

\* A frame of the dialogue that its receiver may take.
GoodSasl(f, body) == /\ f \in SaslFrames
                     /\ f.body = body
                     /\ f.size <= MinMaxFrameSize
                     /\ f.complete

\* The server has announced; the client has still to hear it.
Announcing ==
    /\ Talking(FALSE, FALSE, 0)
    /\ wire["server"] = <<>>
    /\ \E f \in Offered["server"] :
          /\ GoodSasl(f, "mechanisms") /\ f.names # {}
          /\ conn["server"] = InDialogue("HDR_EXCH", "mechanismsKnown", "server", f.names)
          /\ \/ /\ conn["client"] = AwaitingHeader("sasl")
                /\ wire["client"] = <<Header("sasl"), f>>
             \/ /\ conn["client"] = InDialogue("HDR_EXCH", "awaitingMechanisms", "none", {})
                /\ wire["client"] = <<f>>

\* Both know the mechanisms; then the client has named one; then the server
\* has heard which.
Together(clientPhase, serverPhase, serverStates) ==
    \E names \in SUBSET Mechanisms, state \in serverStates :
        /\ conn["client"] = InDialogue("HDR_EXCH", clientPhase, "client", names)
        /\ conn["server"] = InDialogue(state, serverPhase, "server", names)

Choosing ==
    /\ Talking(FALSE, FALSE, 0) /\ Together("mechanismsKnown", "mechanismsKnown", {"HDR_EXCH"})
    /\ wire["client"] = <<>> /\ wire["server"] = <<>>

Initiating ==
    /\ Talking(FALSE, FALSE, 0) /\ Together("awaitingOutcome", "mechanismsKnown", {"HDR_EXCH"})
    /\ wire["client"] = <<>>
    /\ \E f \in Offered["client"] : /\ GoodSasl(f, "init") /\ wire["server"] = <<f>>
                                    /\ \E m \in conn["client"].mechanisms : f.names = {m}

Undecided ==
    /\ Talking(FALSE, FALSE, 0) /\ Together("awaitingOutcome", "awaitingOutcome", ServerStates)
    /\ wire["client"] = <<>> /\ wire["server"] = <<>>

\* A challenge is on its way, is heard, and its response is on its way.
Challenging ==
    /\ Talking(FALSE, TRUE, 1) /\ Together("awaitingOutcome", "awaitingOutcome", ServerStates)
    /\ \E f \in Offered["server"] : GoodSasl(f, "challenge") /\ wire["client"] = <<f>>
    /\ wire["server"] = <<>>

Challenged ==
    /\ Talking(TRUE, TRUE, 0) /\ Together("awaitingOutcome", "awaitingOutcome", ServerStates)
    /\ wire["client"] = <<>> /\ wire["server"] = <<>>

Responding ==
    /\ Talking(FALSE, TRUE, 0) /\ Together("awaitingOutcome", "awaitingOutcome", ServerStates)
    /\ wire["client"] = <<>>
    /\ \E f \in Offered["client"] : GoodSasl(f, "response") /\ wire["server"] = <<f>>

\* The server has decided for the client and begun again, by itself so far.
Decided ==
    /\ first = "sasl"
    /\ \E n \in 0 .. MaxChallenges : /\ app["client"] = Memory(FALSE, FALSE, n)
                                     /\ app["server"] = Memory(TRUE, FALSE, n)
    /\ \E names \in SUBSET Mechanisms :
          conn["client"] = InDialogue("HDR_EXCH", "awaitingOutcome", "client", names)
    /\ wire["server"] = <<>>
    /\ \E f \in Offered["server"] :
          /\ GoodSasl(f, "outcome") /\ f.code = "ok"
          /\ \/ conn["server"] = InitialEndpoint /\ wire["client"] = <<f>>
             \/ /\ conn["server"] = AwaitingHeader("amqp")
                /\ wire["client"] = <<f, Header("amqp")>>

Modes == \/ \E layer \in Layers : Exchange(layer)
         \/ Announcing \/ Choosing \/ Initiating
         \/ Undecided \/ Challenging \/ Challenged \/ Responding
         \/ Decided

-----------------------------------------------------------------------------
(* The stream of an exchange grows by what its sender says next, and shrinks *)
(* by what its receiver hears next.                                          *)

\* A unit more at its end.
LEMMA CarriesMore ==
    ASSUME NEW w, NEW heard \in 0..3, NEW said \in 0..3, NEW next \in 0..3, NEW v \in Units,
           NEW layer, NEW mine, NEW theirs, NEW declared,
           Carries(w, heard, said, layer, mine, theirs),
           Advances(v, said, next, layer, mine, declared),
           said # 1 => declared = theirs
    PROVE  Carries(w \o <<v>>, heard, next, layer, mine, declared)
<1> DEFINE one == <<v>>
           t == w \o one
<1>1. one \in Seq(Units) /\ Len(one) = 1 /\ one[1] = v
  OBVIOUS
<1>2. w \in Seq(Units) /\ Len(w) \in Nat
  BY DEF Carries
<1> HIDE DEF one
<1>3. /\ t \in Seq(Units)
      /\ Len(t) = Len(w) + Len(one)
      /\ \A i \in 1 .. Len(w) + Len(one) :
             t[i] = IF i <= Len(w) THEN w[i] ELSE one[i - Len(w)]
  BY <1>1, <1>2, ConcatProperties
<1> HIDE DEF t
<1>4. /\ t \in Seq(Units) /\ Len(t) = Len(w) + 1
      /\ \A i \in 1 .. Len(w) : t[i] = w[i]
      /\ t[Len(w) + 1] = v
  BY <1>1, <1>2, <1>3
<1>5. /\ heard <= said /\ Len(w) >= said - heard
      /\ said < 2 \/ heard = 3 => Len(w) = said - heard
      /\ said <= next /\ said \in 0..2
  BY DEF Carries, Advances
<1>6. /\ heard <= next /\ Len(t) >= next - heard
      /\ next < 2 \/ heard = 3 => Len(t) = next - heard
  BY <1>2, <1>4, <1>5 DEF Advances
<1>7. ASSUME NEW i \in 1 .. Len(t)
      PROVE  /\ heard + i = 1 => t[i] = Header(layer)
             /\ heard + i = 2 => GoodOpen(t[i], mine, declared)
             /\ heard + i > 2 =>
                   GoodPlain(t[i], IF next = 3 /\ i = Len(t) THEN "close" ELSE "other", mine)
  <2>1. CASE i = Len(w) + 1
    BY <1>2, <1>4, <1>5, <2>1 DEF Advances
  <2>2. CASE i <= Len(w)
    <3>1. i \in 1 .. Len(w) /\ t[i] = w[i] /\ i # Len(t)
      BY <1>2, <1>4, <2>2
    <3>2. /\ heard + i = 1 => w[i] = Header(layer)
          /\ heard + i = 2 => GoodOpen(w[i], mine, theirs)
          /\ heard + i > 2 =>
                GoodPlain(w[i], IF said = 3 /\ i = Len(w) THEN "close" ELSE "other", mine)
      BY <3>1 DEF Carries
    <3>3. said = 1 => heard + i < 2
      BY <1>2, <1>5, <3>1
    <3> QED
      BY <1>5, <3>1, <3>2, <3>3
  <2> QED
    BY <1>2, <1>4, <2>1, <2>2
<1> QED
  BY <1>4, <1>6, <1>7 DEF Carries, t, one

\* Its first unit gone.
LEMMA CarriesLess ==
    ASSUME NEW w, NEW heard \in 0..3, NEW said \in 0..3, NEW layer, NEW mine, NEW theirs,
           Carries(w, heard, said, layer, mine, theirs), w # <<>>
    PROVE  /\ Head(w) \in Units
           /\ \E next \in heard .. said : /\ Advances(Head(w), heard, next, layer, mine, theirs)
                                          /\ Carries(Tail(w), next, said, layer, mine, theirs)
<1>1. /\ w \in Seq(Units) /\ Len(w) \in Nat \ {0} /\ Head(w) = w[1] /\ 1 \in 1 .. Len(w)
  BY EmptySeq DEF Carries
<1>2. /\ Head(w) \in Units /\ Tail(w) \in Seq(Units) /\ Len(Tail(w)) = Len(w) - 1
      /\ \A i \in 1 .. Len(Tail(w)) : Tail(w)[i] = w[i + 1]
  BY <1>1, HeadTailProperties
<1> DEFINE t == Tail(w)
<1> HIDE DEF t
<1>3. /\ t \in Seq(Units) /\ Len(t) = Len(w) - 1
      /\ \A i \in 1 .. Len(t) : t[i] = w[i + 1] /\ i + 1 \in 1 .. Len(w)
  BY <1>1, <1>2 DEF t
<1>4. /\ heard <= said /\ Len(w) >= said - heard /\ heard # 3
      /\ said < 2 => Len(w) = said - heard
      /\ heard + 1 = 1 => w[1] = Header(layer)
      /\ heard + 1 = 2 => GoodOpen(w[1], mine, theirs)
      /\ heard + 1 > 2 =>
            GoodPlain(w[1], IF said = 3 /\ 1 = Len(w) THEN "close" ELSE "other", mine)
  <2>1. /\ heard <= said /\ Len(w) >= said - heard
        /\ said < 2 \/ heard = 3 => Len(w) = said - heard
    BY DEF Carries
  <2>2. \A i \in 1 .. Len(w) :
          /\ heard + i = 1 => w[i] = Header(layer)
          /\ heard + i = 2 => GoodOpen(w[i], mine, theirs)
          /\ heard + i > 2 =>
                GoodPlain(w[i], IF said = 3 /\ i = Len(w) THEN "close" ELSE "other", mine)
    BY DEF Carries
  <2>3. heard # 3
    BY <1>1, <2>1
  <2> QED
    BY <1>1, <2>1, <2>2, <2>3
<1> DEFINE next == IF heard < 2 THEN heard + 1
                   ELSE IF said = 3 /\ Len(w) = 1 THEN 3 ELSE 2
<1>5. next \in heard .. said /\ next \in 0..3
  BY <1>1, <1>4
<1>6. Advances(Head(w), heard, next, layer, mine, theirs)
  BY <1>1, <1>4 DEF Advances
<1>7. Carries(t, next, said, layer, mine, theirs)
  <2>1. /\ Len(t) >= said - next
        /\ said < 2 \/ next = 3 => Len(t) = said - next
    <3>1. CASE heard < 2
      BY <1>1, <1>3, <1>4, <3>1
    <3>2. CASE heard = 2
      BY <1>1, <1>3, <1>4, <3>2
    <3> QED
      BY <1>4, <3>1, <3>2
  <2>2. ASSUME NEW i \in 1 .. Len(t)
        PROVE  /\ next + i = 1 => t[i] = Header(layer)
               /\ next + i = 2 => GoodOpen(t[i], mine, theirs)
               /\ next + i > 2 =>
                     GoodPlain(t[i], IF said = 3 /\ i = Len(t) THEN "close" ELSE "other", mine)
    <3>1. i + 1 \in 1 .. Len(w) /\ t[i] = w[i + 1] /\ (i = Len(t) <=> i + 1 = Len(w)) /\ i \in Nat
      BY <1>1, <1>3
    <3>2. /\ heard + (i + 1) = 2 => GoodOpen(w[i + 1], mine, theirs)
          /\ heard + (i + 1) > 2 =>
                GoodPlain(w[i + 1], IF said = 3 /\ i + 1 = Len(w) THEN "close" ELSE "other", mine)
      BY <3>1 DEF Carries
    <3>3. \/ heard < 2 /\ next + i = heard + (i + 1)
          \/ heard = 2 /\ next + i > 2 /\ heard + (i + 1) > 2
      BY <1>4, <3>1
    <3>4. next + i # 1
      BY <1>4, <3>1
    <3> QED
      BY <3>1, <3>2, <3>3, <3>4
  <2> QED
    BY <1>3, <1>5, <2>1, <2>2 DEF Carries
<1> QED
  BY <1>2, <1>5, <1>6, <1>7 DEF t

\* A receiver that raises its limits hears no less.
LEMMA CarriesRaised ==
    ASSUME NEW w, NEW heard \in 0..3, NEW said \in 0..3, NEW layer, NEW theirs,
           NEW mine \in Limits, NEW raised \in Limits,
           mine.maxFrameSize <= raised.maxFrameSize, mine.channelMax <= raised.channelMax,
           Carries(w, heard, said, layer, mine, theirs)
    PROVE  Carries(w, heard, said, layer, raised, theirs)
<1>1. \A f : GoodOpen(f, mine, theirs) => GoodOpen(f, raised, theirs)
  BY DEF GoodOpen, Fits, Limits, OpenFrames
<1>2. \A f, body : GoodPlain(f, body, mine) => GoodPlain(f, body, raised)
  BY DEF GoodPlain, Fits, Limits, PlainFrames
<1> QED
  BY <1>1, <1>2 DEF Carries

-----------------------------------------------------------------------------
(* What a peer of an exchange says takes it one stage on, and what it hears. *)

\* Every open an application may offer accepts frames of the size every peer
\* must accept.
Roomy == \A p \in Peers : \A f \in Offered[p] \cap OpenFrames :
             f.declares.maxFrameSize >= MinMaxFrameSize

\* The stages the ten states stand for.
LEMMA Stages ==
    /\ SaidBy("START") = 0 /\ HeardBy("START") = 0
    /\ SaidBy("HDR_RCVD") = 0 /\ HeardBy("HDR_RCVD") = 1
    /\ SaidBy("HDR_SENT") = 1 /\ HeardBy("HDR_SENT") = 0
    /\ SaidBy("HDR_EXCH") = 1 /\ HeardBy("HDR_EXCH") = 1
    /\ SaidBy("OPEN_RCVD") = 1 /\ HeardBy("OPEN_RCVD") = 2
    /\ SaidBy("OPEN_SENT") = 2 /\ HeardBy("OPEN_SENT") = 1
    /\ SaidBy("OPENED") = 2 /\ HeardBy("OPENED") = 2
    /\ SaidBy("CLOSE_RCVD") = 2 /\ HeardBy("CLOSE_RCVD") = 3
    /\ SaidBy("CLOSE_SENT") = 3 /\ HeardBy("CLOSE_SENT") = 2
    /\ SaidBy("END") = 3 /\ HeardBy("END") = 3
  BY DEF SaidBy, HeardBy

\* A frame that fits a limit fits a larger one.
LEMMA FitsMore ==
    ASSUME NEW f \in OpenFrames \cup PlainFrames, NEW small \in Limits, NEW large \in Limits,
           small.maxFrameSize <= large.maxFrameSize, small.channelMax <= large.channelMax,
           Fits(f, small)
    PROVE  Fits(f, large)
  BY DEF Fits, Limits, OpenFrames, PlainFrames

\* What a peer may send, its discipline kept.
MaySay(e, layer, u, r) ==
    \/ HeaderTaken(e, TRUE, u, r) /\ u.layer = layer
    \/ /\ FrameTaken(e, TRUE, u, r)
       /\ u.body = "open" => /\ e.state # "HDR_SENT"
                             /\ u.declares.maxFrameSize >= MinMaxFrameSize
       /\ u.body = "close" => e.state \in {"OPENED", "CLOSE_RCVD"}

\* A peer of an exchange that says something its discipline allows stays in
\* the exchange: what it heard stands, and u advances what it has said.
LEMMA ExchangeSends ==
    ASSUME NEW e \in Endpoints, NEW layer \in Layers, NEW u \in Units, NEW r,
           Exchanging(e, layer), MaySay(e, layer, u, r),
           NEW mine \in Limits, mine.maxFrameSize >= MinMaxFrameSize,
           HeardBy(e.state) >= 2 => e.remoteLimits = mine
    PROVE  /\ r.conn \in Endpoints /\ Exchanging(r.conn, layer)
           /\ HeardBy(r.conn.state) = HeardBy(e.state)
           /\ r.conn.remoteLimits = e.remoteLimits
           /\ SaidBy(e.state) # 1 => r.conn.localLimits = e.localLimits
           /\ Advances(u, SaidBy(e.state), SaidBy(r.conn.state), layer, mine,
                       r.conn.localLimits)
<1> USE Stages
<1> DEFINE c == r.conn
<1>1. CASE HeaderTaken(e, TRUE, u, r) /\ u.layer = layer
  <2>1. HeaderLed(e, TRUE, u, c)
    BY <1>1, HeaderLeads, Zenon
  <2>2. /\ e.state \in {"START", "HDR_RCVD"} /\ u = Header(layer)
        /\ c.state = IF e.state = "START" THEN "HDR_SENT" ELSE "HDR_EXCH"
    BY <1>1, <2>1 DEF HeaderTaken, HeaderLed, HeaderSenders, HeaderSent, Headers, Header
  <2>3. Exchanging(c, layer)
    BY <1>1, <2>1, <2>2 DEF HeaderLed, Exchanging, Staged, APriori
  <2> QED
    BY <2>1, <2>2, <2>3 DEF HeaderLed, Advances
<1>2. CASE /\ FrameTaken(e, TRUE, u, r)
           /\ u.body = "open" => /\ e.state # "HDR_SENT"
                                 /\ u.declares.maxFrameSize >= MinMaxFrameSize
           /\ u.body = "close" => e.state \in {"OPENED", "CLOSE_RCVD"}
  <2>1. FrameLed(e, TRUE, u, c)
    BY <1>2, FrameLeads, Zenon
  <2>2. /\ u \in OpenFrames \cup PlainFrames /\ e.layer = "amqp"
        /\ AmqpAdmits(e, TRUE, u) /\ PermitsSend(e.state, u.body)
        /\ u.body \in {"open", "close", "other"}
        /\ u.body = "open" => u \in OpenFrames /\ u.declares \in Limits
        /\ u.body # "open" => u \in PlainFrames
    BY <1>2, FrameRole DEF FrameTaken, Permits, OpenFrames
  <2>3. \/ u.body = "open" /\ e.state \in {"HDR_EXCH", "OPEN_RCVD"}
        \/ u.body = "other" /\ e.state \in {"OPEN_SENT", "OPENED", "CLOSE_RCVD"}
        \/ u.body = "close" /\ e.state \in {"OPENED", "CLOSE_RCVD"}
    BY <1>2, <2>2 DEF PermitsSend, OpenSenders, ConformingSenders, AnySenders,
                      Exchanging, Staged
  <2>4. layer = "amqp"
    BY <2>2, <2>3 DEF Exchanging
  <2>5. Fits(u, mine)
    <3>1. Fits(u, LimitsFor(e, TRUE))
      BY <2>2 DEF AmqpAdmits
    <3>2. LimitsFor(e, TRUE) = mine \/ LimitsFor(e, TRUE) = APriori
      BY <2>3 DEF LimitsFor, ConformingSenders, Exchanging
    <3>3. /\ APriori \in Limits /\ APriori.maxFrameSize <= mine.maxFrameSize
          /\ APriori.channelMax <= mine.channelMax
      BY ConnectionAssumption DEF APriori, Limits
    <3> QED
      BY <2>2, <3>1, <3>2, <3>3, FitsMore
  <2>6. u.body \in {"open", "close"} => u.complete
    BY <2>2 DEF AmqpAdmits
  <2>7. u.body = "open" => u.channel = 0
    BY <2>2 DEF AmqpAdmits
  <2>8. CASE u.body = "open"
    <3>1. c.state = IF e.state = "HDR_EXCH" THEN "OPEN_SENT" ELSE "OPENED"
      BY <2>1, <2>3, <2>8 DEF FrameLed, OpenSent
    <3>2. Exchanging(c, layer)
      BY <1>2, <2>1, <2>3, <2>4, <2>8, <3>1 DEF FrameLed, Exchanging, Staged
    <3>3. GoodOpen(u, mine, c.localLimits)
      BY <2>1, <2>2, <2>5, <2>6, <2>7, <2>8 DEF FrameLed, GoodOpen
    <3> QED
      BY <2>1, <2>3, <2>8, <3>1, <3>2, <3>3 DEF FrameLed, Advances
  <2>9. CASE u.body = "close"
    <3>1. c.state = IF e.state = "OPENED" THEN "CLOSE_SENT" ELSE "END"
      BY <2>1, <2>3, <2>9 DEF FrameLed, CloseSent
    <3>2. Exchanging(c, layer)
      BY <2>1, <2>3, <2>4, <2>9, <3>1 DEF FrameLed, Exchanging, Staged
    <3>3. GoodPlain(u, "close", mine)
      BY <2>2, <2>5, <2>6, <2>9 DEF GoodPlain
    <3> QED
      BY <2>1, <2>3, <2>9, <3>1, <3>2, <3>3 DEF FrameLed, Advances
  <2>10. CASE u.body = "other"
    <3>1. c.state = e.state
      BY <2>1, <2>10 DEF FrameLed
    <3>2. Exchanging(c, layer)
      BY <2>1, <2>3, <2>4, <2>10, <3>1 DEF FrameLed, Exchanging, Staged
    <3>3. GoodPlain(u, "other", mine)
      BY <2>2, <2>5, <2>10 DEF GoodPlain
    <3> QED
      BY <2>1, <2>3, <2>10, <3>1, <3>2, <3>3 DEF FrameLed, Advances
  <2> QED
    BY <2>2, <2>8, <2>9, <2>10
<1> QED
  BY <1>1, <1>2 DEF MaySay

\* The answer r takes the receiver e to the stage next.
Hears(e, layer, next, theirs, r) ==
    /\ r.ok /\ r.wrote = <<>>
    /\ r.conn \in Endpoints /\ Exchanging(r.conn, layer)
    /\ HeardBy(r.conn.state) = next /\ SaidBy(r.conn.state) = SaidBy(e.state)
    /\ r.conn.localLimits = e.localLimits
    /\ r.conn.remoteLimits = IF HeardBy(e.state) = 1 THEN theirs ELSE e.remoteLimits

\* The header of the layer takes a receiver that has heard nothing to stage 1.
LEMMA HearsHeader ==
    ASSUME NEW e \in Endpoints, NEW layer \in Layers, NEW u \in Units, NEW r, NEW theirs,
           Exchanging(e, layer), HeardBy(e.state) = 0, u = Header(layer),
           HeaderTaken(e, FALSE, u, r), r.wrote = <<>>
    PROVE  Hears(e, layer, 1, theirs, r)
<1> USE Stages
<1> DEFINE c == r.conn
<1>1. HeaderLed(e, FALSE, u, c)
  BY HeaderLeads, Zenon
<1>2. e.state \in {"START", "HDR_SENT"} /\ u.layer = layer /\ r.ok
  BY DEF Exchanging, Staged, Header, HeaderTaken
<1>3. c.state = IF e.state = "START" THEN "HDR_RCVD" ELSE "HDR_EXCH"
  BY <1>1, <1>2 DEF HeaderLed, HeaderReceived
<1>4. Exchanging(c, layer)
  BY <1>1, <1>2, <1>3 DEF HeaderLed, Exchanging, Staged, APriori
<1> QED
  BY <1>1, <1>2, <1>3, <1>4 DEF HeaderLed, Hears

\* An AMQP frame that is taken takes its receiver to the stage the table gives.
LEMMA HearsFrame ==
    ASSUME NEW e \in Endpoints, NEW u \in Units, NEW r, NEW theirs,
           NEW next, Exchanging(e, "amqp"), FrameTaken(e, FALSE, u, r), r.wrote = <<>>,
           u.body = "open" => u.declares = theirs,
           \/ u.body = "open" /\ e.state \in {"HDR_EXCH", "OPEN_SENT"} /\ next = 2
           \/ u.body = "other" /\ e.state \in {"OPEN_RCVD", "OPENED", "CLOSE_SENT"} /\ next = 2
           \/ u.body = "close" /\ e.state \in {"OPENED", "CLOSE_SENT"} /\ next = 3
    PROVE  Hears(e, "amqp", next, theirs, r)
<1> USE Stages
<1> DEFINE c == r.conn
<1>1. FrameLed(e, FALSE, u, c) /\ r.ok
  BY FrameLeads, Zenon DEF FrameTaken
<1>2. c.state = CASE u.body = "open" /\ e.state = "HDR_EXCH"    -> "OPEN_RCVD"
                  [] u.body = "open" /\ e.state = "OPEN_SENT"   -> "OPENED"
                  [] u.body = "close" /\ e.state = "CLOSE_SENT" -> "END"
                  [] u.body = "close" /\ e.state = "OPENED"     -> "CLOSE_RCVD"
                  [] OTHER -> e.state
  BY <1>1 DEF FrameLed, OpenReceived, CloseReceived
<1>3. c.state \in Staged /\ c.state # "START" /\ e.state # "START"
  BY <1>2 DEF Staged
<1>4. c.localLimits = e.localLimits
  BY <1>1 DEF FrameLed
<1>5. c.remoteLimits = IF u.body = "open" THEN theirs ELSE e.remoteLimits
  BY <1>1 DEF FrameLed
<1>6. HeardBy(c.state) = next /\ SaidBy(c.state) = SaidBy(e.state)
  BY <1>2
<1>7. Exchanging(c, "amqp")
  BY <1>1, <1>3, <1>4, <1>5, <1>6 DEF FrameLed, Exchanging
<1> QED
  BY <1>1, <1>4, <1>5, <1>6, <1>7 DEF FrameLed, Hears

\* What comes next is taken, as long as the partner is at most a stage ahead.
LEMMA ExchangeHears ==
    ASSUME NEW e \in Endpoints, NEW layer \in Layers, NEW u \in Units, NEW next, NEW theirs,
           Exchanging(e, layer),
           Advances(u, HeardBy(e.state), next, layer, e.localLimits, theirs),
           next <= SaidBy(e.state) + 1, next >= 2 => layer = "amqp"
    PROVE  Hears(e, layer, next, theirs, Arriving(e, u))
<1> USE Stages
<1> DEFINE r == Arriving(e, u)
<1>1. CASE HeardBy(e.state) = 0 /\ next = 1 /\ u = Header(layer)
  <2>1. e.state \in {"START", "HDR_SENT"} /\ u.kind = "header" /\ u.layer = layer
    BY <1>1 DEF Exchanging, Staged, Header
  <2>2. r = StepHeader(e, FALSE, layer) /\ e.state \in HeaderReceivers
    BY <2>1 DEF Arriving, HeaderReceivers
  <2>3. LayerAgrees(e, layer)
    BY <2>1 DEF LayerAgrees, Exchanging
  <2>4. r = Taken(AfterHeader(e, FALSE, layer), <<>>)
    BY <2>2, <2>3 DEF StepHeader, AfterHeader
  <2>5. r.ok /\ r.wrote = <<>> /\ r.conn = AfterHeader(e, FALSE, layer)
    BY <2>4 DEF Taken
  <2>6. HeaderTaken(e, FALSE, u, r)
    BY <1>1, <2>1, <2>2, <2>3, <2>5 DEF HeaderTaken, Headers, Header
  <2> QED
    BY <1>1, <2>5, <2>6, HearsHeader
<1>2. ASSUME u \in OpenFrames \cup PlainFrames, Fits(u, e.localLimits),
             u.body \in {"open", "close"} => u.complete,
             u.body = "open" => u.channel = 0 /\ u.declares = theirs,
             layer = "amqp",
             \/ u.body = "open" /\ e.state \in {"HDR_EXCH", "OPEN_SENT"} /\ next = 2
             \/ u.body = "other" /\ e.state \in {"OPEN_RCVD", "OPENED", "CLOSE_SENT"} /\ next = 2
             \/ u.body = "close" /\ e.state \in {"OPENED", "CLOSE_SENT"} /\ next = 3
      PROVE  Hears(e, layer, next, theirs, r)
  <2>1. u.kind = "frame" /\ RoleOfBody(u) = u.body /\ u.body \in {"open", "close", "other"}
    BY <1>2, FrameRole
  <2>2. e.state \notin HeaderReceivers /\ e.layer = "amqp"
    BY <1>2 DEF HeaderReceivers, Exchanging
  <2>3. AmqpAdmits(e, FALSE, u) /\ Permits(e.state, FALSE, u.body)
    BY <1>2, <2>1 DEF AmqpAdmits, Permits, PermitsReceive, OpenReceivers, AnyReceivers,
                      LimitsFor, SaslBodies
  <2>4. r = Taken(AfterFrame(e, FALSE, u), <<>>)
    BY <2>1, <2>2, <2>3 DEF Arriving, StepFrame, StepAmqpFrame
  <2>5. r.ok /\ r.wrote = <<>> /\ r.conn = AfterFrame(e, FALSE, u)
    BY <2>4 DEF Taken
  <2>6. FrameTaken(e, FALSE, u, r)
    BY <1>2, <2>2, <2>3, <2>5 DEF FrameTaken
  <2> HIDE DEF r
  <2> QED
    BY <1>2, <2>5, <2>6, HearsFrame
<1>3. e.state \in Staged
  BY DEF Exchanging
<1>4. CASE HeardBy(e.state) = 1 /\ next = 2 /\ GoodOpen(u, e.localLimits, theirs)
  <2>1. e.state \in {"HDR_EXCH", "OPEN_SENT"} /\ layer = "amqp"
    BY <1>3, <1>4 DEF Staged
  <2>2. u \in OpenFrames /\ u.body = "open"
    BY <1>4 DEF GoodOpen, OpenFrames
  <2> QED
    BY <1>2, <1>4, <2>1, <2>2 DEF GoodOpen
<1>5. CASE HeardBy(e.state) = 2 /\ next = 2 /\ GoodPlain(u, "other", e.localLimits)
  <2>1. e.state \in {"OPEN_RCVD", "OPENED", "CLOSE_SENT"} /\ layer = "amqp"
    BY <1>3, <1>5 DEF Staged
  <2> QED
    BY <1>2, <1>5, <2>1 DEF GoodPlain
<1>6. CASE HeardBy(e.state) = 2 /\ next = 3 /\ GoodPlain(u, "close", e.localLimits)
  <2>1. e.state \in {"OPENED", "CLOSE_SENT"} /\ layer = "amqp"
    BY <1>3, <1>6 DEF Staged
  <2> QED
    BY <1>2, <1>6, <2>1 DEF GoodPlain
<1> QED
  BY <1>1, <1>4, <1>5, <1>6 DEF Advances

-----------------------------------------------------------------------------
(* The steps of the pair, one form per kind of answer. *)

Memories == [authenticated : BOOLEAN, owes : BOOLEAN, challenges : Nat]

\* The shape of the state: what the modes do not say of it.
Shaped == /\ conn \in [Peers -> Endpoints]
          /\ wire \in [Peers -> Seq(Units)]
          /\ app \in [Peers -> Memories]
          /\ first \in FirstLayers

\* The three answers to a submission: nothing happens; an outcome that reports
\* a failure ends its sender, and is not written; the unit is taken.
Keeps(e, u, r) == /\ r.conn = e /\ r.wrote = <<>>
                  /\ r.ok => u = EmptyFrame

Denies(e, u, r) == /\ e.layer = "sasl" /\ u \in SaslFrames
                   /\ SaslAdmits(e, TRUE, u)
                   /\ u.body = "outcome" /\ u.code # "ok"
                   /\ r.conn = [e EXCEPT !.state = "END"]
                   /\ ~r.ok /\ r.wrote = <<>>

Takes(e, u, r) == /\ \/ HeaderTaken(e, TRUE, u, r)
                     \/ SaslTaken(e, TRUE, u, r) /\ (u.body = "outcome" => u.code = "ok")
                     \/ FrameTaken(e, TRUE, u, r)
                  /\ r.ok /\ r.wrote = <<u>>

SendForms(e, u, r) == Keeps(e, u, r) \/ Denies(e, u, r) \/ Takes(e, u, r)

\* Every submission is answered in one of the three forms.
LEMMA SendingForms ==
    ASSUME NEW e \in Endpoints, NEW u \in Units
    PROVE  SendForms(e, u, Sending(e, u))
<1> DEFINE r == Sending(e, u)
           ended == [e EXCEPT !.state = "END"]
<1> SUFFICES SendForms(e, u, r)
  OBVIOUS
<1>1. r \in SendRefusals(e, u) \/ TakenAs(e, TRUE, u, r)
  BY SendingShape
<1>2. CASE e.layer = "sasl" /\ u \in SaslFrames
  <2>1. r = StepSaslFrame(e, TRUE, u)
    BY <1>2 DEF Sending, StepFrame, SaslFrames, SaslBodies
  <2>2. \/ r = Refused(e, <<>>)
        \/ /\ SaslAdmits(e, TRUE, u) /\ u.body = "outcome" /\ u.code # "ok"
           /\ r = Refused(ended, <<>>)
        \/ /\ SaslAdmits(e, TRUE, u) /\ (u.body = "outcome" => u.code = "ok")
           /\ r = Taken(AfterSasl(e, TRUE, u), <<u>>)
    BY <2>1 DEF StepSaslFrame, WithPlace
  <2> HIDE DEF r, ended
  <2>3. CASE r = Refused(e, <<>>)
    BY <2>3 DEF Refused, Keeps, SendForms
  <2>4. CASE /\ SaslAdmits(e, TRUE, u) /\ u.body = "outcome" /\ u.code # "ok"
             /\ r = Refused(ended, <<>>)
    <3>1. r.conn = ended /\ ~r.ok /\ r.wrote = <<>>
      BY <2>4 DEF Refused
    <3> QED
      BY <1>2, <2>4, <3>1, Zenon DEF SendForms, Denies, ended
  <2>5. CASE /\ SaslAdmits(e, TRUE, u) /\ (u.body = "outcome" => u.code = "ok")
             /\ r = Taken(AfterSasl(e, TRUE, u), <<u>>)
    <3>1. r.conn = AfterSasl(e, TRUE, u) /\ r.ok /\ r.wrote = <<u>>
      BY <2>5 DEF Taken
    <3> QED
      BY <1>2, <2>5, <3>1, Zenon DEF SendForms, Takes, SaslTaken
  <2> QED
    BY <2>2, <2>3, <2>4, <2>5
<1>3. CASE ~(e.layer = "sasl" /\ u \in SaslFrames) /\ r \in SendRefusals(e, u)
  <2>1. r = Refused(e, <<>>)
    BY <1>3 DEF SendRefusals
  <2> QED
    BY <2>1 DEF Refused, Keeps, SendForms
<1>4. CASE ~(e.layer = "sasl" /\ u \in SaslFrames) /\ TakenAs(e, TRUE, u, r)
  <2>1. UnitWrote(TRUE, u) = <<u>>
    BY DEF UnitWrote
  <2>2. \/ /\ HeaderTaken(e, TRUE, u, r) \/ SaslTaken(e, TRUE, u, r) \/ FrameTaken(e, TRUE, u, r)
           /\ r.wrote = UnitWrote(TRUE, u)
        \/ u = EmptyFrame /\ r.conn = e /\ r.wrote = <<>>
    BY <1>4, TakenMoves, Zenon
  <2> HIDE DEF r
  <2>3. CASE /\ HeaderTaken(e, TRUE, u, r) \/ SaslTaken(e, TRUE, u, r) \/ FrameTaken(e, TRUE, u, r)
             /\ r.wrote = UnitWrote(TRUE, u)
    <3>1. r.ok
      BY <2>3, Zenon DEF HeaderTaken, SaslTaken, FrameTaken
    <3>2. ~SaslTaken(e, TRUE, u, r)
      BY <1>4, Zenon DEF SaslTaken
    <3> QED
      BY <2>1, <2>3, <3>1, <3>2, Zenon DEF SendForms, Takes
  <2>4. CASE u = EmptyFrame /\ r.conn = e /\ r.wrote = <<>>
    BY <2>4, Zenon DEF SendForms, Keeps
  <2> QED
    BY <2>2, <2>3, <2>4
<1> QED
  BY <1>1, <1>2, <1>3, <1>4

\* What p's core answered takes effect: the state, and what its application
\* remembers, of p alone.
Becomes(p, c, a) == /\ conn'[p] = c /\ conn'[Other(p)] = conn[Other(p)]
                    /\ app'[p] = a /\ app'[Other(p)] = app[Other(p)]
                    /\ first' = first

\* p said u, and is at c.
Said(p, u, c) == /\ Becomes(p, c, Remembering(app[p], u))
                 /\ wire'[Other(p)] = wire[Other(p)] \o <<u>> /\ wire'[p] = wire[p]

\* p sent an outcome that reports a failure: it is at END, and said nothing.
Denied(p) == /\ Becomes(p, [conn[p] EXCEPT !.state = "END"], app[p])
             /\ wire'[Other(p)] = wire[Other(p)] /\ wire'[p] = wire[p]

\* p heard the unit at the head of its stream, and is at c.
Heard(p, c) == /\ Becomes(p, c, Remembering(app[p], Head(wire[p])))
               /\ wire'[p] = Tail(wire[p]) /\ wire'[Other(p)] = wire[Other(p)]

\* Each peer is the other's partner.
LEMMA Partners ==
    ASSUME NEW p \in Peers
    PROVE  Other(p) \in Peers /\ Other(p) # p /\ Other(Other(p)) = p
  BY DEF Peers, Other

\* What an application makes of a frame of the dialogue.
LEMMA Remembers ==
    ASSUME NEW u, NEW n, u.kind = "frame"
    PROVE  /\ u.body = "challenge" =>
                  Remembering(Memory(FALSE, FALSE, n), u) = Memory(FALSE, TRUE, n + 1)
           /\ u.body = "response" =>
                  Remembering(Memory(FALSE, TRUE, n), u) = Memory(FALSE, FALSE, n)
           /\ u.body = "outcome" =>
                  Remembering(Memory(FALSE, FALSE, n), u) = Memory(TRUE, FALSE, n)
<1>1. \A x, y, z : [Memory(x, y, n) EXCEPT !.owes = z] = Memory(x, z, n)
  BY DEF Memory
<1>2. \A x, y, z : [Memory(x, y, n) EXCEPT !.authenticated = z] = Memory(z, y, n)
  BY DEF Memory
<1>3. \A x, y, z : [Memory(x, y, n) EXCEPT !.owes = z, !.challenges = @ + 1] = Memory(x, z, n + 1)
  <2> SUFFICES ASSUME NEW x, NEW y, NEW z
               PROVE  [Memory(x, y, n) EXCEPT !.owes = z, !.challenges = @ + 1] = Memory(x, z, n + 1)
    OBVIOUS
  <2> DEFINE asked == [Memory(x, y, n) EXCEPT !.owes = z, !.challenges = @ + 1]
  <2>1. asked \in [authenticated : {x}, owes : {z}, challenges : {n + 1}]
    BY DEF Memory
  <2> HIDE DEF asked
  <2>2. asked = Memory(x, z, n + 1)
    BY <2>1 DEF Memory
  <2> QED
    BY <2>2 DEF asked
<1>4. CASE u.body = "challenge"
  <2> DEFINE asked == [Memory(FALSE, FALSE, n) EXCEPT !.owes = TRUE, !.challenges = @ + 1]
  <2>1. asked = Memory(FALSE, TRUE, n + 1)
    BY <1>3, Zenon
  <2>2. Remembering(Memory(FALSE, FALSE, n), u) = asked
    BY <1>4 DEF Remembering
  <2> HIDE DEF asked
  <2> QED
    BY <1>4, <2>1, <2>2
<1>5. CASE u.body = "response"
  <2> DEFINE answered == [Memory(FALSE, TRUE, n) EXCEPT !.owes = FALSE]
  <2>1. answered = Memory(FALSE, FALSE, n)
    BY <1>1, Zenon
  <2>2. Remembering(Memory(FALSE, TRUE, n), u) = answered
    BY <1>5 DEF Remembering
  <2> HIDE DEF answered
  <2> QED
    BY <1>5, <2>1, <2>2
<1>6. CASE u.body = "outcome"
  <2> DEFINE told == [Memory(FALSE, FALSE, n) EXCEPT !.authenticated = TRUE]
  <2>1. told = Memory(TRUE, FALSE, n)
    BY <1>2, Zenon
  <2>2. Remembering(Memory(FALSE, FALSE, n), u) = told
    BY <1>6 DEF Remembering
  <2> HIDE DEF told
  <2> QED
    BY <1>6, <2>1, <2>2
<1> QED
  BY <1>4, <1>5, <1>6

\* An application remembers nothing of the other units.
LEMMA RemembersNothing ==
    ASSUME NEW u, NEW a,
           u.kind = "header" \/ u.body \in {"open", "close", "other", "mechanisms", "init"}
    PROVE  Remembering(a, u) = a
  BY DEF Remembering

\* The three things an application remembers.
LEMMA MemoryFields ==
    \A x, y, n : /\ Memory(x, y, n).authenticated = x
                 /\ Memory(x, y, n).owes = y
                 /\ Memory(x, y, n).challenges = n
  BY DEF Memory

\* What an application remembers stays of its type.
LEMMA RemembersShaped ==
    ASSUME NEW a \in Memories, NEW u
    PROVE  Remembering(a, u) \in Memories
<1>1. PICK n \in Nat : n = a.challenges + 1
  BY DEF Memories
<1> DEFINE told == [a EXCEPT !.authenticated = TRUE]
           asked == [a EXCEPT !.owes = TRUE, !.challenges = n]
           answered == [a EXCEPT !.owes = FALSE]
<1>2. told \in Memories
  <2>1. \A x \in BOOLEAN : [a EXCEPT !.authenticated = x] \in Memories
    BY DEF Memories
  <2> QED
    BY <2>1, TRUE \in BOOLEAN, Zenon
<1>3. asked \in Memories
  <2>1. \A x \in BOOLEAN : [a EXCEPT !.owes = x, !.challenges = n] \in Memories
    BY DEF Memories
  <2> QED
    BY <2>1, TRUE \in BOOLEAN, Zenon
<1>4. answered \in Memories
  <2>1. \A x \in BOOLEAN : [a EXCEPT !.owes = x] \in Memories
    BY DEF Memories
  <2> QED
    BY <2>1, FALSE \in BOOLEAN, Zenon
<1>5. Remembering(a, u) \in {a, told, asked, answered}
  BY <1>1 DEF Remembering
<1> HIDE DEF told, asked, answered
<1> QED
  BY <1>2, <1>3, <1>4, <1>5

\* Any step keeps the shape.
LEMMA ShapeKept ==
    ASSUME Shaped, NEW p \in Peers, NEW u \in Units, NEW r, NEW rest, NEW wrote,
           r.conn \in Endpoints, rest \in Seq(Units), wrote \in Seq(Units),
           Answered(p, u, r),
           \/ wire' = [wire EXCEPT ![Other(p)] = @ \o wrote]
           \/ wire' = [wire EXCEPT ![p] = rest, ![Other(p)] = @ \o wrote]
    PROVE  Shaped'
<1>1. Other(p) \in Peers /\ wire[Other(p)] \in Seq(Units)
  BY Partners DEF Shaped
<1>2. wire[Other(p)] \o wrote \in Seq(Units)
  BY <1>1, ConcatProperties
<1>3. wire' \in [Peers -> Seq(Units)]
  BY <1>1, <1>2 DEF Shaped
<1>4. conn' \in [Peers -> Endpoints]
  BY DEF Shaped, Answered
<1>5. Remembering(app[p], u) \in Memories
  BY RemembersShaped DEF Shaped
<1>6. app' \in [Peers -> Memories]
  BY <1>5 DEF Shaped, Answered
<1> QED
  BY <1>3, <1>4, <1>6 DEF Shaped, Answered

\* A submission changes nothing, ends its sender in silence, or is said.
LEMMA SubmitForms ==
    ASSUME Shaped, NEW p \in Peers, NEW u \in Units, Submit(p, u)
    PROVE  LET r == Sending(conn[p], u)
           IN  /\ Shaped' /\ Disciplined(p, u)
               /\ \/ UNCHANGED vars
                  \/ Denies(conn[p], u, r) /\ Denied(p)
                  \/ Takes(conn[p], u, r) /\ Said(p, u, r.conn)
<1> DEFINE e == conn[p]
           q == Other(p)
           r == Sending(e, u)
           ended == [e EXCEPT !.state = "END"]
<1>1. e \in Endpoints /\ q \in Peers /\ q # p /\ wire[q] \in Seq(Units)
  BY Partners DEF Shaped
<1>2. Keeps(e, u, r) \/ Denies(e, u, r) \/ Takes(e, u, r)
  BY <1>1, SendingForms DEF SendForms
<1>3. Answered(p, u, r) /\ wire' = [wire EXCEPT ![q] = @ \o r.wrote] /\ Disciplined(p, u)
  BY DEF Submit
<1>4. /\ conn'[p] = r.conn /\ conn'[q] = conn[q]
      /\ app'[p] = IF r.ok THEN Remembering(app[p], u) ELSE app[p]
      /\ app'[q] = app[q] /\ first' = first
  BY <1>1, <1>3 DEF Answered, Shaped
<1>5. wire'[q] = wire[q] \o r.wrote /\ wire'[p] = wire[p]
  BY <1>1, <1>3 DEF Shaped
<1>6. Shaped'
  <2>1. r.conn \in Endpoints /\ r.wrote \in Seq(Units)
    <3>1. ended \in Endpoints
      BY <1>1 DEF Endpoints, States
    <3>2. <<>> \in Seq(Units) /\ <<u>> \in Seq(Units)
      OBVIOUS
    <3>3. CASE Keeps(e, u, r)
      BY <1>1, <3>2, <3>3 DEF Keeps
    <3>4. CASE Denies(e, u, r)
      BY <3>1, <3>2, <3>4 DEF Denies
    <3>5. CASE Takes(e, u, r)
      <4>1. HeaderTaken(e, TRUE, u, r) => r.conn \in Endpoints
        <5>1. HeaderTaken(e, TRUE, u, r) => HeaderLed(e, TRUE, u, r.conn)
          BY <1>1, HeaderLeads, Zenon
        <5> QED
          BY <5>1 DEF HeaderLed
      <4>2. FrameTaken(e, TRUE, u, r) => r.conn \in Endpoints
        <5>1. FrameTaken(e, TRUE, u, r) => FrameLed(e, TRUE, u, r.conn)
          BY <1>1, FrameLeads, Zenon
        <5> QED
          BY <5>1 DEF FrameLed
      <4>3. SaslTaken(e, TRUE, u, r) => r.conn \in Endpoints
        BY <1>1, SaslMove DEF SaslTaken
      <4> QED
        BY <3>2, <3>5, <4>1, <4>2, <4>3 DEF Takes
    <3> QED
      BY <1>2, <3>3, <3>4, <3>5
  <2> HIDE DEF r
  <2> QED
    BY <1>3, <2>1, ShapeKept
<1>7. CASE Keeps(e, u, r)
  <2>1. Remembering(app[p], EmptyFrame) = app[p]
    BY DEF Remembering, EmptyFrame
  <2>2. wire'[q] = wire[q]
    BY <1>1, <1>5, <1>7, ConcatEmptySeq DEF Keeps
  <2>3. conn'[p] = conn[p] /\ app'[p] = app[p]
    BY <1>4, <1>7, <2>1 DEF Keeps
  <2>4. conn' = conn /\ wire' = wire /\ app' = app
    <3>1. \A x \in Peers : x = p \/ x = q
      BY DEF Peers, Other
    <3>2. \A x \in Peers : conn'[x] = conn[x] /\ wire'[x] = wire[x] /\ app'[x] = app[x]
      BY <1>4, <1>5, <2>2, <2>3, <3>1
    <3> QED
      BY <1>6, <3>2 DEF Shaped
  <2> QED
    BY <1>3, <1>4, <1>6, <2>4 DEF vars
<1>8. CASE Denies(e, u, r)
  <2>1. wire'[q] = wire[q]
    BY <1>1, <1>5, <1>8, ConcatEmptySeq DEF Denies
  <2> QED
    BY <1>3, <1>4, <1>5, <1>6, <1>8, <2>1 DEF Denies, Denied, Becomes
<1>9. CASE Takes(e, u, r)
  BY <1>3, <1>4, <1>5, <1>6, <1>9 DEF Takes, Said, Becomes
<1> QED
  BY <1>2, <1>7, <1>8, <1>9

\* An arrival that is taken writes nothing.
LEMMA DeliverForms ==
    ASSUME Shaped, NEW p \in Peers, Deliver(p), NEW r,
           r = Arriving(conn[p], Head(wire[p])), r.ok, r.wrote = <<>>, r.conn \in Endpoints
    PROVE  Shaped' /\ Heard(p, r.conn)
<1> DEFINE u == Head(wire[p])
           q == Other(p)
<1>1. q \in Peers /\ q # p /\ wire[p] \in Seq(Units) /\ wire[q] \in Seq(Units)
  BY Partners DEF Shaped
<1>2. wire[p] # <<>>
  BY DEF Deliver
<1>3. u \in Units /\ Tail(wire[p]) \in Seq(Units) /\ <<>> \in Seq(Units)
  BY <1>1, <1>2, HeadTailProperties
<1>4. /\ Answered(p, u, r)
      /\ wire' = [wire EXCEPT ![p] = Tail(@), ![q] = @ \o r.wrote]
  BY DEF Deliver
<1>5. wire' = [wire EXCEPT ![p] = Tail(wire[p]), ![q] = @ \o <<>>]
  BY <1>4
<1>6. Shaped'
  BY <1>3, <1>4, <1>5, ShapeKept
<1>7. /\ conn'[p] = r.conn /\ conn'[q] = conn[q]
      /\ app'[p] = Remembering(app[p], u)
      /\ app'[q] = app[q] /\ first' = first
  BY <1>1, <1>4 DEF Answered, Shaped
<1>8. wire'[p] = Tail(wire[p]) /\ wire'[q] = wire[q] \o <<>>
  BY <1>1, <1>5 DEF Shaped
<1>9. wire'[q] = wire[q]
  BY <1>1, <1>8, ConcatEmptySeq
<1> QED
  BY <1>6, <1>7, <1>8, <1>9 DEF Heard, Becomes

-----------------------------------------------------------------------------
(* A step in an exchange. *)

\* The discipline and the frames the theorems are about: no open precedes the
\* partner's header, and every open keeps the limits every peer has.
Orderly == ~Pipelined /\ Roomy

\* One peer moves, and says or hears at most one stage more: it says only
\* what follows a stage it has heard, and hears only what was said.
Progresses(p) ==
    LET s == SaidBy(conn[p].state)   next == SaidBy(conn'[p].state)
        h == HeardBy(conn[p].state)  heard == HeardBy(conn'[p].state)
    IN  /\ conn'[Other(p)] = conn[Other(p)]
        /\ \/ heard = h /\ next = s
           \/ heard = h /\ next = s + 1 /\ s <= h /\ s < 3
           \/ next = s /\ heard = h + 1 /\ h < SaidBy(conn[Other(p)].state)

\* The stages of a peer in an exchange.
LEMMA ExchangeStages ==
    ASSUME NEW e, NEW layer, Exchanging(e, layer)
    PROVE  /\ SaidBy(e.state) \in 0..3 /\ HeardBy(e.state) \in 0..3
           /\ SaidBy(e.state) <= HeardBy(e.state) + 1
           /\ SaidBy(e.state) >= 2 => HeardBy(e.state) >= 1
           /\ SaidBy(e.state) = 3 => HeardBy(e.state) >= 2
           /\ layer = "sasl" => SaidBy(e.state) <= 1 /\ HeardBy(e.state) <= 1
  BY Stages DEF Exchanging, Staged

\* Both applications want the layer the exchange is in.
LEMMA ExchangeLayer ==
    ASSUME NEW layer \in Layers, Exchange(layer), Shaped, NEW p \in Peers
    PROVE  LayerWanted(p) = layer
<1>1. first \in Layers
  BY PairAssumption DEF Shaped
<1>2. app[p].authenticated <=> first = "sasl" /\ layer = "amqp"
  <2>1. PICK n : app[p] = Memory(first = "sasl" /\ layer = "amqp", FALSE, n)
    BY Zenon DEF Exchange
  <2> QED
    BY <2>1, MemoryFields, Zenon
<1> QED
  BY <1>1, <1>2 DEF LayerWanted, Exchange, Layers

\* A peer of an exchange that says a header, an open, a close or a relayed
\* frame keeps the pair in the exchange, and says one stage more at most.
LEMMA ExchangeSays ==
    ASSUME Orderly, Shaped, NEW layer \in Layers, Exchange(layer),
           NEW p \in Peers, NEW u \in Headers \cup Offered[p], u \in Units, NEW r,
           Disciplined(p, u), Takes(conn[p], u, r), ~SaslTaken(conn[p], TRUE, u, r),
           Shaped', Said(p, u, r.conn)
    PROVE  Exchange(layer)' /\ Progresses(p)
<1> DEFINE q == Other(p)
           e == conn[p]
           d == conn[q]
           c == r.conn
<1>1. /\ q \in Peers /\ q # p /\ Other(q) = p
      /\ e \in Endpoints /\ d \in Endpoints /\ wire[p] \in Seq(Units) /\ wire[q] \in Seq(Units)
  BY Partners DEF Shaped
<1>2. /\ Exchanging(e, layer) /\ Exchanging(d, layer)
      /\ Follows(p, layer) /\ Follows(q, layer)
  BY <1>1 DEF Exchange
<1>3. /\ e.localLimits \in Limits /\ d.localLimits \in Limits
      /\ d.localLimits.maxFrameSize >= MinMaxFrameSize
  BY <1>1, <1>2 DEF Endpoints, Exchanging
<1>4. HeaderTaken(e, TRUE, u, r) \/ FrameTaken(e, TRUE, u, r)
  BY DEF Takes
<1>5. MaySay(e, layer, u, r)
  <2>1. CASE HeaderTaken(e, TRUE, u, r)
    <3>1. u.kind = "header"
      BY <2>1 DEF HeaderTaken, Headers
    <3>2. u.layer = layer
      BY <3>1, ExchangeLayer DEF Disciplined
    <3> QED
      BY <2>1, <3>2 DEF MaySay
  <2>2. CASE FrameTaken(e, TRUE, u, r)
    <3>1. u.kind = "frame" /\ u \in Offered[p]
      BY <2>2 DEF FrameTaken, OpenFrames, PlainFrames, Headers
    <3>2. /\ u.body = "open" => e.state # "HDR_SENT"
          /\ u.body = "close" => e.state \in {"OPENED", "CLOSE_RCVD"}
      BY <3>1 DEF Disciplined, Orderly
    <3>3. u.body = "open" => u \in OpenFrames
      BY <2>2, FrameRole DEF FrameTaken
    <3>4. u.body = "open" => u.declares.maxFrameSize >= MinMaxFrameSize
      BY <3>1, <3>3 DEF Orderly, Roomy
    <3> QED
      BY <2>2, <3>2, <3>4 DEF MaySay
  <2> QED
    BY <1>4, <2>1, <2>2
<1>6. HeardBy(e.state) >= 2 => e.remoteLimits = d.localLimits
  BY <1>2 DEF Follows
<1>7. /\ c \in Endpoints /\ Exchanging(c, layer)
      /\ HeardBy(c.state) = HeardBy(e.state)
      /\ c.remoteLimits = e.remoteLimits
      /\ SaidBy(e.state) # 1 => c.localLimits = e.localLimits
      /\ Advances(u, SaidBy(e.state), SaidBy(c.state), layer, d.localLimits, c.localLimits)
  BY <1>1, <1>2, <1>3, <1>5, <1>6, ExchangeSends
<1>8. /\ SaidBy(e.state) \in 0..3 /\ HeardBy(e.state) \in 0..3
      /\ SaidBy(d.state) \in 0..3 /\ HeardBy(d.state) \in 0..3
      /\ SaidBy(c.state) \in 0..3 /\ HeardBy(c.state) \in 0..3
      /\ SaidBy(c.state) >= 2 => HeardBy(e.state) >= 1
      /\ SaidBy(c.state) = 3 => HeardBy(e.state) >= 2
  BY <1>2, <1>7, ExchangeStages
<1>9. /\ conn'[p] = c /\ conn'[q] = d /\ app'[q] = app[q] /\ first' = first
      /\ wire'[q] = wire[q] \o <<u>> /\ wire'[p] = wire[p]
      /\ app'[p] = Remembering(app[p], u)
  BY DEF Said, Becomes
<1>10. app'[p] = app[p]
  <2>1. u.kind = "header" \/ u.body \in {"open", "close", "other"}
    BY <1>4, FrameRole DEF HeaderTaken, FrameTaken, Headers
  <2> QED
    BY <1>9, <2>1, RemembersNothing
<1>11. Follows(q, layer)'
  <2>1. Carries(wire[q], HeardBy(d.state), SaidBy(e.state), layer, d.localLimits, e.localLimits)
    BY <1>1, <1>2 DEF Follows
  <2>2. Carries(wire[q] \o <<u>>, HeardBy(d.state), SaidBy(c.state), layer,
                d.localLimits, c.localLimits)
    BY <1>7, <1>8, <2>1, CarriesMore
  <2>3. HeardBy(d.state) >= 2 => d.remoteLimits = c.localLimits
    <3>1. HeardBy(d.state) <= SaidBy(e.state)
      BY <2>1 DEF Carries
    <3> QED
      BY <1>1, <1>2, <1>7, <1>8, <3>1 DEF Follows
  <2> QED
    BY <1>1, <1>9, <2>2, <2>3 DEF Follows
<1>12. Follows(p, layer)'
  <2>1. Carries(wire[p], HeardBy(e.state), SaidBy(d.state), layer, e.localLimits, d.localLimits)
    BY <1>2 DEF Follows
  <2>2. /\ c.localLimits \in Limits
        /\ e.localLimits.maxFrameSize <= c.localLimits.maxFrameSize
        /\ e.localLimits.channelMax <= c.localLimits.channelMax
    <3>1. c.localLimits \in Limits /\ c.localLimits.maxFrameSize >= MinMaxFrameSize
      BY <1>7 DEF Endpoints, Exchanging
    <3>2. SaidBy(e.state) = 1 => e.localLimits = APriori
      BY <1>2 DEF Exchanging
    <3> QED
      BY <1>3, <1>7, <3>1, <3>2 DEF APriori, Limits
  <2>3. Carries(wire[p], HeardBy(e.state), SaidBy(d.state), layer, c.localLimits, d.localLimits)
    BY <1>3, <1>8, <2>1, <2>2, CarriesRaised
  <2> QED
    BY <1>6, <1>7, <1>9, <2>3 DEF Follows
<1>13. Exchange(layer)'
  <2>1. \A x \in Peers : x = p \/ x = q
    BY DEF Peers, Other
  <2>2. \A x \in Peers : Exchanging(conn[x], layer)' /\ Follows(x, layer)'
    BY <1>2, <1>7, <1>9, <1>11, <1>12, <2>1
  <2>3. \A x \in Peers : app'[x] = app[x]
    BY <1>9, <1>10, <2>1
  <2> QED
    BY <1>9, <2>2, <2>3 DEF Exchange
<1>14. Progresses(p)
  BY <1>7, <1>8, <1>9 DEF Progresses, Advances
<1> QED
  BY <1>13, <1>14

\* What comes to a peer of an exchange is taken.
LEMMA ExchangeTakes ==
    ASSUME Shaped, NEW layer \in Layers, Exchange(layer), NEW p \in Peers, wire[p] # <<>>
    PROVE  LET e == conn[p]
               d == conn[Other(p)]
               u == Head(wire[p])
           IN  \E next \in HeardBy(e.state) .. SaidBy(d.state) :
                   /\ Advances(u, HeardBy(e.state), next, layer, e.localLimits, d.localLimits)
                   /\ Carries(Tail(wire[p]), next, SaidBy(d.state), layer,
                              e.localLimits, d.localLimits)
                   /\ Hears(e, layer, next, d.localLimits, Arriving(e, u))
<1> DEFINE q == Other(p)
           e == conn[p]
           d == conn[q]
           u == Head(wire[p])
           r == Arriving(e, u)
<1>1. q \in Peers /\ q # p /\ Other(q) = p /\ e \in Endpoints /\ d \in Endpoints
  BY Partners DEF Shaped
<1>2. /\ Exchanging(e, layer) /\ Exchanging(d, layer)
      /\ Follows(p, layer) /\ Follows(q, layer)
  BY <1>1 DEF Exchange
<1>3. /\ SaidBy(e.state) \in 0..3 /\ HeardBy(e.state) \in 0..3
      /\ SaidBy(d.state) \in 0..3 /\ HeardBy(d.state) \in 0..3
      /\ SaidBy(d.state) <= HeardBy(d.state) + 1
      /\ SaidBy(d.state) >= 2 => layer # "sasl"
  BY <1>2, ExchangeStages
<1>4. /\ Carries(wire[p], HeardBy(e.state), SaidBy(d.state), layer, e.localLimits, d.localLimits)
      /\ Carries(wire[q], HeardBy(d.state), SaidBy(e.state), layer, d.localLimits, e.localLimits)
  BY <1>1, <1>2 DEF Follows
<1>5. u \in Units
  BY <1>3, <1>4, CarriesLess
<1>6. PICK next \in HeardBy(e.state) .. SaidBy(d.state) :
          /\ Advances(u, HeardBy(e.state), next, layer, e.localLimits, d.localLimits)
          /\ Carries(Tail(wire[p]), next, SaidBy(d.state), layer, e.localLimits, d.localLimits)
  BY <1>3, <1>4, CarriesLess
<1>7. HeardBy(d.state) <= SaidBy(e.state)
  BY <1>4 DEF Carries
<1>8. next <= SaidBy(e.state) + 1 /\ (next >= 2 => layer = "amqp")
  BY <1>3, <1>6, <1>7 DEF Layers
<1>9. Hears(e, layer, next, d.localLimits, r)
  BY <1>1, <1>2, <1>5, <1>6, <1>8, ExchangeHears
<1> QED
  BY <1>6, <1>9

\* A delivery keeps the pair in the exchange, and is heard as one stage more
\* at most.
LEMMA ExchangeDelivers ==
    ASSUME Shaped, NEW layer \in Layers, Exchange(layer), NEW p \in Peers, Deliver(p)
    PROVE  Shaped' /\ Exchange(layer)' /\ Progresses(p)
<1> DEFINE q == Other(p)
           e == conn[p]
           d == conn[q]
           u == Head(wire[p])
           r == Arriving(e, u)
           c == r.conn
<1>1. /\ q \in Peers /\ q # p /\ Other(q) = p
      /\ e \in Endpoints /\ d \in Endpoints /\ wire[p] # <<>>
  BY Partners DEF Shaped, Deliver
<1>2. /\ Exchanging(e, layer) /\ Exchanging(d, layer)
      /\ Follows(p, layer) /\ Follows(q, layer)
  BY <1>1 DEF Exchange
<1>3. /\ SaidBy(e.state) \in 0..3 /\ HeardBy(e.state) \in 0..3
      /\ SaidBy(d.state) \in 0..3 /\ HeardBy(d.state) \in 0..3
  BY <1>2, ExchangeStages
<1>4. /\ HeardBy(e.state) >= 2 => e.remoteLimits = d.localLimits
      /\ Carries(wire[q], HeardBy(d.state), SaidBy(e.state), layer, d.localLimits, e.localLimits)
      /\ HeardBy(d.state) >= 2 => d.remoteLimits = e.localLimits
  BY <1>1, <1>2 DEF Follows
<1>5. PICK next \in HeardBy(e.state) .. SaidBy(d.state) :
          /\ Advances(u, HeardBy(e.state), next, layer, e.localLimits, d.localLimits)
          /\ Carries(Tail(wire[p]), next, SaidBy(d.state), layer, e.localLimits, d.localLimits)
          /\ Hears(e, layer, next, d.localLimits, r)
  BY <1>1, ExchangeTakes
<1>6. Shaped' /\ Heard(p, c)
  BY <1>5, DeliverForms DEF Hears
<1> HIDE DEF r
<1>7. /\ conn'[p] = c /\ conn'[q] = d /\ app'[q] = app[q] /\ first' = first
       /\ wire'[p] = Tail(wire[p]) /\ wire'[q] = wire[q]
       /\ app'[p] = Remembering(app[p], u)
  BY <1>6 DEF Heard, Becomes
<1>8. app'[p] = app[p]
  <2>1. u.kind = "header" \/ u.body \in {"open", "close", "other"}
    BY <1>5 DEF Advances, Header, GoodOpen, GoodPlain, OpenFrames
  <2> QED
    BY <1>7, <2>1, RemembersNothing
<1>9. /\ Exchanging(c, layer)
       /\ HeardBy(c.state) = next /\ SaidBy(c.state) = SaidBy(e.state)
       /\ c.localLimits = e.localLimits
       /\ c.remoteLimits = IF HeardBy(e.state) = 1 THEN d.localLimits ELSE e.remoteLimits
  BY <1>5 DEF Hears
<1>10. next = HeardBy(e.state) \/ next = HeardBy(e.state) + 1
  BY <1>5 DEF Advances
<1>11. Follows(p, layer)'
  <2>1. next >= 2 => c.remoteLimits = d.localLimits
    BY <1>3, <1>4, <1>9, <1>10
  <2> QED
    BY <1>5, <1>7, <1>9, <2>1 DEF Follows
<1>12. Follows(q, layer)'
  BY <1>1, <1>4, <1>7, <1>9 DEF Follows
<1>13. Exchange(layer)'
  <2>1. \A x \in Peers : x = p \/ x = q
    BY DEF Peers, Other
  <2>2. \A x \in Peers : Exchanging(conn[x], layer)' /\ Follows(x, layer)'
    BY <1>2, <1>7, <1>9, <1>11, <1>12, <2>1
  <2>3. \A x \in Peers : app'[x] = app[x]
    BY <1>7, <1>8, <2>1
  <2> QED
    BY <1>7, <2>2, <2>3 DEF Exchange
<1>14. Progresses(p)
  BY <1>3, <1>5, <1>7, <1>9, <1>10 DEF Progresses
<1> QED
  BY <1>6, <1>13, <1>14

-----------------------------------------------------------------------------
(* A step in a dialogue. *)

\* The two sides by name.
LEMMA Sides == Other("client") = "server" /\ Other("server") = "client"
  BY DEF Other

\* The streams of a dialogue hold two units at most.
LEMMA ShortStreams ==
    ASSUME NEW u \in Units, NEW v \in Units
    PROVE  /\ <<>> \o <<u>> = <<u>> /\ <<u>> \o <<v>> = <<u, v>>
           /\ <<u>> # <<>> /\ Head(<<u>>) = u /\ Tail(<<u>>) = <<>>
           /\ <<u, v>> # <<>> /\ Head(<<u, v>>) = u /\ Tail(<<u, v>>) = <<v>>
<1>1. <<u>> \in Seq(Units) /\ <<>> \o <<u>> = <<u>>
  <2>1. <<u>> \in Seq(Units)
    OBVIOUS
  <2> QED
    BY <2>1, ConcatEmptySeq
<1>2. <<u>> \o <<v>> = <<u, v>>
  <2> DEFINE one == <<u>>
             other == <<v>>
             both == <<u, v>>
             t == one \o other
  <2>1. /\ one \in Seq(Units) /\ Len(one) = 1 /\ one[1] = u
        /\ other \in Seq(Units) /\ Len(other) = 1 /\ other[1] = v
        /\ both \in Seq(Units) /\ Len(both) = 2 /\ both[1] = u /\ both[2] = v
    OBVIOUS
  <2> HIDE DEF one, other, both
  <2>2. /\ t \in Seq(Units) /\ Len(t) = 2
        /\ \A i \in 1 .. 2 : t[i] = IF i <= 1 THEN one[i] ELSE other[i - 1]
    BY <2>1, ConcatProperties
  <2> HIDE DEF t
  <2>3. \A i \in 1 .. 2 : t[i] = both[i]
    BY <2>1, <2>2
  <2>4. t = both
    BY <2>1, <2>2, <2>3, SeqEqual
  <2> QED
    BY <2>4 DEF t, one, other, both
<1>3. <<u>> # <<>> /\ Head(<<u>>) = u /\ Tail(<<u>>) = <<>>
  OBVIOUS
<1>4. <<u, v>> # <<>> /\ Head(<<u, v>>) = u /\ Tail(<<u, v>>) = <<v>>
  OBVIOUS
<1> QED
  BY <1>1, <1>2, <1>3, <1>4

\* An endpoint of the dialogue is known by four fields.
LEMMA DialogueFields ==
    ASSUME NEW state, NEW phase, NEW role, NEW names
    PROVE  LET e == InDialogue(state, phase, role, names)
           IN  /\ e.state = state /\ e.layer = "sasl" /\ e.phase = phase /\ e.role = role
               /\ e.mechanisms = names /\ e.localLimits = APriori /\ e.remoteLimits = APriori
  BY DEF InDialogue

\* An endpoint in the SASL layer whose limits are those every peer has is one
\* of the dialogue.
LEMMA DialogueKnown ==
    ASSUME NEW e \in Endpoints, e.layer = "sasl",
           e.localLimits = APriori, e.remoteLimits = APriori
    PROVE  e = InDialogue(e.state, e.phase, e.role, e.mechanisms)
  BY DEF InDialogue, Endpoints

\* Where an admitted frame takes an endpoint of the dialogue.
DialogueLed(e, out, f, c) ==
    /\ f.body = "mechanisms" =>
           /\ out  => c = InDialogue(e.state, "mechanismsKnown", "server", f.names)
           /\ ~out => c = InDialogue(e.state, "mechanismsKnown", "client", f.names)
    /\ f.body = "init" => c = InDialogue(e.state, "awaitingOutcome", e.role, e.mechanisms)
    /\ f.body \in {"challenge", "response"} => c = e
    /\ f.body = "outcome" => c = InitialEndpoint

\* An admitted frame takes an endpoint of the dialogue where DialogueLed says.
LEMMA DialogueMoves ==
    \A state, phase, role, names : \A e \in Endpoints, out \in BOOLEAN, f \in SaslFrames :
        e = InDialogue(state, phase, role, names) /\ SaslAdmits(e, out, f)
            => DialogueLed(e, out, f, AfterSasl(e, out, f))
<1> SUFFICES ASSUME NEW state, NEW phase, NEW role, NEW names, NEW e \in Endpoints,
                    e = InDialogue(state, phase, role, names),
                    NEW out \in BOOLEAN, NEW f \in SaslFrames, SaslAdmits(e, out, f)
             PROVE  DialogueLed(e, out, f, AfterSasl(e, out, f))
  OBVIOUS
<1> DEFINE c == AfterSasl(e, out, f)
<1>1. /\ c \in Endpoints
      /\ f.body = "outcome" => c = InitialEndpoint
      /\ f.body # "outcome" =>
             /\ c.state = e.state /\ c.layer = e.layer
             /\ c.localLimits = e.localLimits /\ c.remoteLimits = e.remoteLimits
      /\ f.body = "mechanisms" =>
             /\ c.phase = "mechanismsKnown" /\ c.mechanisms = f.names
             /\ c.role = IF out THEN "server" ELSE "client"
      /\ f.body = "init" =>
             /\ c.phase = "awaitingOutcome"
             /\ c.mechanisms = e.mechanisms /\ c.role = e.role
      /\ f.body \in {"challenge", "response"} => c = e
  BY SaslMove
<1>2. /\ e.state = state /\ e.layer = "sasl" /\ e.phase = phase /\ e.role = role
      /\ e.mechanisms = names /\ e.localLimits = APriori /\ e.remoteLimits = APriori
  BY DialogueFields
<1> HIDE DEF c
<1>3. f.body \in {"mechanisms", "init"} =>
          c = InDialogue(c.state, c.phase, c.role, c.mechanisms)
  BY <1>1, <1>2, DialogueKnown
<1>4. /\ f.body = "mechanisms" =>
             /\ out  => c = InDialogue(e.state, "mechanismsKnown", "server", f.names)
             /\ ~out => c = InDialogue(e.state, "mechanismsKnown", "client", f.names)
      /\ f.body = "init" => c = InDialogue(e.state, "awaitingOutcome", e.role, e.mechanisms)
  BY <1>1, <1>2, <1>3
<1>5. DialogueLed(e, out, f, c)
  BY <1>1, <1>4 DEF DialogueLed
<1> QED
  BY <1>5 DEF c

\* Who may say which frame of the dialogue, and when: the columns of the
\* dialogue and the applications' discipline together.
DialogueTurn(p, e, f) ==
    /\ f \in SaslFrames /\ f.size <= MinMaxFrameSize /\ f.complete
    /\ \/ /\ p = "server" /\ f.body = "mechanisms"
          /\ e.phase = "awaitingMechanisms" /\ f.names # {}
       \/ /\ p = "client" /\ f.body = "init"
          /\ e.phase = "mechanismsKnown" /\ \E m \in e.mechanisms : f.names = {m}
       \/ /\ p = "server" /\ f.body = "challenge"
          /\ e.phase = "awaitingOutcome"
          /\ ~app[p].owes /\ app[p].challenges < MaxChallenges
       \/ /\ p = "client" /\ f.body = "response"
          /\ e.phase = "awaitingOutcome" /\ app[p].owes
       \/ /\ p = "server" /\ f.body = "outcome"
          /\ e.phase = "awaitingOutcome" /\ ~app[p].owes

\* A frame that the dialogue admits and the discipline allows is said in turn.
LEMMA DialogueTurns ==
    ASSUME NEW p \in Peers, NEW e, NEW f \in SaslFrames,
           SaslAdmits(e, TRUE, f), Disciplined(p, f)
    PROVE  DialogueTurn(p, e, f) /\ first = "sasl"
<1>1. f.kind = "frame" /\ f.body \in SaslBodies
  BY DEF SaslFrames
<1>2. first = "sasl" /\ SaslTurn(p, f)
  BY <1>1 DEF Disciplined
<1>3. /\ f.body \in {"mechanisms", "outcome"} => p = "server" /\ ~app[p].owes
      /\ f.body = "challenge" =>
             p = "server" /\ ~app[p].owes /\ app[p].challenges < MaxChallenges
      /\ f.body = "init" => p = "client"
      /\ f.body = "response" => p = "client" /\ app[p].owes
  BY <1>2 DEF SaslTurn
<1> QED
  BY <1>1, <1>2, <1>3 DEF SaslAdmits, DialogueTurn

\* What a peer of the dialogue may say: nothing that changes anything, an
\* outcome that ends it, or a frame whose turn it is.
LEMMA DialogueSends ==
    ASSUME Shaped, NEW p \in Peers, NEW u \in Units, Submit(p, u),
           NEW state, NEW phase, NEW role, NEW names,
           conn[p] = InDialogue(state, phase, role, names),
           state \notin HeaderSenders
    PROVE  /\ Shaped'
           /\ \/ UNCHANGED vars
              \/ /\ DialogueTurn(p, conn[p], u) /\ u.body = "outcome" /\ u.code # "ok"
                 /\ Denied(p)
              \/ /\ DialogueTurn(p, conn[p], u) /\ (u.body = "outcome" => u.code = "ok")
                 /\ SaslAdmits(conn[p], TRUE, u)
                 /\ Said(p, u, AfterSasl(conn[p], TRUE, u))
<1> DEFINE e == conn[p]
           r == Sending(e, u)
<1>1. e.state = state /\ e.layer = "sasl"
  BY DialogueFields
<1>2. /\ Shaped' /\ Disciplined(p, u)
      /\ \/ UNCHANGED vars
         \/ Denies(e, u, r) /\ Denied(p)
         \/ Takes(e, u, r) /\ Said(p, u, r.conn)
  BY SubmitForms
<1> HIDE DEF r
<1>3. CASE Denies(e, u, r) /\ Denied(p)
  <2>1. u \in SaslFrames /\ SaslAdmits(e, TRUE, u) /\ u.body = "outcome" /\ u.code # "ok"
    BY <1>3, Zenon DEF Denies
  <2> QED
    BY <1>2, <1>3, <2>1, DialogueTurns
<1>4. CASE Takes(e, u, r) /\ Said(p, u, r.conn)
  <2>1. ~HeaderTaken(e, TRUE, u, r) /\ ~FrameTaken(e, TRUE, u, r)
    BY <1>1 DEF HeaderTaken, FrameTaken
  <2>2. SaslTaken(e, TRUE, u, r) /\ (u.body = "outcome" => u.code = "ok")
    BY <1>4, <2>1, Zenon DEF Takes
  <2>3. u \in SaslFrames /\ SaslAdmits(e, TRUE, u) /\ r.conn = AfterSasl(e, TRUE, u)
    BY <2>2, Zenon DEF SaslTaken
  <2>4. DialogueTurn(p, e, u)
    BY <1>2, <2>3, DialogueTurns
  <2> QED
    BY <1>2, <1>4, <2>2, <2>3, <2>4
<1> QED
  BY <1>2, <1>3, <1>4

\* A frame that the dialogue admits is heard.
LEMMA DialogueHears ==
    ASSUME NEW e \in Endpoints, NEW f \in SaslFrames,
           e.layer = "sasl", e.state \notin HeaderReceivers,
           SaslAdmits(e, FALSE, f), f.body = "outcome" => f.code = "ok"
    PROVE  LET r == Arriving(e, f)
           IN  r.ok /\ r.wrote = <<>> /\ r.conn = AfterSasl(e, FALSE, f)
<1> DEFINE r == Arriving(e, f)
<1>1. f.kind = "frame" /\ f.body # "none"
  BY DEF SaslFrames, SaslBodies
<1>2. r = StepSaslFrame(e, FALSE, f)
  BY <1>1 DEF Arriving, StepFrame
<1>3. r = Taken(AfterSasl(e, FALSE, f), <<>>)
  BY <1>2 DEF StepSaslFrame
<1> HIDE DEF r
<1>4. r.ok /\ r.wrote = <<>> /\ r.conn = AfterSasl(e, FALSE, f)
  BY <1>3 DEF Taken
<1> QED
  BY <1>4 DEF r

\* The core at p takes the unit u when it comes, answers nothing, and is at c.
Welcomes(p, u, c) ==
    LET r == Arriving(conn[p], u)
    IN  r.ok /\ r.wrote = <<>> /\ r.conn = c /\ c \in Endpoints

\* A frame that the dialogue admits is welcome.
LEMMA WelcomesFrame ==
    ASSUME NEW p \in Peers, NEW f \in SaslFrames, conn[p] \in Endpoints,
           NEW state, NEW phase, NEW role, NEW names,
           conn[p] = InDialogue(state, phase, role, names), state \notin HeaderReceivers,
           SaslAdmits(conn[p], FALSE, f), f.body = "outcome" => f.code = "ok"
    PROVE  Welcomes(p, f, AfterSasl(conn[p], FALSE, f))
<1> DEFINE e == conn[p]
           r == Arriving(e, f)
<1>1. e.layer = "sasl" /\ e.state = state
  BY DialogueFields
<1>2. r.ok /\ r.wrote = <<>> /\ r.conn = AfterSasl(e, FALSE, f)
  BY <1>1, DialogueHears
<1>3. AfterSasl(e, FALSE, f) \in Endpoints
  BY SaslMove
<1> QED
  BY <1>2, <1>3, Zenon DEF Welcomes

\* The two states of a peer in the dialogue that are not alike in the table.
LEMMA DialogueStates ==
    /\ \A state \in {"HDR_EXCH", "END"} : state \notin HeaderSenders /\ state \notin HeaderReceivers
    /\ "HDR_SENT" \notin HeaderSenders
    /\ AwaitingHeader("sasl") = InDialogue("HDR_SENT", "absent", "none", {})
    /\ ServerStates \subseteq {"HDR_EXCH", "END"} /\ "HDR_EXCH" \in ServerStates
<1>1. \A state \in {"HDR_EXCH", "END"} : state \notin HeaderSenders /\ state \notin HeaderReceivers
  BY DEF HeaderSenders, HeaderReceivers
<1>2. "HDR_SENT" \notin HeaderSenders
  BY DEF HeaderSenders
<1>3. AwaitingHeader("sasl") = InDialogue("HDR_SENT", "absent", "none", {})
  BY DEF AwaitingHeader, InDialogue, InitialEndpoint
<1>4. ServerStates \subseteq {"HDR_EXCH", "END"} /\ "HDR_EXCH" \in ServerStates
  BY DEF ServerStates
<1> QED
  BY <1>1, <1>2, <1>3, <1>4

\* Every unit of a dialogue is welcome where the dialogue brings it.
LEMMA WelcomesHeader ==
    ASSUME NEW p \in Peers, conn[p] \in Endpoints, conn[p] = AwaitingHeader("sasl")
    PROVE  Welcomes(p, Header("sasl"), InDialogue("HDR_EXCH", "awaitingMechanisms", "none", {}))
<1> DEFINE e == conn[p]
           u == Header("sasl")
           r == Arriving(e, u)
           c == AfterHeader(e, FALSE, "sasl")
<1>1. /\ e.state = "HDR_SENT" /\ e.layer = "sasl" /\ e.phase = "absent"
      /\ e.role = "none" /\ e.mechanisms = {}
      /\ e.localLimits = APriori /\ e.remoteLimits = APriori
  BY DialogueStates, DialogueFields
<1>2. r = StepHeader(e, FALSE, "sasl") /\ e.state \in HeaderReceivers
  BY <1>1 DEF Arriving, HeaderReceivers, Header
<1>3. r = Taken(c, <<>>)
  BY <1>1, <1>2 DEF StepHeader, AfterHeader, LayerAgrees
<1>4. c \in Endpoints /\ c = InDialogue("HDR_EXCH", "awaitingMechanisms", "none", {})
  <2>1. /\ c \in Endpoints /\ c.state = HeaderReceived(e.state) /\ c.layer = "sasl"
        /\ c.phase = IF c.state = "HDR_EXCH" /\ e.phase = "absent"
                     THEN "awaitingMechanisms" ELSE e.phase
        /\ c.role = e.role /\ c.mechanisms = e.mechanisms
        /\ c.localLimits = e.localLimits /\ c.remoteLimits = e.remoteLimits
    BY HeaderMove DEF Layers
  <2> HIDE DEF c
  <2>2. c.state = "HDR_EXCH"
    BY <1>1, <2>1 DEF HeaderReceived
  <2>3. c = InDialogue(c.state, c.phase, c.role, c.mechanisms)
    BY <1>1, <2>1, DialogueKnown
  <2> QED
    BY <1>1, <2>1, <2>2, <2>3
<1> HIDE DEF r, c
<1>5. r.ok /\ r.wrote = <<>> /\ r.conn = c
  BY <1>3 DEF Taken
<1> QED
  BY <1>4, <1>5 DEF Welcomes, r

\* Each frame of the dialogue is welcome to the peer it is for, at its phase.
LEMMA WelcomesTurns ==
    ASSUME NEW p \in Peers, conn[p] \in Endpoints, NEW f \in SaslFrames,
           NEW state \in {"HDR_EXCH", "END"}, NEW names
    PROVE  /\ /\ GoodSasl(f, "mechanisms") /\ f.names # {}
              /\ conn[p] = InDialogue(state, "awaitingMechanisms", "none", {})
              => Welcomes(p, f, InDialogue(state, "mechanismsKnown", "client", f.names))
           /\ /\ GoodSasl(f, "init") /\ (\E m \in names : f.names = {m})
              /\ conn[p] = InDialogue(state, "mechanismsKnown", "server", names)
              => Welcomes(p, f, InDialogue(state, "awaitingOutcome", "server", names))
           /\ /\ GoodSasl(f, "challenge")
              /\ conn[p] = InDialogue(state, "awaitingOutcome", "client", names)
              => Welcomes(p, f, conn[p])
           /\ /\ GoodSasl(f, "response")
              /\ conn[p] = InDialogue(state, "awaitingOutcome", "server", names)
              => Welcomes(p, f, conn[p])
           /\ /\ GoodSasl(f, "outcome") /\ f.code = "ok"
              /\ conn[p] = InDialogue(state, "awaitingOutcome", "client", names)
              => Welcomes(p, f, InitialEndpoint)
<1> DEFINE e == conn[p]
<1>1. state \notin HeaderReceivers
  BY DialogueStates
<1>2. ASSUME GoodSasl(f, "mechanisms"), f.names # {},
             e = InDialogue(state, "awaitingMechanisms", "none", {})
      PROVE  Welcomes(p, f, InDialogue(state, "mechanismsKnown", "client", f.names))
  <2>1. SaslAdmits(e, FALSE, f) /\ f.body = "mechanisms"
    BY <1>2, DialogueFields DEF SaslAdmits, GoodSasl, SaslBodies
  <2>2. DialogueLed(e, FALSE, f, AfterSasl(e, FALSE, f))
    BY <1>2, <2>1, DialogueMoves, FALSE \in BOOLEAN, Zenon
  <2>3. AfterSasl(e, FALSE, f) = InDialogue(state, "mechanismsKnown", "client", f.names)
    <3>1. e.state = state /\ e.role = "none" /\ e.mechanisms = {}
      BY <1>2, DialogueFields
    <3> QED
      BY <2>1, <2>2, <3>1 DEF DialogueLed
  <2> QED
    BY <1>1, <1>2, <2>1, <2>3, WelcomesFrame
<1>3. ASSUME GoodSasl(f, "init"), \E m \in names : f.names = {m},
             e = InDialogue(state, "mechanismsKnown", "server", names)
      PROVE  Welcomes(p, f, InDialogue(state, "awaitingOutcome", "server", names))
  <2>1. SaslAdmits(e, FALSE, f) /\ f.body = "init"
    BY <1>3, DialogueFields DEF SaslAdmits, GoodSasl, SaslBodies
  <2>2. DialogueLed(e, FALSE, f, AfterSasl(e, FALSE, f))
    BY <1>3, <2>1, DialogueMoves, FALSE \in BOOLEAN, Zenon
  <2>3. AfterSasl(e, FALSE, f) = InDialogue(state, "awaitingOutcome", "server", names)
    <3>1. e.state = state /\ e.role = "server" /\ e.mechanisms = names
      BY <1>3, DialogueFields
    <3> QED
      BY <2>1, <2>2, <3>1 DEF DialogueLed
  <2> QED
    BY <1>1, <1>3, <2>1, <2>3, WelcomesFrame
<1>4. ASSUME GoodSasl(f, "challenge"), e = InDialogue(state, "awaitingOutcome", "client", names)
      PROVE  Welcomes(p, f, e)
  <2>1. SaslAdmits(e, FALSE, f) /\ f.body = "challenge"
    BY <1>4, DialogueFields DEF SaslAdmits, GoodSasl, SaslBodies
  <2>2. DialogueLed(e, FALSE, f, AfterSasl(e, FALSE, f))
    BY <1>4, <2>1, DialogueMoves, FALSE \in BOOLEAN, Zenon
  <2>3. AfterSasl(e, FALSE, f) = e
    BY <1>4, <2>1, <2>2, DialogueFields DEF DialogueLed
  <2> QED
    BY <1>1, <1>4, <2>1, <2>3, WelcomesFrame
<1>5. ASSUME GoodSasl(f, "response"), e = InDialogue(state, "awaitingOutcome", "server", names)
      PROVE  Welcomes(p, f, e)
  <2>1. SaslAdmits(e, FALSE, f) /\ f.body = "response"
    BY <1>5, DialogueFields DEF SaslAdmits, GoodSasl, SaslBodies
  <2>2. DialogueLed(e, FALSE, f, AfterSasl(e, FALSE, f))
    BY <1>5, <2>1, DialogueMoves, FALSE \in BOOLEAN, Zenon
  <2>3. AfterSasl(e, FALSE, f) = e
    BY <1>5, <2>1, <2>2, DialogueFields DEF DialogueLed
  <2> QED
    BY <1>1, <1>5, <2>1, <2>3, WelcomesFrame
<1>6. ASSUME GoodSasl(f, "outcome"), f.code = "ok",
             e = InDialogue(state, "awaitingOutcome", "client", names)
      PROVE  Welcomes(p, f, InitialEndpoint)
  <2>1. SaslAdmits(e, FALSE, f) /\ f.body = "outcome"
    BY <1>6, DialogueFields DEF SaslAdmits, GoodSasl, SaslBodies, SaslCodes
  <2>2. DialogueLed(e, FALSE, f, AfterSasl(e, FALSE, f))
    BY <1>6, <2>1, DialogueMoves, FALSE \in BOOLEAN, Zenon
  <2>3. AfterSasl(e, FALSE, f) = InitialEndpoint
    BY <1>6, <2>1, <2>2, DialogueFields DEF DialogueLed
  <2> QED
    BY <1>1, <1>6, <2>1, <2>3, WelcomesFrame
<1> QED
  BY <1>2, <1>3, <1>4, <1>5, <1>6

\* A unit that is welcome is heard.
LEMMA WelcomeDelivers ==
    ASSUME Shaped, NEW p \in Peers, Deliver(p), NEW c, Welcomes(p, Head(wire[p]), c)
    PROVE  Shaped' /\ Heard(p, c)
  BY DeliverForms DEF Welcomes

-----------------------------------------------------------------------------
(* The steps of each mode of the dialogue. *)

Acts(p) == \/ \E u \in Headers \cup Offered[p] : Submit(p, u)
           \/ Deliver(p)

\* What an application submits is a unit, and only its own frames are SASL.
LEMMA OfferedUnits ==
    ASSUME NEW p \in Peers, NEW u \in Headers \cup Offered[p]
    PROVE  u \in Units /\ (u \in SaslFrames => u \in Offered[p])
<1>1. Offered[p] \subseteq Frames
  BY PairAssumption
<1>2. u \in Units
  BY <1>1 DEF Units
<1>3. u \in SaslFrames => u \notin Headers
  BY DEF SaslFrames, Headers
<1> QED
  BY <1>2, <1>3

\* p says u in its turn, and is at c; or u ends it, unheard.
Turns(p, u, c) ==
    /\ u \in Offered[p] /\ DialogueTurn(p, conn[p], u)
    /\ \/ u.body = "outcome" /\ u.code # "ok" /\ Denied(p)
       \/ /\ u.body = "outcome" => u.code = "ok"
          /\ DialogueLed(conn[p], TRUE, u, c) /\ Said(p, u, c)

\* A peer of the dialogue that submits changes nothing or takes its turn.
LEMMA DialogueActs ==
    ASSUME Shaped, NEW p \in Peers, Acts(p), ~Deliver(p),
           NEW state, NEW phase, NEW role, NEW names,
           conn[p] = InDialogue(state, phase, role, names), state \notin HeaderSenders
    PROVE  Shaped' /\ (UNCHANGED vars \/ \E u, c : Turns(p, u, c))
<1> DEFINE e == conn[p]
<1>1. PICK u \in Headers \cup Offered[p] : Submit(p, u)
  BY DEF Acts
<1>2. u \in Units /\ (u \in SaslFrames => u \in Offered[p]) /\ e \in Endpoints
  BY OfferedUnits DEF Shaped
<1> DEFINE c == AfterSasl(e, TRUE, u)
<1>3. /\ Shaped'
      /\ \/ UNCHANGED vars
         \/ /\ DialogueTurn(p, e, u) /\ u.body = "outcome" /\ u.code # "ok"
            /\ Denied(p)
         \/ /\ DialogueTurn(p, e, u) /\ (u.body = "outcome" => u.code = "ok")
            /\ SaslAdmits(e, TRUE, u)
            /\ Said(p, u, c)
  BY <1>1, <1>2, DialogueSends
<1>4. CASE /\ DialogueTurn(p, e, u) /\ (u.body = "outcome" => u.code = "ok")
           /\ SaslAdmits(e, TRUE, u)
           /\ Said(p, u, c)
  <2>1. u \in SaslFrames
    BY <1>4 DEF DialogueTurn
  <2>2. DialogueLed(e, TRUE, u, c)
    BY <1>2, <1>4, <2>1, DialogueMoves, TRUE \in BOOLEAN, Zenon
  <2>3. Turns(p, u, c)
    BY <1>2, <1>4, <2>1, <2>2, Zenon DEF Turns
  <2> QED
    BY <1>3, <2>3
<1>5. CASE /\ DialogueTurn(p, e, u) /\ u.body = "outcome" /\ u.code # "ok"
           /\ Denied(p)
  <2>1. u \in SaslFrames
    BY <1>5 DEF DialogueTurn
  <2>2. Turns(p, u, c)
    BY <1>2, <1>5, <2>1, Zenon DEF Turns
  <2> QED
    BY <1>3, <2>2
<1> QED
  BY <1>3, <1>4, <1>5

\* What a frame said in its turn is, by who says it and at which phase.
LEMMA TurnIs ==
    ASSUME NEW p \in Peers, NEW u, NEW c, Turns(p, u, c)
    PROVE  /\ conn[p].phase # "absent"
           /\ conn[p].phase = "awaitingMechanisms" => p = "server"
           /\ conn[p].phase = "mechanismsKnown" =>
                  /\ p = "client" /\ GoodSasl(u, "init")
                  /\ \E m \in conn[p].mechanisms : u.names = {m}
           /\ conn[p].phase = "awaitingOutcome" =>
                  \/ /\ p = "client" /\ app[p].owes /\ GoodSasl(u, "response")
                  \/ /\ p = "server" /\ ~app[p].owes
                     /\ \/ GoodSasl(u, "challenge") /\ app[p].challenges < MaxChallenges
                        \/ GoodSasl(u, "outcome")
  BY DEF Turns, DialogueTurn, GoodSasl

\* While the mechanisms are on their way, the client hears the header, if it
\* has still to, and then them.
LEMMA AnnouncingStep ==
    ASSUME Shaped, Announcing, NEW p \in Peers
    PROVE  /\ wire[p] # <<>> => Arriving(conn[p], Head(wire[p])).ok
           /\ Acts(p) => Shaped' /\ (UNCHANGED vars \/ Announcing' \/ Choosing')
<1>1. PICK f \in Offered["server"] :
          /\ GoodSasl(f, "mechanisms") /\ f.names # {}
          /\ conn["server"] = InDialogue("HDR_EXCH", "mechanismsKnown", "server", f.names)
          /\ \/ /\ conn["client"] = AwaitingHeader("sasl")
                /\ wire["client"] = <<Header("sasl"), f>>
             \/ /\ conn["client"] = InDialogue("HDR_EXCH", "awaitingMechanisms", "none", {})
                /\ wire["client"] = <<f>>
  BY DEF Announcing
<1>2. wire["server"] = <<>> /\ Talking(FALSE, FALSE, 0)
  BY DEF Announcing
<1>3. /\ f \in SaslFrames /\ f \in Units /\ Header("sasl") \in Units /\ f.kind = "frame"
      /\ f.body = "mechanisms" /\ f.names \in SUBSET Mechanisms
  BY <1>1 DEF GoodSasl, Units, Frames, Header, Headers, Layers, SaslFrames
<1>4. conn["client"] \in Endpoints /\ "client" \in Peers /\ "server" \in Peers
  BY DEF Shaped, Peers
<1>5. CASE /\ conn["client"] = AwaitingHeader("sasl")
           /\ wire["client"] = <<Header("sasl"), f>>
  <2>1. Head(wire["client"]) = Header("sasl") /\ Tail(wire["client"]) = <<f>>
    BY <1>3, <1>5, ShortStreams
  <2> DEFINE c == InDialogue("HDR_EXCH", "awaitingMechanisms", "none", {})
  <2>2. Welcomes("client", Header("sasl"), c)
    BY <1>4, <1>5, WelcomesHeader
  <2> SUFFICES ASSUME Acts(p)
               PROVE  Shaped' /\ (UNCHANGED vars \/ Announcing' \/ Choosing')
    BY <1>2, <2>1, <2>2 DEF Welcomes, Peers
  <2>3. CASE Deliver(p)
    <3>1. p = "client"
      BY <1>2, <2>3 DEF Deliver, Peers
    <3>2. Shaped' /\ Heard("client", c)
      BY <1>4, <2>1, <2>2, <2>3, <3>1, WelcomeDelivers
    <3>3. Remembering(app["client"], Header("sasl")) = app["client"]
      BY RemembersNothing DEF Header
    <3>4. /\ conn'["client"] = c /\ conn'["server"] = conn["server"]
          /\ app'["client"] = app["client"] /\ app'["server"] = app["server"] /\ first' = first
          /\ wire'["client"] = <<f>> /\ wire'["server"] = <<>>
      BY <1>2, <2>1, <3>2, <3>3, Sides DEF Heard, Becomes
    <3>5. Announcing'
      BY <1>1, <1>2, <3>4 DEF Announcing, Talking
    <3> QED
      BY <3>2, <3>5
  <2>4. CASE ~Deliver(p)
    <3>1. \E state \in {"HDR_SENT", "HDR_EXCH"}, phase \in {"absent", "mechanismsKnown"} : \E role, names :
              /\ conn[p] = InDialogue(state, phase, role, names)
              /\ phase = "mechanismsKnown" => p = "server"
      BY <1>1, <1>5, DialogueStates DEF Peers
    <3>2. PICK state \in {"HDR_SENT", "HDR_EXCH"}, phase \in {"absent", "mechanismsKnown"} : \E role, names :
              /\ conn[p] = InDialogue(state, phase, role, names)
              /\ phase = "mechanismsKnown" => p = "server"
      BY <3>1
    <3>3. state \notin HeaderSenders
      BY DialogueStates
    <3>4. Shaped' /\ (UNCHANGED vars \/ \E u, c1 : Turns(p, u, c1))
      BY <2>4, <3>2, <3>3, DialogueActs
    <3>5. conn[p].phase = phase
      BY <3>2, DialogueFields
    <3>6. UNCHANGED vars
      BY <3>2, <3>4, <3>5, TurnIs
    <3> QED
      BY <3>4, <3>6
  <2> QED
    BY <2>3, <2>4
<1>6. CASE /\ conn["client"] = InDialogue("HDR_EXCH", "awaitingMechanisms", "none", {})
           /\ wire["client"] = <<f>>
  <2>1. Head(wire["client"]) = f /\ Tail(wire["client"]) = <<>>
    BY <1>3, <1>6, ShortStreams
  <2> DEFINE c == InDialogue("HDR_EXCH", "mechanismsKnown", "client", f.names)
  <2>2. Welcomes("client", f, c)
    BY <1>1, <1>3, <1>4, <1>6, WelcomesTurns
  <2> SUFFICES ASSUME Acts(p)
               PROVE  Shaped' /\ (UNCHANGED vars \/ Announcing' \/ Choosing')
    BY <1>2, <2>1, <2>2 DEF Welcomes, Peers
  <2>3. CASE Deliver(p)
    <3>1. p = "client"
      BY <1>2, <2>3 DEF Deliver, Peers
    <3>2. Shaped' /\ Heard("client", c)
      BY <1>4, <2>1, <2>2, <2>3, <3>1, WelcomeDelivers
    <3>3. Remembering(app["client"], f) = app["client"]
      BY <1>3, RemembersNothing
    <3>4. /\ conn'["client"] = c /\ conn'["server"] = conn["server"]
          /\ app'["client"] = app["client"] /\ app'["server"] = app["server"] /\ first' = first
          /\ wire'["client"] = <<>> /\ wire'["server"] = <<>>
      BY <1>2, <2>1, <3>2, <3>3, Sides DEF Heard, Becomes
    <3>5. Choosing'
      BY <1>1, <1>2, <1>3, <3>4 DEF Choosing, Together, Talking
    <3> QED
      BY <3>2, <3>5
  <2>4. CASE ~Deliver(p)
    <3>1. PICK phase \in {"awaitingMechanisms", "mechanismsKnown"} : \E role, names :
              /\ conn[p] = InDialogue("HDR_EXCH", phase, role, names)
              /\ p = IF phase = "mechanismsKnown" THEN "server" ELSE "client"
      BY <1>1, <1>6 DEF Peers
    <3>2. "HDR_EXCH" \notin HeaderSenders
      BY DialogueStates
    <3>3. Shaped' /\ (UNCHANGED vars \/ \E u, c1 : Turns(p, u, c1))
      BY <2>4, <3>1, <3>2, DialogueActs
    <3>4. conn[p].phase = phase
      BY <3>1, DialogueFields
    <3>5. UNCHANGED vars
      BY <3>1, <3>3, <3>4, TurnIs
    <3> QED
      BY <3>3, <3>5
  <2> QED
    BY <2>3, <2>4
<1> QED
  BY <1>1, <1>5, <1>6

\* The endpoints of the other modes.
LEMMA TogetherIs ==
    ASSUME NEW clientPhase, NEW serverPhase, NEW states, states \subseteq ServerStates,
           Together(clientPhase, serverPhase, states)
    PROVE  \E names \in SUBSET Mechanisms, state \in states :
               /\ conn["client"] = InDialogue("HDR_EXCH", clientPhase, "client", names)
               /\ conn["server"] = InDialogue(state, serverPhase, "server", names)
               /\ state \in {"HDR_EXCH", "END"}
               /\ conn["client"].phase = clientPhase /\ conn["server"].phase = serverPhase
               /\ conn["client"].mechanisms = names /\ conn["client"].role = "client"
               /\ conn["client"].state = "HDR_EXCH"
               /\ conn["server"].mechanisms = names /\ conn["server"].role = "server"
               /\ conn["server"].state = state
<1>1. PICK names \in SUBSET Mechanisms, state \in states :
          /\ conn["client"] = InDialogue("HDR_EXCH", clientPhase, "client", names)
          /\ conn["server"] = InDialogue(state, serverPhase, "server", names)
  BY DEF Together
<1>2. state \in {"HDR_EXCH", "END"}
  BY DialogueStates
<1>3. /\ conn["client"].phase = clientPhase /\ conn["server"].phase = serverPhase
      /\ conn["client"].mechanisms = names /\ conn["client"].role = "client"
      /\ conn["client"].state = "HDR_EXCH"
      /\ conn["server"].mechanisms = names /\ conn["server"].role = "server"
      /\ conn["server"].state = state
  BY <1>1, DialogueFields
<1> QED
  BY <1>1, <1>2, <1>3

\* Their submissions are what DialogueActs says.
LEMMA TogetherActs ==
    ASSUME Shaped, NEW p \in Peers, Acts(p), ~Deliver(p),
           NEW clientPhase, NEW serverPhase, NEW states, states \subseteq ServerStates,
           Together(clientPhase, serverPhase, states)
    PROVE  Shaped' /\ (UNCHANGED vars \/ \E u, c : Turns(p, u, c))
<1>1. PICK names \in SUBSET Mechanisms, state \in states :
          /\ conn["client"] = InDialogue("HDR_EXCH", clientPhase, "client", names)
          /\ conn["server"] = InDialogue(state, serverPhase, "server", names)
          /\ state \in {"HDR_EXCH", "END"}
  BY TogetherIs
<1>2. state \notin HeaderSenders /\ "HDR_EXCH" \notin HeaderSenders
  BY <1>1, DialogueStates
<1>3. CASE p = "client"
  BY <1>1, <1>2, <1>3, DialogueActs
<1>4. CASE p = "server"
  BY <1>1, <1>2, <1>4, DialogueActs
<1> QED
  BY <1>3, <1>4 DEF Peers

\* What both applications remember while they talk.
LEMMA TalkingIs ==
    ASSUME NEW clientOwes, NEW serverOwes, NEW ahead,
           Talking(clientOwes, serverOwes, ahead)
    PROVE  /\ first = "sasl"
           /\ ~app["client"].authenticated /\ ~app["server"].authenticated
           /\ app["client"].owes = clientOwes /\ app["server"].owes = serverOwes
           /\ \E n \in Nat : /\ n + ahead <= MaxChallenges
                             /\ app["client"] = Memory(FALSE, clientOwes, n)
                             /\ app["server"] = Memory(FALSE, serverOwes, n + ahead)
                             /\ app["server"].challenges = n + ahead
<1>1. PICK n \in Nat : /\ n + ahead <= MaxChallenges
                       /\ app["client"] = Memory(FALSE, clientOwes, n)
                       /\ app["server"] = Memory(FALSE, serverOwes, n + ahead)
  BY DEF Talking
<1>2. /\ ~app["client"].authenticated /\ ~app["server"].authenticated
      /\ app["client"].owes = clientOwes /\ app["server"].owes = serverOwes
      /\ app["server"].challenges = n + ahead
  <2>1. /\ app["client"] = Memory(FALSE, clientOwes, n)
        /\ app["server"] = Memory(FALSE, serverOwes, n + ahead)
    BY <1>1
  <2>2. ~app["client"].authenticated /\ ~app["server"].authenticated
    BY <2>1 DEF Memory
  <2>3. app["client"].owes = clientOwes /\ app["server"].owes = serverOwes
    BY <2>1 DEF Memory
  <2>4. app["server"].challenges = n + ahead
    BY <2>1 DEF Memory
  <2> QED
    BY <2>2, <2>3, <2>4
<1> QED
  BY <1>1, <1>2 DEF Talking

\* Both know the mechanisms: only the client's init leads on.
LEMMA ChoosingStep ==
    ASSUME Shaped, Choosing, NEW p \in Peers
    PROVE  /\ wire[p] = <<>>
           /\ Acts(p) => Shaped' /\ (UNCHANGED vars \/ Initiating')
<1>1. /\ Together("mechanismsKnown", "mechanismsKnown", {"HDR_EXCH"})
      /\ Talking(FALSE, FALSE, 0)
      /\ wire["client"] = <<>> /\ wire["server"] = <<>> /\ wire[p] = <<>>
  BY DEF Choosing, Peers
<1>2. {"HDR_EXCH"} \subseteq ServerStates
  BY DialogueStates
<1>3. PICK names \in SUBSET Mechanisms, state \in {"HDR_EXCH"} :
          /\ conn["client"] = InDialogue("HDR_EXCH", "mechanismsKnown", "client", names)
          /\ conn["server"] = InDialogue(state, "mechanismsKnown", "server", names)
          /\ conn["client"].phase = "mechanismsKnown" /\ conn["server"].phase = "mechanismsKnown"
          /\ conn["client"].mechanisms = names /\ conn["client"].role = "client"
          /\ conn["client"].state = "HDR_EXCH"
  BY <1>1, <1>2, TogetherIs
<1> SUFFICES ASSUME Acts(p)
             PROVE  Shaped' /\ (UNCHANGED vars \/ Initiating')
  BY <1>1
<1>4. Shaped' /\ (UNCHANGED vars \/ \E u, c : Turns(p, u, c))
  BY <1>1, <1>2, TogetherActs DEF Deliver
<1>5. ASSUME NEW u, NEW c, Turns(p, u, c)
      PROVE  Initiating'
  <2>1. /\ p = "client" /\ GoodSasl(u, "init") /\ u \in Offered["client"]
        /\ \E m \in names : u.names = {m}
    BY <1>3, <1>5, TurnIs DEF Turns, Peers
  <2>2. u \in Units /\ u.body = "init" /\ u \in SaslFrames
    BY <2>1 DEF GoodSasl, Units, Frames
  <2>3. Said("client", u, c) /\ DialogueLed(conn["client"], TRUE, u, c)
    BY <1>5, <2>1, <2>2 DEF Turns
  <2>4. c = InDialogue("HDR_EXCH", "awaitingOutcome", "client", names)
    BY <1>3, <2>2, <2>3 DEF DialogueLed
  <2>5. c.mechanisms = names
    BY <2>4, DialogueFields
  <2>6. Remembering(app["client"], u) = app["client"]
    BY <2>2, RemembersNothing
  <2>7. <<>> \o <<u>> = <<u>>
    BY <2>2, ShortStreams
  <2>8. /\ conn'["client"] = c /\ conn'["server"] = conn["server"]
        /\ app'["client"] = app["client"] /\ app'["server"] = app["server"] /\ first' = first
        /\ wire'["client"] = <<>> /\ wire'["server"] = <<u>>
    BY <1>1, <2>3, <2>6, <2>7, Sides DEF Said, Becomes
  <2>9. Talking(FALSE, FALSE, 0)'
    BY <1>1, <2>8 DEF Talking
  <2>10. Together("awaitingOutcome", "mechanismsKnown", {"HDR_EXCH"})'
    BY <1>3, <2>4, <2>8 DEF Together
  <2> QED
    BY <2>1, <2>5, <2>8, <2>9, <2>10 DEF Initiating
<1> QED
  BY <1>4, <1>5

\* While the init is on its way, only its arrival leads on.
LEMMA InitiatingStep ==
    ASSUME Shaped, Initiating, NEW p \in Peers
    PROVE  /\ wire[p] # <<>> => Arriving(conn[p], Head(wire[p])).ok
           /\ Acts(p) => Shaped' /\ (UNCHANGED vars \/ Undecided')
<1>1. /\ Together("awaitingOutcome", "mechanismsKnown", {"HDR_EXCH"})
      /\ Talking(FALSE, FALSE, 0) /\ wire["client"] = <<>>
  BY DEF Initiating
<1>2. {"HDR_EXCH"} \subseteq ServerStates /\ "HDR_EXCH" \in ServerStates
  BY DialogueStates
<1>3. PICK names \in SUBSET Mechanisms, state \in {"HDR_EXCH"} :
          /\ conn["client"] = InDialogue("HDR_EXCH", "awaitingOutcome", "client", names)
          /\ conn["server"] = InDialogue(state, "mechanismsKnown", "server", names)
          /\ conn["client"].phase = "awaitingOutcome" /\ conn["server"].phase = "mechanismsKnown"
          /\ conn["client"].mechanisms = names
  BY <1>1, <1>2, TogetherIs
<1>4. PICK f \in Offered["client"] : /\ GoodSasl(f, "init") /\ wire["server"] = <<f>>
                                     /\ \E m \in names : f.names = {m}
  BY <1>3 DEF Initiating
<1>5. f \in SaslFrames /\ f \in Units /\ f.body = "init"
  BY <1>4 DEF GoodSasl, Units, Frames
<1>6. Head(wire["server"]) = f /\ Tail(wire["server"]) = <<>>
  BY <1>4, <1>5, ShortStreams
<1>7. conn["server"] \in Endpoints /\ "server" \in Peers
  BY DEF Shaped, Peers
<1> DEFINE c == InDialogue("HDR_EXCH", "awaitingOutcome", "server", names)
<1>8. Welcomes("server", f, c)
  BY <1>3, <1>4, <1>5, <1>7, WelcomesTurns
<1>9. wire[p] # <<>> => Arriving(conn[p], Head(wire[p])).ok
  BY <1>1, <1>6, <1>8 DEF Welcomes, Peers
<1> SUFFICES ASSUME Acts(p)
             PROVE  Shaped' /\ (UNCHANGED vars \/ Undecided')
  BY <1>9
<1>10. CASE Deliver(p)
  <2>1. p = "server"
    BY <1>1, <1>10 DEF Deliver, Peers
  <2>2. Shaped' /\ Heard("server", c)
    BY <1>6, <1>7, <1>8, <1>10, <2>1, WelcomeDelivers
  <2>3. Remembering(app["server"], f) = app["server"]
    BY <1>5, RemembersNothing
  <2>4. /\ conn'["server"] = c /\ conn'["client"] = conn["client"]
        /\ app'["client"] = app["client"] /\ app'["server"] = app["server"] /\ first' = first
        /\ wire'["client"] = <<>> /\ wire'["server"] = <<>>
    BY <1>1, <1>6, <2>2, <2>3, Sides DEF Heard, Becomes
  <2>5. Talking(FALSE, FALSE, 0)' /\ Together("awaitingOutcome", "awaitingOutcome", ServerStates)'
    BY <1>1, <1>2, <1>3, <2>4 DEF Talking, Together
  <2> QED
    BY <2>2, <2>4, <2>5 DEF Undecided
<1>11. CASE ~Deliver(p)
  <2>1. Shaped' /\ (UNCHANGED vars \/ \E u, c1 : Turns(p, u, c1))
    BY <1>1, <1>2, <1>11, TogetherActs
  <2>2. ~app["client"].owes
    BY <1>1, TalkingIs, Zenon
  <2>3. UNCHANGED vars
    BY <1>3, <2>1, <2>2, TurnIs DEF Peers
  <2> QED
    BY <2>1, <2>3
<1> QED
  BY <1>10, <1>11

\* The modes in which the client has named its mechanism.
LEMMA NamedIs ==
    ASSUME Together("awaitingOutcome", "awaitingOutcome", ServerStates), Shaped
    PROVE  /\ conn["client"].phase = "awaitingOutcome" /\ conn["server"].phase = "awaitingOutcome"
           /\ conn["client"] \in Endpoints /\ conn["server"] \in Endpoints
           /\ "client" \in Peers /\ "server" \in Peers
           /\ \E names \in SUBSET Mechanisms, state \in ServerStates :
                  /\ state \in {"HDR_EXCH", "END"}
                  /\ conn["client"] = InDialogue("HDR_EXCH", "awaitingOutcome", "client", names)
                  /\ conn["server"] = InDialogue(state, "awaitingOutcome", "server", names)
<1>1. ServerStates \subseteq ServerStates
  OBVIOUS
<1>2. PICK names \in SUBSET Mechanisms, state \in ServerStates :
          /\ conn["client"] = InDialogue("HDR_EXCH", "awaitingOutcome", "client", names)
          /\ conn["server"] = InDialogue(state, "awaitingOutcome", "server", names)
          /\ state \in {"HDR_EXCH", "END"}
          /\ conn["client"].phase = "awaitingOutcome" /\ conn["server"].phase = "awaitingOutcome"
  BY <1>1, TogetherIs
<1> QED
  BY <1>2 DEF Shaped, Peers

\* Nothing is owed: the server challenges, decides, or ends in silence.
LEMMA UndecidedStep ==
    ASSUME Shaped, Undecided, NEW p \in Peers
    PROVE  /\ wire[p] = <<>>
           /\ Acts(p) => /\ Shaped'
                         /\ \/ UNCHANGED vars \/ Undecided' \/ Challenging'
                            \/ Decided' /\ conn'["server"] = InitialEndpoint
<1>1. /\ Together("awaitingOutcome", "awaitingOutcome", ServerStates)
      /\ Talking(FALSE, FALSE, 0)
      /\ wire["client"] = <<>> /\ wire["server"] = <<>> /\ wire[p] = <<>>
  BY DEF Undecided, Peers
<1>2. PICK names \in SUBSET Mechanisms, state \in ServerStates :
          /\ state \in {"HDR_EXCH", "END"}
          /\ conn["client"] = InDialogue("HDR_EXCH", "awaitingOutcome", "client", names)
          /\ conn["server"] = InDialogue(state, "awaitingOutcome", "server", names)
  BY <1>1, NamedIs
<1>3. /\ conn["client"].phase = "awaitingOutcome" /\ conn["server"].phase = "awaitingOutcome"
      /\ conn["server"] \in Endpoints
  BY <1>1, NamedIs
<1> SUFFICES ASSUME Acts(p)
             PROVE  /\ Shaped'
                    /\ \/ UNCHANGED vars \/ Undecided' \/ Challenging'
                       \/ Decided' /\ conn'["server"] = InitialEndpoint
  BY <1>1
<1>4. Shaped' /\ (UNCHANGED vars \/ \E u, c : Turns(p, u, c))
  <2>1. ServerStates \subseteq ServerStates
    OBVIOUS
  <2> QED
    BY <1>1, <2>1, TogetherActs DEF Deliver
<1>5. ~app["client"].owes /\ first = "sasl"
  BY <1>1, TalkingIs, Zenon
<1>6. PICK n \in Nat : /\ n <= MaxChallenges
                       /\ app["client"] = Memory(FALSE, FALSE, n)
                       /\ app["server"] = Memory(FALSE, FALSE, n)
                       /\ app["server"].challenges = n
  <2>1. PICK n \in Nat : /\ n + 0 <= MaxChallenges
                         /\ app["client"] = Memory(FALSE, FALSE, n)
                         /\ app["server"] = Memory(FALSE, FALSE, n + 0)
    BY <1>1 DEF Talking
  <2>2. n + 0 = n
    OBVIOUS
  <2>3. app["server"].challenges = n
    BY <2>1, <2>2 DEF Memory
  <2> QED
    BY <2>1, <2>2, <2>3
<1>7. ASSUME NEW u, NEW c, Turns(p, u, c)
      PROVE  Undecided' \/ Challenging' \/ (Decided' /\ conn'["server"] = InitialEndpoint)
  <2>1. /\ p = "server" /\ u \in Offered["server"]
        /\ \/ GoodSasl(u, "challenge") /\ app["server"].challenges < MaxChallenges
           \/ GoodSasl(u, "outcome")
    BY <1>3, <1>5, <1>7, TurnIs DEF Turns, Peers
  <2>2. u \in Units /\ u \in SaslFrames /\ u.kind = "frame"
    BY <2>1 DEF GoodSasl, Units, Frames, SaslFrames
  <2>3. <<>> \o <<u>> = <<u>>
    BY <2>2, ShortStreams
  <2>4. CASE u.body = "outcome" /\ u.code # "ok" /\ Denied(p)
    <3>1. /\ conn'["client"] = conn["client"]
          /\ conn'["server"] = [conn["server"] EXCEPT !.state = "END"]
          /\ app'["client"] = app["client"] /\ app'["server"] = app["server"] /\ first' = first
          /\ wire'["client"] = <<>> /\ wire'["server"] = <<>>
      BY <1>1, <2>1, <2>4, Sides DEF Denied, Becomes
    <3>2. "END" \in ServerStates
      <4>1. ~Accepting
        BY <2>1, <2>4 DEF Accepting, Peers
      <4> QED
        BY <4>1 DEF ServerStates
    <3>3. conn'["server"] = InDialogue("END", "awaitingOutcome", "server", names)
      BY <1>2, <3>1 DEF InDialogue
    <3>4. Together("awaitingOutcome", "awaitingOutcome", ServerStates)'
      BY <1>2, <3>1, <3>2, <3>3 DEF Together
    <3>5. Talking(FALSE, FALSE, 0)'
      BY <1>1, <3>1 DEF Talking
    <3> QED
      BY <3>1, <3>4, <3>5 DEF Undecided
  <2>5. CASE DialogueLed(conn[p], TRUE, u, c) /\ Said(p, u, c) /\ (u.body = "outcome" => u.code = "ok")
    <3>1. /\ conn'["client"] = conn["client"] /\ conn'["server"] = c
          /\ app'["client"] = app["client"]
          /\ app'["server"] = Remembering(app["server"], u) /\ first' = first
          /\ wire'["client"] = <<u>> /\ wire'["server"] = <<>>
      BY <1>1, <2>1, <2>3, <2>5, Sides DEF Said, Becomes
    <3>2. CASE GoodSasl(u, "challenge") /\ app["server"].challenges < MaxChallenges
      <4>1. c = conn["server"]
        BY <2>1, <2>5, <3>2 DEF DialogueLed, GoodSasl
      <4>2. u.body = "challenge"
        BY <3>2 DEF GoodSasl
      <4>3. app'["server"] = Memory(FALSE, TRUE, n + 1)
        <5>1. Remembering(Memory(FALSE, FALSE, n), u) = Memory(FALSE, TRUE, n + 1)
          BY <2>2, <4>2, Remembers
        <5> QED
          BY <1>6, <3>1, <5>1, Zenon
      <4>4. n + 1 <= MaxChallenges
        <5>1. n < MaxChallenges /\ MaxChallenges \in Nat
          BY <1>6, <3>2, PairAssumption
        <5> QED
          BY <5>1
      <4>5. Talking(FALSE, TRUE, 1)'
        BY <1>5, <1>6, <3>1, <4>3, <4>4, Zenon DEF Talking
      <4>6. Together("awaitingOutcome", "awaitingOutcome", ServerStates)'
        BY <1>1, <3>1, <4>1 DEF Together
      <4> QED
        BY <2>1, <3>1, <3>2, <4>5, <4>6 DEF Challenging
    <3>3. CASE GoodSasl(u, "outcome")
      <4>1. u.body = "outcome" /\ u.code = "ok" /\ c = InitialEndpoint
        BY <2>5, <3>3 DEF DialogueLed, GoodSasl
      <4>2. app'["server"] = Memory(TRUE, FALSE, n)
        <5>1. Remembering(Memory(FALSE, FALSE, n), u) = Memory(TRUE, FALSE, n)
          BY <2>2, <4>1, Remembers
        <5> QED
          BY <1>6, <3>1, <5>1, Zenon
      <4>3. n \in 0 .. MaxChallenges
        BY <1>6, PairAssumption
      <4>4. \E m \in 0 .. MaxChallenges : /\ app'["client"] = Memory(FALSE, FALSE, m)
                                          /\ app'["server"] = Memory(TRUE, FALSE, m)
        BY <1>6, <3>1, <4>2, <4>3, Zenon
      <4>5. Decided'
        BY <1>2, <1>5, <2>1, <3>1, <3>3, <4>1, <4>4 DEF Decided
      <4> QED
        BY <3>1, <4>1, <4>5
    <3> QED
      BY <2>1, <3>2, <3>3
  <2> QED
    BY <1>7, <2>4, <2>5 DEF Turns
<1>8. CASE UNCHANGED vars
  BY <1>4, <1>8
<1>9. CASE \E u, c : Turns(p, u, c)
  <2>1. Undecided' \/ Challenging' \/ (Decided' /\ conn'["server"] = InitialEndpoint)
    BY <1>7, <1>9, Zenon
  <2> QED
    BY <1>4, <2>1, Zenon
<1> QED
  BY <1>4, <1>8, <1>9

\* While a challenge is on its way, only its arrival leads on.
LEMMA ChallengingStep ==
    ASSUME Shaped, Challenging, NEW p \in Peers
    PROVE  /\ wire[p] # <<>> => Arriving(conn[p], Head(wire[p])).ok
           /\ Acts(p) => Shaped' /\ (UNCHANGED vars \/ Challenged')
<1>1. /\ Together("awaitingOutcome", "awaitingOutcome", ServerStates)
      /\ Talking(FALSE, TRUE, 1) /\ wire["server"] = <<>>
  BY DEF Challenging
<1>2. PICK names \in SUBSET Mechanisms, state \in ServerStates :
          /\ state \in {"HDR_EXCH", "END"}
          /\ conn["client"] = InDialogue("HDR_EXCH", "awaitingOutcome", "client", names)
          /\ conn["server"] = InDialogue(state, "awaitingOutcome", "server", names)
  BY <1>1, NamedIs
<1>3. /\ conn["client"].phase = "awaitingOutcome" /\ conn["server"].phase = "awaitingOutcome"
      /\ conn["client"] \in Endpoints /\ "client" \in Peers
  BY <1>1, NamedIs
<1>4. PICK f \in Offered["server"] : GoodSasl(f, "challenge") /\ wire["client"] = <<f>>
  BY DEF Challenging
<1>5. f \in SaslFrames /\ f \in Units /\ f.body = "challenge" /\ f.kind = "frame"
  BY <1>4 DEF GoodSasl, Units, Frames, SaslFrames
<1>6. Head(wire["client"]) = f /\ Tail(wire["client"]) = <<>>
  BY <1>4, <1>5, ShortStreams
<1>7. Welcomes("client", f, conn["client"])
  BY <1>2, <1>3, <1>4, <1>5, WelcomesTurns
<1>8. wire[p] # <<>> => Arriving(conn[p], Head(wire[p])).ok
  BY <1>1, <1>6, <1>7 DEF Welcomes, Peers
<1> SUFFICES ASSUME Acts(p)
             PROVE  Shaped' /\ (UNCHANGED vars \/ Challenged')
  BY <1>8
<1>9. ~app["client"].owes /\ app["server"].owes /\ first = "sasl"
  BY <1>1, TalkingIs, Zenon
<1>10. CASE Deliver(p)
  <2>1. p = "client"
    BY <1>1, <1>10 DEF Deliver, Peers
  <2>2. Shaped' /\ Heard("client", conn["client"])
    BY <1>3, <1>6, <1>7, <1>10, <2>1, WelcomeDelivers
  <2>3. /\ conn'["client"] = conn["client"] /\ conn'["server"] = conn["server"]
        /\ app'["client"] = Remembering(app["client"], f)
        /\ app'["server"] = app["server"] /\ first' = first
        /\ wire'["client"] = <<>> /\ wire'["server"] = <<>>
    BY <1>1, <1>6, <2>2, Sides DEF Heard, Becomes
  <2>4. PICK n \in Nat : /\ n + 1 <= MaxChallenges
                         /\ app["client"] = Memory(FALSE, FALSE, n)
                         /\ app["server"] = Memory(FALSE, TRUE, n + 1)
    BY <1>1 DEF Talking
  <2>5. app'["client"] = Memory(FALSE, TRUE, n + 1)
    BY <1>5, <2>3, <2>4, Remembers
  <2>6. n + 1 \in Nat /\ (n + 1) + 0 = n + 1
    OBVIOUS
  <2>7. Talking(TRUE, TRUE, 0)'
    BY <1>9, <2>3, <2>4, <2>5, <2>6, Zenon DEF Talking
  <2>8. Together("awaitingOutcome", "awaitingOutcome", ServerStates)'
    BY <1>1, <2>3 DEF Together
  <2> QED
    BY <2>2, <2>3, <2>7, <2>8 DEF Challenged
<1>11. CASE ~Deliver(p)
  <2>1. Shaped' /\ (UNCHANGED vars \/ \E u, c : Turns(p, u, c))
    <3>1. ServerStates \subseteq ServerStates
      OBVIOUS
    <3> QED
      BY <1>1, <1>11, <3>1, TogetherActs
  <2>2. UNCHANGED vars
    BY <1>3, <1>9, <2>1, TurnIs DEF Peers
  <2> QED
    BY <2>1, <2>2
<1> QED
  BY <1>10, <1>11

\* A challenge was heard: only the client's response leads on.
LEMMA ChallengedStep ==
    ASSUME Shaped, Challenged, NEW p \in Peers
    PROVE  /\ wire[p] = <<>>
           /\ Acts(p) => Shaped' /\ (UNCHANGED vars \/ Responding')
<1>1. /\ Together("awaitingOutcome", "awaitingOutcome", ServerStates)
      /\ Talking(TRUE, TRUE, 0)
      /\ wire["client"] = <<>> /\ wire["server"] = <<>> /\ wire[p] = <<>>
  BY DEF Challenged, Peers
<1>2. conn["client"].phase = "awaitingOutcome" /\ conn["server"].phase = "awaitingOutcome"
  BY <1>1, NamedIs
<1> SUFFICES ASSUME Acts(p)
             PROVE  Shaped' /\ (UNCHANGED vars \/ Responding')
  BY <1>1
<1>3. Shaped' /\ (UNCHANGED vars \/ \E u, c : Turns(p, u, c))
  <2>1. ServerStates \subseteq ServerStates
    OBVIOUS
  <2> QED
    BY <1>1, <2>1, TogetherActs DEF Deliver
<1>4. app["server"].owes /\ first = "sasl"
  BY <1>1, TalkingIs, Zenon
<1>5. ASSUME NEW u, NEW c, Turns(p, u, c)
      PROVE  Responding'
  <2>1. p = "client" /\ u \in Offered["client"] /\ GoodSasl(u, "response")
    BY <1>2, <1>4, <1>5, TurnIs DEF Turns, Peers
  <2>2. u \in Units /\ u \in SaslFrames /\ u.kind = "frame" /\ u.body = "response"
    BY <2>1 DEF GoodSasl, Units, Frames, SaslFrames
  <2>3. <<>> \o <<u>> = <<u>>
    BY <2>2, ShortStreams
  <2>4. Said("client", u, c) /\ c = conn["client"]
    BY <1>5, <2>1, <2>2 DEF Turns, DialogueLed
  <2>5. /\ conn'["client"] = conn["client"] /\ conn'["server"] = conn["server"]
        /\ app'["client"] = Remembering(app["client"], u)
        /\ app'["server"] = app["server"] /\ first' = first
        /\ wire'["client"] = <<>> /\ wire'["server"] = <<u>>
    BY <1>1, <2>3, <2>4, Sides DEF Said, Becomes
  <2>6. PICK n \in Nat : /\ n + 0 <= MaxChallenges
                         /\ app["client"] = Memory(FALSE, TRUE, n)
                         /\ app["server"] = Memory(FALSE, TRUE, n + 0)
    BY <1>1 DEF Talking
  <2>7. app'["client"] = Memory(FALSE, FALSE, n)
    BY <2>2, <2>5, <2>6, Remembers
  <2>8. Talking(FALSE, TRUE, 0)'
    BY <1>4, <2>5, <2>6, <2>7, Zenon DEF Talking
  <2>9. Together("awaitingOutcome", "awaitingOutcome", ServerStates)'
    BY <1>1, <2>5 DEF Together
  <2> QED
    BY <2>1, <2>5, <2>8, <2>9 DEF Responding
<1> QED
  BY <1>3, <1>5

\* While a response is on its way, only its arrival leads on.
LEMMA RespondingStep ==
    ASSUME Shaped, Responding, NEW p \in Peers
    PROVE  /\ wire[p] # <<>> => Arriving(conn[p], Head(wire[p])).ok
           /\ Acts(p) => Shaped' /\ (UNCHANGED vars \/ Undecided')
<1>1. /\ Together("awaitingOutcome", "awaitingOutcome", ServerStates)
      /\ Talking(FALSE, TRUE, 0) /\ wire["client"] = <<>>
  BY DEF Responding
<1>2. PICK names \in SUBSET Mechanisms, state \in ServerStates :
          /\ state \in {"HDR_EXCH", "END"}
          /\ conn["client"] = InDialogue("HDR_EXCH", "awaitingOutcome", "client", names)
          /\ conn["server"] = InDialogue(state, "awaitingOutcome", "server", names)
  BY <1>1, NamedIs
<1>3. /\ conn["client"].phase = "awaitingOutcome" /\ conn["server"].phase = "awaitingOutcome"
      /\ conn["server"] \in Endpoints /\ "server" \in Peers
  BY <1>1, NamedIs
<1>4. PICK f \in Offered["client"] : GoodSasl(f, "response") /\ wire["server"] = <<f>>
  BY DEF Responding
<1>5. f \in SaslFrames /\ f \in Units /\ f.body = "response" /\ f.kind = "frame"
  BY <1>4 DEF GoodSasl, Units, Frames, SaslFrames
<1>6. Head(wire["server"]) = f /\ Tail(wire["server"]) = <<>>
  BY <1>4, <1>5, ShortStreams
<1>7. Welcomes("server", f, conn["server"])
  BY <1>2, <1>3, <1>4, <1>5, WelcomesTurns
<1>8. wire[p] # <<>> => Arriving(conn[p], Head(wire[p])).ok
  BY <1>1, <1>6, <1>7 DEF Welcomes, Peers
<1> SUFFICES ASSUME Acts(p)
             PROVE  Shaped' /\ (UNCHANGED vars \/ Undecided')
  BY <1>8
<1>9. ~app["client"].owes /\ app["server"].owes /\ first = "sasl"
  BY <1>1, TalkingIs, Zenon
<1>10. CASE Deliver(p)
  <2>1. p = "server"
    BY <1>1, <1>10 DEF Deliver, Peers
  <2>2. Shaped' /\ Heard("server", conn["server"])
    BY <1>3, <1>6, <1>7, <1>10, <2>1, WelcomeDelivers
  <2>3. /\ conn'["client"] = conn["client"] /\ conn'["server"] = conn["server"]
        /\ app'["server"] = Remembering(app["server"], f)
        /\ app'["client"] = app["client"] /\ first' = first
        /\ wire'["client"] = <<>> /\ wire'["server"] = <<>>
    BY <1>1, <1>6, <2>2, Sides DEF Heard, Becomes
  <2>4. PICK n \in Nat : /\ n + 0 <= MaxChallenges
                         /\ app["client"] = Memory(FALSE, FALSE, n)
                         /\ app["server"] = Memory(FALSE, TRUE, n + 0)
    BY <1>1 DEF Talking
  <2>5. app'["server"] = Memory(FALSE, FALSE, n + 0)
    BY <1>5, <2>3, <2>4, Remembers
  <2>6. Talking(FALSE, FALSE, 0)'
    BY <1>9, <2>3, <2>4, <2>5, Zenon DEF Talking
  <2>7. Together("awaitingOutcome", "awaitingOutcome", ServerStates)'
    BY <1>1, <2>3 DEF Together
  <2> QED
    BY <2>2, <2>3, <2>6, <2>7 DEF Undecided
<1>11. CASE ~Deliver(p)
  <2>1. Shaped' /\ (UNCHANGED vars \/ \E u, c : Turns(p, u, c))
    <3>1. ServerStates \subseteq ServerStates
      OBVIOUS
    <3> QED
      BY <1>1, <1>11, <3>1, TogetherActs
  <2>2. UNCHANGED vars
    BY <1>3, <1>9, <2>1, TurnIs DEF Peers
  <2> QED
    BY <2>1, <2>2
<1> QED
  BY <1>10, <1>11

-----------------------------------------------------------------------------
(* Where an exchange begins. *)

\* A peer that has said and heard nothing, and one that has said its header.
LEMMA ExchangeBegins ==
    ASSUME NEW layer \in Layers
    PROVE  /\ Exchanging(InitialEndpoint, layer)
           /\ SaidBy(InitialEndpoint.state) = 0 /\ HeardBy(InitialEndpoint.state) = 0
           /\ InitialEndpoint.localLimits = APriori
           /\ Exchanging(AwaitingHeader(layer), layer)
           /\ SaidBy(AwaitingHeader(layer).state) = 1 /\ HeardBy(AwaitingHeader(layer).state) = 0
           /\ AwaitingHeader(layer).localLimits = APriori
<1>1. /\ InitialEndpoint.state = "START" /\ InitialEndpoint.layer = "amqp"
      /\ InitialEndpoint.phase = "absent"
      /\ InitialEndpoint.role = "none" /\ InitialEndpoint.mechanisms = {}
      /\ InitialEndpoint.localLimits = APriori /\ InitialEndpoint.remoteLimits = APriori
  BY DEF InitialEndpoint
<1>2. LET e == AwaitingHeader(layer)
      IN  /\ e.state = "HDR_SENT" /\ e.layer = layer /\ e.phase = "absent"
          /\ e.role = "none" /\ e.mechanisms = {}
          /\ e.localLimits = APriori /\ e.remoteLimits = APriori
  BY DEF AwaitingHeader
<1>3. APriori.maxFrameSize >= MinMaxFrameSize
  BY ConnectionAssumption DEF APriori
<1>4. Exchanging(InitialEndpoint, layer)
  BY <1>1, <1>3 DEF Exchanging, Staged
<1>5. Exchanging(AwaitingHeader(layer), layer)
  BY <1>2, <1>3 DEF Exchanging, Staged
<1> QED
  BY <1>1, <1>2, <1>4, <1>5, Stages

\* A stream before anything was said, and one that holds the first header.
LEMMA CarriesFirst ==
    ASSUME NEW layer \in Layers
    PROVE  /\ Carries(<<>>, 0, 0, layer, APriori, APriori)
           /\ Carries(<<Header(layer)>>, 0, 1, layer, APriori, APriori)
<1>1. Header(layer) \in Units
  BY DEF Header, Units, Headers
<1>2. Carries(<<>>, 0, 0, layer, APriori, APriori)
  BY DEF Carries
<1>3. Carries(<<Header(layer)>>, 0, 1, layer, APriori, APriori)
  BY <1>1 DEF Carries
<1> QED
  BY <1>2, <1>3

-----------------------------------------------------------------------------
(* The outcome: the server is where it was before the headers, and begins the *)
(* second exchange before the client knows.                                   *)

\* A server that has decided may only begin again, with its AMQP header.
LEMMA DecidedSays ==
    ASSUME ~Pipelined, Shaped, NEW u \in Headers \cup Offered["server"], Submit("server", u),
           app["server"].authenticated,
           conn["server"] \in {InitialEndpoint, AwaitingHeader("amqp")}
    PROVE  /\ Shaped'
           /\ \/ UNCHANGED vars
              \/ /\ conn["server"] = InitialEndpoint
                 /\ u = Header("amqp")
                 /\ Said("server", u, AwaitingHeader("amqp"))
<1> DEFINE e == conn["server"]
           r == Sending(e, u)
           c == r.conn
<1>1. "server" \in Peers /\ u \in Units /\ e \in Endpoints
  BY OfferedUnits DEF Shaped, Peers
<1>2. /\ Shaped' /\ Disciplined("server", u)
      /\ \/ UNCHANGED vars
         \/ Denies(e, u, r) /\ Denied("server")
         \/ Takes(e, u, r) /\ Said("server", u, c)
  BY <1>1, SubmitForms
<1>3. /\ e.state \in {"START", "HDR_SENT"} /\ e.layer = "amqp" /\ e.phase = "absent"
      /\ e.role = "none" /\ e.mechanisms = {}
      /\ e.localLimits = APriori /\ e.remoteLimits = APriori
      /\ e.state = "START" => e = InitialEndpoint
  BY DEF InitialEndpoint, AwaitingHeader
<1> HIDE DEF r
<1>4. ~Denies(e, u, r)
  BY <1>3 DEF Denies
<1>5. CASE Takes(e, u, r) /\ Said("server", u, c)
  <2>1. ~SaslTaken(e, TRUE, u, r)
    BY <1>3 DEF SaslTaken
  <2>2. ~FrameTaken(e, TRUE, u, r)
    <3> SUFFICES ASSUME FrameTaken(e, TRUE, u, r) PROVE FALSE
      OBVIOUS
    <3>1. u.kind = "frame" /\ PermitsSend(e.state, u.body)
      BY FrameRole DEF FrameTaken, Permits
    <3>2. u.body = "open" /\ e.state = "HDR_SENT"
      BY <1>3, <3>1 DEF PermitsSend, OpenSenders, ConformingSenders, AnySenders
    <3> QED
      BY <1>2, <3>1, <3>2 DEF Disciplined
  <2>3. HeaderTaken(e, TRUE, u, r)
    BY <1>5, <2>1, <2>2, Zenon DEF Takes
  <2>4. HeaderLed(e, TRUE, u, c)
    BY <1>1, <2>3, HeaderLeads, Zenon
  <2>5. e.state = "START" /\ u.kind = "header" /\ u \in Headers
    BY <1>3, <2>3 DEF HeaderTaken, HeaderSenders, Headers
  <2>6. u.layer = "amqp"
    BY <1>2, <2>5 DEF Disciplined, LayerWanted
  <2>7. u = Header("amqp")
    BY <2>5, <2>6 DEF Headers, Header
  <2>8. c \in Endpoints /\ c = AwaitingHeader("amqp")
    BY <1>3, <2>4, <2>5, <2>6 DEF HeaderLed, HeaderSent, AwaitingHeader, Endpoints
  <2> QED
    BY <1>2, <1>3, <1>5, <2>5, <2>7, <2>8
<1> QED
  BY <1>2, <1>4, <1>5

\* The outcome is on its way: the server says its header, or the client hears
\* the outcome and the second exchange has begun on both sides.
LEMMA DecidedStep ==
    ASSUME ~Pipelined, Shaped, Decided, NEW p \in Peers
    PROVE  /\ wire[p] # <<>> => Arriving(conn[p], Head(wire[p])).ok
           /\ Acts(p) => /\ Shaped'
                         /\ \/ UNCHANGED vars
                            \/ /\ Decided'
                               /\ conn["server"] = InitialEndpoint
                               /\ conn'["server"] = AwaitingHeader("amqp")
                            \/ /\ Exchange("amqp")'
                               /\ conn'["client"] = InitialEndpoint
                               /\ conn'["server"] = conn["server"]
<1>1. "client" \in Peers /\ "server" \in Peers /\ conn["client"] \in Endpoints
      /\ "amqp" \in Layers
  BY DEF Shaped, Peers, Layers
<1>2. PICK n \in 0 .. MaxChallenges : /\ app["client"] = Memory(FALSE, FALSE, n)
                                      /\ app["server"] = Memory(TRUE, FALSE, n)
  BY DEF Decided
<1>3. PICK names \in SUBSET Mechanisms :
          conn["client"] = InDialogue("HDR_EXCH", "awaitingOutcome", "client", names)
  BY DEF Decided
<1>4. PICK f \in Offered["server"] :
          /\ GoodSasl(f, "outcome") /\ f.code = "ok"
          /\ \/ conn["server"] = InitialEndpoint /\ wire["client"] = <<f>>
             \/ /\ conn["server"] = AwaitingHeader("amqp")
                /\ wire["client"] = <<f, Header("amqp")>>
  BY DEF Decided
<1>5. first = "sasl" /\ wire["server"] = <<>>
  BY DEF Decided
<1>6. app["server"].authenticated /\ ~app["client"].owes
  BY <1>2, MemoryFields, Zenon
<1>7. f \in SaslFrames /\ f \in Units /\ f.body = "outcome" /\ f.kind = "frame"
  BY <1>4 DEF GoodSasl, Units, Frames, SaslFrames
<1>8. Header("amqp") \in Units /\ Header("amqp").kind = "header"
  BY <1>1 DEF Header, Units, Headers
<1>9. /\ Head(wire["client"]) = f
      /\ Tail(wire["client"]) = IF conn["server"] = InitialEndpoint THEN <<>> ELSE <<Header("amqp")>>
  <2>1. AwaitingHeader("amqp") # InitialEndpoint
    BY DEF AwaitingHeader, InitialEndpoint
  <2> QED
    BY <1>4, <1>7, <1>8, <2>1, ShortStreams
<1>10. Welcomes("client", f, InitialEndpoint)
  BY <1>1, <1>3, <1>4, <1>7, WelcomesTurns
<1>11. wire[p] # <<>> => Arriving(conn[p], Head(wire[p])).ok
  BY <1>5, <1>9, <1>10 DEF Welcomes, Peers
<1> SUFFICES ASSUME Acts(p)
             PROVE  /\ Shaped'
                    /\ \/ UNCHANGED vars
                       \/ /\ Decided'
                          /\ conn["server"] = InitialEndpoint
                          /\ conn'["server"] = AwaitingHeader("amqp")
                       \/ /\ Exchange("amqp")'
                          /\ conn'["client"] = InitialEndpoint
                          /\ conn'["server"] = conn["server"]
  BY <1>11
<1>12. CASE Deliver(p)
  <2>1. p = "client"
    BY <1>5, <1>12 DEF Deliver, Peers
  <2>2. Shaped' /\ Heard("client", InitialEndpoint)
    BY <1>1, <1>9, <1>10, <1>12, <2>1, WelcomeDelivers
  <2>3. /\ conn'["client"] = InitialEndpoint /\ conn'["server"] = conn["server"]
        /\ app'["client"] = Remembering(app["client"], f)
        /\ app'["server"] = app["server"] /\ first' = first
        /\ wire'["client"] = Tail(wire["client"]) /\ wire'["server"] = <<>>
    BY <1>5, <1>9, <2>2, Sides DEF Heard, Becomes
  <2>4. app'["client"] = Memory(TRUE, FALSE, n)
    <3>1. Remembering(Memory(FALSE, FALSE, n), f) = Memory(TRUE, FALSE, n)
      BY <1>7, Remembers
    <3> QED
      BY <1>2, <2>3, <3>1, Zenon
  <2>5. \A x \in Peers : app'[x] = Memory(first' = "sasl" /\ "amqp" = "amqp", FALSE, n)
    <3> DEFINE b == first' = "sasl" /\ "amqp" = "amqp"
    <3>1. b = TRUE
      BY <1>5, <2>3
    <3>2. app'["server"] = Memory(TRUE, FALSE, n)
      BY <1>2, <2>3, Zenon
    <3>3. \A x \in Peers : app'[x] = Memory(TRUE, FALSE, n)
      BY <2>4, <3>2, Zenon DEF Peers
    <3> HIDE DEF b
    <3>4. \A x \in Peers : app'[x] = Memory(b, FALSE, n)
      BY <3>1, <3>3
    <3> QED
      BY <3>4, Zenon DEF b
  <2>6. \A x \in Peers : Exchanging(conn[x], "amqp")'
    BY <1>1, <1>4, <2>3, ExchangeBegins DEF Peers
  <2>7. Follows("client", "amqp")' /\ Follows("server", "amqp")'
    <3>1. /\ HeardBy(InitialEndpoint.state) = 0 /\ HeardBy(AwaitingHeader("amqp").state) = 0
          /\ SaidBy(InitialEndpoint.state) = 0 /\ SaidBy(AwaitingHeader("amqp").state) = 1
          /\ InitialEndpoint.localLimits = APriori
          /\ AwaitingHeader("amqp").localLimits = APriori
      BY <1>1, ExchangeBegins
    <3>2. /\ Carries(<<>>, 0, 0, "amqp", APriori, APriori)
          /\ Carries(<<Header("amqp")>>, 0, 1, "amqp", APriori, APriori)
      BY <1>1, CarriesFirst
    <3>3. AwaitingHeader("amqp") # InitialEndpoint
      BY DEF AwaitingHeader, InitialEndpoint
    <3> DEFINE start == InitialEndpoint
               sent == AwaitingHeader("amqp")
    <3>4. \/ conn'["server"] = start /\ wire'["client"] = <<>>
          \/ conn'["server"] = sent /\ wire'["client"] = <<Header("amqp")>>
      BY <1>4, <1>9, <2>3, <3>3
    <3>5. conn'["client"] = start /\ wire'["server"] = <<>>
      BY <2>3
    <3> HIDE DEF start, sent
    <3>6. CASE conn'["server"] = start /\ wire'["client"] = <<>>
      BY <3>1, <3>2, <3>5, <3>6, Sides DEF Follows, start, sent
    <3>7. CASE conn'["server"] = sent /\ wire'["client"] = <<Header("amqp")>>
      BY <3>1, <3>2, <3>5, <3>7, Sides DEF Follows, start, sent
    <3> QED
      BY <3>4, <3>6, <3>7
  <2>8. Exchange("amqp")'
    BY <2>5, <2>6, <2>7 DEF Exchange, Peers
  <2> QED
    BY <2>2, <2>3, <2>8
<1>13. CASE p = "client" /\ ~Deliver(p)
  <2>1. "HDR_EXCH" \notin HeaderSenders /\ conn["client"].phase = "awaitingOutcome"
    BY <1>3, DialogueStates, DialogueFields
  <2>2. Shaped' /\ (UNCHANGED vars \/ \E u, c : Turns(p, u, c))
    BY <1>3, <1>13, <2>1, DialogueActs
  <2>3. UNCHANGED vars
    BY <1>6, <1>13, <2>1, <2>2, TurnIs
  <2> QED
    BY <2>2, <2>3
<1>14. CASE p = "server" /\ ~Deliver(p)
  <2>1. PICK u \in Headers \cup Offered["server"] : Submit("server", u)
    BY <1>14 DEF Acts
  <2>2. /\ Shaped'
        /\ \/ UNCHANGED vars
           \/ /\ conn["server"] = InitialEndpoint
              /\ u = Header("amqp")
              /\ Said("server", u, AwaitingHeader("amqp"))
    BY <1>4, <1>6, <2>1, DecidedSays
  <2>3. CASE UNCHANGED vars
    BY <2>2, <2>3
  <2>4. CASE /\ conn["server"] = InitialEndpoint
             /\ u = Header("amqp")
             /\ Said("server", u, AwaitingHeader("amqp"))
    <3>1. wire["client"] = <<f>>
      <4>1. AwaitingHeader("amqp") # InitialEndpoint
        BY DEF AwaitingHeader, InitialEndpoint
      <4> QED
        BY <1>4, <2>4, <4>1
    <3>2. Remembering(app["server"], u) = app["server"]
      BY <1>8, <2>4, RemembersNothing
    <3>3. /\ conn'["client"] = conn["client"] /\ conn'["server"] = AwaitingHeader("amqp")
          /\ app'["client"] = app["client"] /\ app'["server"] = app["server"] /\ first' = first
          /\ wire'["client"] = <<f, Header("amqp")>> /\ wire'["server"] = <<>>
      BY <1>5, <1>7, <1>8, <2>4, <3>1, <3>2, Sides, ShortStreams DEF Said, Becomes
    <3>4. \E m \in 0 .. MaxChallenges : /\ app'["client"] = Memory(FALSE, FALSE, m)
                                        /\ app'["server"] = Memory(TRUE, FALSE, m)
      BY <1>2, <3>3, Zenon
    <3>5. Decided'
      BY <1>3, <1>4, <1>5, <3>3, <3>4 DEF Decided
    <3> QED
      BY <2>2, <2>4, <3>3, <3>5
  <2> QED
    BY <2>2, <2>3, <2>4
<1> QED
  BY <1>12, <1>13, <1>14 DEF Peers

-----------------------------------------------------------------------------
(* The announcement: the one frame of the dialogue a peer may send from an    *)
(* exchange.                                                                  *)

\* Where two peers are that exchange the headers of a dialogue, when one of
\* them has heard the other's and neither has announced.
LEMMA ExchangedHeaders ==
    ASSUME Shaped, Exchange("sasl"), conn["server"].phase = "awaitingMechanisms"
    PROVE  /\ conn["server"] = InDialogue("HDR_EXCH", "awaitingMechanisms", "none", {})
           /\ wire["server"] = <<>>
           /\ \/ /\ conn["client"] = AwaitingHeader("sasl")
                 /\ wire["client"] = <<Header("sasl")>>
              \/ /\ conn["client"] = InDialogue("HDR_EXCH", "awaitingMechanisms", "none", {})
                 /\ wire["client"] = <<>>
<1> USE Stages
<1> DEFINE e == conn["server"]
           d == conn["client"]
<1>1. /\ "client" \in Peers /\ "server" \in Peers
      /\ e \in Endpoints /\ d \in Endpoints /\ "sasl" \in Layers
  BY DEF Shaped, Peers, Layers
<1>2. /\ Exchanging(e, "sasl") /\ Exchanging(d, "sasl")
      /\ Follows("client", "sasl") /\ Follows("server", "sasl")
  BY <1>1 DEF Exchange
<1>3. e.state = "HDR_EXCH" /\ e.layer = "sasl" /\ e.role = "none" /\ e.mechanisms = {}
      /\ e.localLimits = APriori /\ e.remoteLimits = APriori
  BY <1>2 DEF Exchanging
<1>4. e = InDialogue("HDR_EXCH", "awaitingMechanisms", "none", {})
  BY <1>1, <1>3, DialogueKnown
<1>5. /\ Carries(wire["server"], 1, SaidBy(d.state), "sasl", APriori, d.localLimits)
      /\ Carries(wire["client"], HeardBy(d.state), 1, "sasl", d.localLimits, APriori)
  BY <1>2, <1>3, Sides DEF Follows
<1>6. SaidBy(d.state) \in 0..3 /\ SaidBy(d.state) <= 1
  BY <1>2, ExchangeStages
<1>7. SaidBy(d.state) = 1
  <2>1. 1 <= SaidBy(d.state)
    BY <1>5 DEF Carries
  <2> QED
    BY <1>6, <2>1
<1>8. wire["server"] = <<>>
  <2>1. wire["server"] \in Seq(Units) /\ Len(wire["server"]) = 0
    BY <1>5, <1>7 DEF Carries
  <2> QED
    BY <2>1, EmptySeq
<1>9. d.state = "HDR_SENT" \/ d.state = "HDR_EXCH"
  BY <1>2, <1>7 DEF Exchanging
<1>10. CASE d.state = "HDR_SENT"
  <2>1. /\ d.layer = "sasl" /\ d.phase = "absent" /\ d.role = "none" /\ d.mechanisms = {}
        /\ d.localLimits = APriori /\ d.remoteLimits = APriori
    BY <1>2, <1>10 DEF Exchanging
  <2>2. d = AwaitingHeader("sasl")
    BY <1>1, <1>10, <2>1, DialogueKnown, DialogueStates
  <2>3. /\ wire["client"] \in Seq(Units) /\ Len(wire["client"]) = 1
        /\ wire["client"][1] = Header("sasl")
    <3> DEFINE w == wire["client"]
    <3>1. Carries(w, 0, 1, "sasl", d.localLimits, APriori)
      BY <1>5, <1>10
    <3> HIDE DEF w
    <3>2. w \in Seq(Units) /\ Len(w) = 1
      BY <3>1 DEF Carries
    <3>3. 1 \in 1 .. Len(w)
      BY <3>2
    <3>4. w[1] = Header("sasl")
      BY <3>1, <3>3 DEF Carries
    <3> QED
      BY <3>2, <3>4 DEF w
  <2>4. wire["client"] = <<Header("sasl")>>
    BY <2>3
  <2> QED
    BY <1>4, <1>8, <2>2, <2>4
<1>11. CASE d.state = "HDR_EXCH"
  <2>1. /\ d.layer = "sasl" /\ d.phase = "awaitingMechanisms" /\ d.role = "none"
        /\ d.mechanisms = {} /\ d.localLimits = APriori /\ d.remoteLimits = APriori
    BY <1>2, <1>11 DEF Exchanging
  <2>2. d = InDialogue("HDR_EXCH", "awaitingMechanisms", "none", {})
    BY <1>1, <1>11, <2>1, DialogueKnown
  <2>3. wire["client"] \in Seq(Units) /\ Len(wire["client"]) = 0
    BY <1>5, <1>11 DEF Carries
  <2>4. wire["client"] = <<>>
    BY <2>3, EmptySeq
  <2> QED
    BY <1>4, <1>8, <2>2, <2>4
<1> QED
  BY <1>9, <1>10, <1>11

\* A SASL frame sent from an exchange is the server's announcement.
LEMMA ExchangeAnnounces ==
    ASSUME Shaped, NEW layer \in Layers, Exchange(layer), NEW p \in Peers, NEW u \in Offered[p],
           Disciplined(p, u), u \in SaslFrames, conn[p].layer = "sasl",
           SaslAdmits(conn[p], TRUE, u), Said(p, u, AfterSasl(conn[p], TRUE, u))
    PROVE  layer = "sasl" /\ Announcing'
<1> DEFINE e == conn[p]
           c == AfterSasl(e, TRUE, u)
<1>1. e \in Endpoints /\ Exchanging(e, layer)
  BY DEF Shaped, Exchange
<1>2. layer = "sasl" /\ e.phase \in {"absent", "awaitingMechanisms"}
  BY <1>1 DEF Exchanging
<1>3. DialogueTurn(p, e, u) /\ first = "sasl"
  BY DialogueTurns
<1>4. /\ p = "server" /\ u.body = "mechanisms" /\ e.phase = "awaitingMechanisms"
      /\ GoodSasl(u, "mechanisms") /\ u.names # {}
  BY <1>2, <1>3 DEF DialogueTurn, GoodSasl
<1>5. /\ e = InDialogue("HDR_EXCH", "awaitingMechanisms", "none", {})
      /\ wire["server"] = <<>>
      /\ \/ /\ conn["client"] = AwaitingHeader("sasl")
            /\ wire["client"] = <<Header("sasl")>>
         \/ /\ conn["client"] = InDialogue("HDR_EXCH", "awaitingMechanisms", "none", {})
            /\ wire["client"] = <<>>
  BY <1>2, <1>4, ExchangedHeaders
<1>6. c = InDialogue("HDR_EXCH", "mechanismsKnown", "server", u.names)
  <2>1. DialogueLed(e, TRUE, u, c)
    BY <1>1, <1>5, DialogueMoves, TRUE \in BOOLEAN, Zenon
  <2>2. e.state = "HDR_EXCH"
    BY <1>5, DialogueFields
  <2> QED
    BY <1>4, <2>1, <2>2 DEF DialogueLed
<1> HIDE DEF c
<1>7. u \in Units /\ Header("sasl") \in Units
  BY DEF Units, Frames, Headers, Header, Layers
<1>8. Remembering(app["server"], u) = app["server"]
  BY <1>4, RemembersNothing
<1>9. /\ conn'["client"] = conn["client"] /\ conn'["server"] = c
      /\ app'["client"] = app["client"] /\ app'["server"] = app["server"] /\ first' = first
      /\ wire'["client"] = wire["client"] \o <<u>> /\ wire'["server"] = <<>>
  BY <1>4, <1>5, <1>8, Sides DEF Said, Becomes, c
<1>10. \/ /\ conn'["client"] = AwaitingHeader("sasl")
          /\ wire'["client"] = <<Header("sasl"), u>>
       \/ /\ conn'["client"] = InDialogue("HDR_EXCH", "awaitingMechanisms", "none", {})
          /\ wire'["client"] = <<u>>
  <2>1. <<>> \o <<u>> = <<u>> /\ <<Header("sasl")>> \o <<u>> = <<Header("sasl"), u>>
    BY <1>7, ShortStreams
  <2> QED
    BY <1>5, <1>9, <2>1
<1>11. Talking(FALSE, FALSE, 0)'
  <2>1. PICK n \in 0 .. MaxChallenges : \A x \in Peers :
            app[x] = Memory(first = "sasl" /\ layer = "amqp", FALSE, n)
    BY DEF Exchange
  <2> DEFINE b == first = "sasl" /\ layer = "amqp"
  <2>2. b = FALSE
    BY <1>2
  <2>3. \A x \in Peers : app[x] = Memory(b, FALSE, n)
    BY <2>1
  <2> HIDE DEF b
  <2>4. \A x \in Peers : app[x] = Memory(FALSE, FALSE, n)
    BY <2>2, <2>3
  <2>5. "client" \in Peers /\ "server" \in Peers
    BY DEF Peers
  <2>6. app'["client"] = Memory(FALSE, FALSE, n) /\ app'["server"] = Memory(FALSE, FALSE, n)
    BY <1>9, <2>4, <2>5, Zenon
  <2>7. n \in Nat /\ n + 0 = n /\ n + 0 <= MaxChallenges
    BY <2>1, PairAssumption
  <2>8. first' = "sasl"
    BY <1>3, <1>9
  <2> QED
    BY <2>6, <2>7, <2>8, Zenon DEF Talking
<1>12. conn'["server"] = InDialogue("HDR_EXCH", "mechanismsKnown", "server", u.names)
  BY <1>6, <1>9
<1> QED
  BY <1>2, <1>4, <1>9, <1>10, <1>11, <1>12 DEF Announcing

\* Every step of an exchange.
LEMMA ExchangeStep ==
    ASSUME Orderly, Shaped, NEW layer \in Layers, Exchange(layer), NEW p \in Peers
    PROVE  /\ wire[p] # <<>> => Arriving(conn[p], Head(wire[p])).ok
           /\ Acts(p) => /\ Shaped'
                         /\ \/ UNCHANGED vars
                            \/ Exchange(layer)' /\ Progresses(p)
                            \/ Announcing' /\ layer = "sasl"
<1>1. wire[p] # <<>> => Arriving(conn[p], Head(wire[p])).ok
  BY ExchangeTakes DEF Hears
<1> SUFFICES ASSUME Acts(p)
             PROVE  /\ Shaped'
                    /\ \/ UNCHANGED vars
                       \/ Exchange(layer)' /\ Progresses(p)
                       \/ Announcing' /\ layer = "sasl"
  BY <1>1
<1>2. CASE Deliver(p)
  BY <1>2, ExchangeDelivers
<1>3. ASSUME NEW u \in Headers \cup Offered[p], Submit(p, u)
      PROVE  /\ Shaped'
             /\ \/ UNCHANGED vars
                \/ Exchange(layer)' /\ Progresses(p)
                \/ Announcing' /\ layer = "sasl"
  <2> DEFINE e == conn[p]
             r == Sending(e, u)
  <2>1. u \in Units /\ (u \in SaslFrames => u \in Offered[p])
    BY OfferedUnits
  <2>2. e \in Endpoints /\ Exchanging(e, layer)
    BY DEF Shaped, Exchange
  <2>3. /\ Shaped' /\ Disciplined(p, u)
        /\ \/ UNCHANGED vars
           \/ Denies(e, u, r) /\ Denied(p)
           \/ Takes(e, u, r) /\ Said(p, u, r.conn)
    BY <1>3, <2>1, SubmitForms
  <2> HIDE DEF r
  <2>4. ~Denies(e, u, r)
    <3>1. e.phase # "awaitingOutcome"
      BY <2>2 DEF Exchanging
    <3>2. SaslAdmits(e, TRUE, u) /\ u.body = "outcome" => e.phase = "awaitingOutcome"
      BY DEF SaslAdmits
    <3> QED
      BY <3>1, <3>2, Zenon DEF Denies
  <2>5. CASE Takes(e, u, r) /\ Said(p, u, r.conn) /\ ~SaslTaken(e, TRUE, u, r)
    BY <2>1, <2>3, <2>5, ExchangeSays
  <2>6. CASE Takes(e, u, r) /\ Said(p, u, r.conn) /\ SaslTaken(e, TRUE, u, r)
    <3>1. /\ u \in SaslFrames /\ e.layer = "sasl" /\ SaslAdmits(e, TRUE, u)
          /\ r.conn = AfterSasl(e, TRUE, u)
      BY <2>6, Zenon DEF SaslTaken
    <3>2. Said(p, u, AfterSasl(e, TRUE, u))
      BY <2>6, <3>1
    <3>3. layer = "sasl" /\ Announcing'
      BY <2>1, <2>3, <3>1, <3>2, ExchangeAnnounces
    <3> QED
      BY <2>3, <3>3
  <2> QED
    BY <2>3, <2>4, <2>5, <2>6
<1> QED
  BY <1>2, <1>3 DEF Acts

-----------------------------------------------------------------------------
(* The invariant. *)

\* The modes in which both applications are in the dialogue.
Conversing == \/ Announcing \/ Choosing \/ Initiating
              \/ Undecided \/ Challenging \/ Challenged \/ Responding

PairInv == Shaped /\ Modes

\* The ten modes in four kinds.
LEMMA ModesAre == Modes <=> Exchange("amqp") \/ Exchange("sasl") \/ Conversing \/ Decided
  BY DEF Modes, Conversing, Layers

\* The pair begins in the exchange of the first layer's headers.
LEMMA PairInvInit == Init => PairInv
<1> SUFFICES ASSUME Init PROVE PairInv
  OBVIOUS
<1>1. first \in Layers /\ first \in FirstLayers
  BY PairAssumption DEF Init
<1>2. /\ conn = [p \in Peers |-> InitialEndpoint] /\ wire = [p \in Peers |-> <<>>]
      /\ app = [p \in Peers |-> NewApp]
  BY DEF Init
<1>3. NewApp = Memory(FALSE, FALSE, 0) /\ NewApp \in Memories
  BY DEF NewApp, Memory, Memories
<1>4. InitialEndpoint \in Endpoints
  BY ConnectionAssumption
  DEF InitialEndpoint, Endpoints, States, Layers, Phases, Roles, Limits, APriori
<1>5. Shaped
  <2>1. <<>> \in Seq(Units)
    OBVIOUS
  <2>2. /\ conn \in [Peers -> Endpoints] /\ wire \in [Peers -> Seq(Units)]
        /\ app \in [Peers -> Memories]
    BY <1>2, <1>3, <1>4, <2>1, Zenon
  <2> QED
    BY <1>1, <2>2 DEF Shaped
<1>6. \A p \in Peers : Exchanging(conn[p], first) /\ Follows(p, first)
  <2> SUFFICES ASSUME NEW p \in Peers
               PROVE  Exchanging(conn[p], first) /\ Follows(p, first)
    OBVIOUS
  <2>1. /\ conn[p] = InitialEndpoint /\ conn[Other(p)] = InitialEndpoint
        /\ wire[p] = <<>>
    BY <1>2, Partners
  <2>2. /\ Exchanging(InitialEndpoint, first)
        /\ SaidBy(InitialEndpoint.state) = 0 /\ HeardBy(InitialEndpoint.state) = 0
        /\ InitialEndpoint.localLimits = APriori
        /\ Carries(<<>>, 0, 0, first, APriori, APriori)
    BY <1>1, ExchangeBegins, CarriesFirst
  <2> DEFINE start == InitialEndpoint
  <2>3. conn[p] = start /\ conn[Other(p)] = start
    BY <2>1
  <2> HIDE DEF start
  <2> QED
    BY <2>1, <2>2, <2>3 DEF Follows, start
<1>7. \A p \in Peers : app[p] = Memory(first = "sasl" /\ first = "amqp", FALSE, 0)
  <2> DEFINE b == first = "sasl" /\ first = "amqp"
  <2>1. b = FALSE
    OBVIOUS
  <2>2. \A p \in Peers : app[p] = Memory(FALSE, FALSE, 0)
    BY <1>2, <1>3
  <2> HIDE DEF b
  <2>3. \A p \in Peers : app[p] = Memory(b, FALSE, 0)
    BY <2>1, <2>2
  <2> QED
    BY <2>3, Zenon DEF b
<1>8. 0 \in 0 .. MaxChallenges
  BY PairAssumption
<1>9. Exchange(first)
  BY <1>6, <1>7, <1>8, Zenon DEF Exchange
<1> QED
  BY <1>1, <1>5, <1>9 DEF PairInv, Modes

\* A step that changes nothing stays in its mode.
LEMMA PairInvStutters == PairInv /\ UNCHANGED vars => PairInv'
<1> SUFFICES ASSUME PairInv, UNCHANGED vars PROVE PairInv'
  OBVIOUS
<1>1. conn' = conn /\ wire' = wire /\ app' = app /\ first' = first
  BY DEF vars
<1>2. Shaped'
  BY <1>1 DEF PairInv, Shaped
<1>3. ASSUME NEW layer \in Layers, Exchange(layer) PROVE Exchange(layer)'
  BY <1>1, <1>3 DEF Exchange, Follows
<1>4. ASSUME NEW x, NEW y, NEW n, Talking(x, y, n) PROVE Talking(x, y, n)'
  BY <1>1, <1>4 DEF Talking
<1>5. ASSUME NEW x, NEW y, NEW states, Together(x, y, states) PROVE Together(x, y, states)'
  BY <1>1, <1>5 DEF Together
<1>6. Conversing => Conversing'
  BY <1>1, <1>4, <1>5 DEF Conversing, Announcing, Choosing, Initiating, Undecided,
                          Challenging, Challenged, Responding
<1>7. Decided => Decided'
  BY <1>1 DEF Decided
<1> QED
  BY <1>2, <1>3, <1>6, <1>7 DEF PairInv, Modes, Conversing

\* What a step does to the pair.
LEMMA PairActs ==
    ASSUME Orderly, PairInv, NEW p \in Peers, Acts(p)
    PROVE  PairInv'
<1>1. CASE UNCHANGED vars
  BY <1>1, PairInvStutters
<1>2. ASSUME NEW layer \in Layers, Exchange(layer)
      PROVE  PairInv'
  <2>1. Shaped' /\ (UNCHANGED vars \/ Exchange(layer)' \/ Announcing')
    BY <1>2, ExchangeStep DEF PairInv
  <2> QED
    BY <1>1, <2>1 DEF PairInv, Modes
<1>3. ASSUME Conversing
      PROVE  PairInv'
  <2>1. Shaped' /\ (UNCHANGED vars \/ Conversing' \/ Decided')
    <3>1. Shaped
      BY DEF PairInv
    <3>2. CASE Announcing
      BY <3>1, <3>2, AnnouncingStep DEF Conversing
    <3>3. CASE Choosing
      BY <3>1, <3>3, ChoosingStep DEF Conversing
    <3>4. CASE Initiating
      BY <3>1, <3>4, InitiatingStep DEF Conversing
    <3>5. CASE Undecided
      BY <3>1, <3>5, UndecidedStep DEF Conversing
    <3>6. CASE Challenging
      BY <3>1, <3>6, ChallengingStep DEF Conversing
    <3>7. CASE Challenged
      BY <3>1, <3>7, ChallengedStep DEF Conversing
    <3>8. CASE Responding
      BY <3>1, <3>8, RespondingStep DEF Conversing
    <3> QED
      BY <1>3, <3>2, <3>3, <3>4, <3>5, <3>6, <3>7, <3>8 DEF Conversing
  <2> QED
    BY <1>1, <2>1 DEF PairInv, Modes, Conversing
<1>4. ASSUME Decided
      PROVE  PairInv'
  <2>1. Shaped' /\ (UNCHANGED vars \/ Exchange("amqp")' \/ Decided')
    BY <1>4, DecidedStep DEF PairInv, Orderly
  <2>2. "amqp" \in Layers
    BY DEF Layers
  <2> QED
    BY <1>1, <2>1, <2>2 DEF PairInv, Modes
<1> QED
  BY <1>2, <1>3, <1>4 DEF PairInv, Modes, Conversing

\* Every step is an act of one peer.
LEMMA NextActs == Next => \E p \in Peers : Acts(p)
  BY DEF Next, Acts

-----------------------------------------------------------------------------
(* What the modes say of the endpoints. *)

\* The two endpoints of a conversation: both in the dialogue, the client's
\* phase and the server's at most one apart.
Conversants(clientPhase, clientRole, clientNames, serverState, serverPhase, names) ==
    /\ conn["client"].layer = "sasl" /\ conn["client"].phase = clientPhase
    /\ conn["client"].role = clientRole /\ conn["client"].mechanisms = clientNames
    /\ conn["client"].state \in {"HDR_SENT", "HDR_EXCH"}
    /\ conn["client"].localLimits = APriori /\ conn["client"].remoteLimits = APriori
    /\ conn["server"].layer = "sasl" /\ conn["server"].phase = serverPhase
    /\ conn["server"].role = "server" /\ conn["server"].mechanisms = names
    /\ conn["server"].state = serverState
    /\ conn["server"].localLimits = APriori /\ conn["server"].remoteLimits = APriori

Converses ==
    /\ first = "sasl"
    /\ \A p \in Peers : ~app[p].authenticated
    /\ \E names : \E state \in ServerStates :
          \/ \E phase \in {"absent", "awaitingMechanisms"} :
                Conversants(phase, "none", {}, state, "mechanismsKnown", names)
          \/ Conversants("mechanismsKnown", "client", names, state, "mechanismsKnown", names)
          \/ Conversants("awaitingOutcome", "client", names, state, "mechanismsKnown", names)
          \/ Conversants("awaitingOutcome", "client", names, state, "awaitingOutcome", names)

\* In a conversation the server is one challenge ahead at most.
LEMMA ConversingTalks ==
    ASSUME Conversing
    PROVE  \E x, y : Talking(x, y, 0) \/ Talking(x, y, 1)
  BY DEF Conversing, Announcing, Choosing, Initiating, Undecided, Challenging, Challenged, Responding

\* What a conversation says of its endpoints and applications.
LEMMA ConversingIs ==
    ASSUME Shaped, Conversing
    PROVE  Converses
<1>1. first = "sasl" /\ \A p \in Peers : ~app[p].authenticated
  <2>1. PICK x, y : Talking(x, y, 0) \/ Talking(x, y, 1)
    BY ConversingTalks
  <2>2. first = "sasl" /\ ~app["client"].authenticated /\ ~app["server"].authenticated
    BY <2>1, TalkingIs, Zenon
  <2> QED
    BY <2>2 DEF Peers
<1>2. "HDR_EXCH" \in ServerStates /\ {"HDR_EXCH"} \subseteq ServerStates
  BY DialogueStates
<1>3. ASSUME NEW phase, NEW serverPhase, NEW states, states \subseteq ServerStates,
             Together(phase, serverPhase, states)
      PROVE  \E names : \E state \in ServerStates :
                 Conversants(phase, "client", names, state, serverPhase, names)
  <2>1. PICK names \in SUBSET Mechanisms, state \in states :
            /\ conn["client"] = InDialogue("HDR_EXCH", phase, "client", names)
            /\ conn["server"] = InDialogue(state, serverPhase, "server", names)
    BY <1>3 DEF Together
  <2>2. Conversants(phase, "client", names, state, serverPhase, names)
    BY <2>1, DialogueFields DEF Conversants
  <2>3. state \in ServerStates
    BY <1>3
  <2> QED
    BY <2>2, <2>3, Zenon
<1>4. CASE Announcing
  <2>1. PICK f \in Offered["server"] :
            /\ conn["server"] = InDialogue("HDR_EXCH", "mechanismsKnown", "server", f.names)
            /\ \/ conn["client"] = AwaitingHeader("sasl")
               \/ conn["client"] = InDialogue("HDR_EXCH", "awaitingMechanisms", "none", {})
    BY <1>4 DEF Announcing
  <2>2. \E phase \in {"absent", "awaitingMechanisms"} :
            Conversants(phase, "none", {}, "HDR_EXCH", "mechanismsKnown", f.names)
    BY <2>1, DialogueFields, DialogueStates DEF Conversants
  <2>3. \E names : \E state \in ServerStates, phase \in {"absent", "awaitingMechanisms"} :
            Conversants(phase, "none", {}, state, "mechanismsKnown", names)
    BY <1>2, <2>2, Zenon
  <2> QED
    BY <1>1, <2>3, Zenon DEF Converses
<1>5. CASE Choosing
  BY <1>1, <1>2, <1>3, <1>5 DEF Choosing, Converses
<1>6. CASE Initiating
  BY <1>1, <1>2, <1>3, <1>6 DEF Initiating, Converses
<1>7. CASE Undecided \/ Challenging \/ Challenged \/ Responding
  <2>1. Together("awaitingOutcome", "awaitingOutcome", ServerStates)
    BY <1>7 DEF Undecided, Challenging, Challenged, Responding
  <2> QED
    BY <1>1, <1>3, <2>1 DEF Converses
<1> QED
  BY <1>4, <1>5, <1>6, <1>7 DEF Conversing

\* The endpoints of a conversation, whatever their phases.
LEMMA ConversersAre ==
    ASSUME Shaped, Conversing
    PROVE  \E clientPhase, clientRole, clientNames, serverPhase, names :
              \E serverState \in ServerStates :
                 Conversants(clientPhase, clientRole, clientNames, serverState, serverPhase, names)
<1>1. PICK names : \E state \in ServerStates :
          \/ \E phase \in {"absent", "awaitingMechanisms"} :
                Conversants(phase, "none", {}, state, "mechanismsKnown", names)
          \/ Conversants("mechanismsKnown", "client", names, state, "mechanismsKnown", names)
          \/ Conversants("awaitingOutcome", "client", names, state, "mechanismsKnown", names)
          \/ Conversants("awaitingOutcome", "client", names, state, "awaitingOutcome", names)
  BY ConversingIs, Zenon DEF Converses
<1> QED
  BY <1>1, Zenon

\* The outcome is on its way.
Decides ==
    /\ first = "sasl"
    /\ ~app["client"].authenticated /\ app["server"].authenticated
    /\ conn["client"].state = "HDR_EXCH" /\ conn["client"].layer = "sasl"
    /\ conn["server"].state \in {"START", "HDR_SENT"} /\ conn["server"].role = "none"

\* What an outcome on its way says of the endpoints and applications.
LEMMA DecidedIs ==
    ASSUME Decided
    PROVE  Decides
<1>1. first = "sasl"
  BY DEF Decided
<1>2. ~app["client"].authenticated /\ app["server"].authenticated
  <2>1. PICK n : app["client"] = Memory(FALSE, FALSE, n) /\ app["server"] = Memory(TRUE, FALSE, n)
    BY DEF Decided
  <2> QED
    BY <2>1, MemoryFields, Zenon
<1>3. conn["client"].state = "HDR_EXCH" /\ conn["client"].layer = "sasl"
  <2>1. PICK names : conn["client"] = InDialogue("HDR_EXCH", "awaitingOutcome", "client", names)
    BY DEF Decided
  <2> QED
    BY <2>1, DialogueFields
<1>4. conn["server"].state \in {"START", "HDR_SENT"} /\ conn["server"].role = "none"
  <2>1. conn["server"] = InitialEndpoint \/ conn["server"] = AwaitingHeader("amqp")
    BY DEF Decided
  <2> QED
    BY <2>1 DEF InitialEndpoint, AwaitingHeader
<1> QED
  BY <1>1, <1>2, <1>3, <1>4 DEF Decides

\* Both applications, and the layer, of an exchange.
LEMMA ExchangeIs ==
    ASSUME NEW layer \in Layers, Exchange(layer), Shaped, NEW p \in Peers
    PROVE  /\ app[p].authenticated <=> first = "sasl" /\ layer = "amqp"
           /\ ~app[p].owes /\ app[p].challenges \in 0 .. MaxChallenges
           /\ Exchanging(conn[p], layer) /\ Follows(p, layer)
           /\ first \in Layers /\ (first = "amqp" => layer = "amqp")
<1>1. PICK n \in 0 .. MaxChallenges : app[p] = Memory(first = "sasl" /\ layer = "amqp", FALSE, n)
  BY Zenon DEF Exchange
<1> DEFINE b == first = "sasl" /\ layer = "amqp"
<1>2. app[p] = Memory(b, FALSE, n)
  BY <1>1
<1> HIDE DEF b
<1>3. app[p].authenticated = b
  BY <1>2 DEF Memory
<1>4. ~app[p].owes
  BY <1>2 DEF Memory
<1>5. app[p].challenges = n
  BY <1>2 DEF Memory
<1>6. first \in Layers
  BY PairAssumption DEF Shaped
<1> QED
  BY <1>1, <1>3, <1>4, <1>5, <1>6 DEF Exchange, b

-----------------------------------------------------------------------------
(* The properties. *)

\* The invariant implies the type invariant: every mode bounds the challenges.
LEMMA InvTyped == PairInv => TypeOK
<1> SUFFICES ASSUME PairInv PROVE TypeOK
  OBVIOUS
<1>1. \A p \in Peers : app[p].challenges \in 0 .. MaxChallenges
  <2>1. ASSUME NEW layer \in Layers, Exchange(layer)
        PROVE  \A p \in Peers : app[p].challenges \in 0 .. MaxChallenges
    BY <2>1, ExchangeIs DEF PairInv
  <2>2. ASSUME Conversing
        PROVE  \A p \in Peers : app[p].challenges \in 0 .. MaxChallenges
    <3>1. PICK x, y : \E ahead \in {0, 1} : Talking(x, y, ahead)
      BY <2>2, ConversingTalks
    <3>2. PICK ahead \in {0, 1} : Talking(x, y, ahead)
      BY <3>1
    <3>3. PICK n \in Nat : /\ n + ahead <= MaxChallenges
                           /\ app["client"] = Memory(FALSE, x, n)
                           /\ app["server"] = Memory(FALSE, y, n + ahead)
      BY <3>2 DEF Talking
    <3>4. app["client"].challenges = n /\ app["server"].challenges = n + ahead
      BY <3>3 DEF Memory
    <3>5. n \in 0 .. MaxChallenges /\ n + ahead \in 0 .. MaxChallenges
      BY <3>2, <3>3, PairAssumption
    <3> QED
      BY <3>4, <3>5 DEF Peers
  <2>3. ASSUME Decided
        PROVE  \A p \in Peers : app[p].challenges \in 0 .. MaxChallenges
    <3>1. PICK n \in 0 .. MaxChallenges : /\ app["client"] = Memory(FALSE, FALSE, n)
                                          /\ app["server"] = Memory(TRUE, FALSE, n)
      BY <2>3 DEF Decided
    <3>2. app["client"].challenges = n /\ app["server"].challenges = n
      BY <3>1 DEF Memory
    <3> QED
      BY <3>1, <3>2 DEF Peers
  <2> QED
    BY <2>1, <2>2, <2>3 DEF PairInv, Modes, Conversing
<1> QED
  BY <1>1 DEF PairInv, Shaped, TypeOK, Memories

\* In every mode, what comes next to a peer is taken.
LEMMA InvTakes ==
    ASSUME Orderly
    PROVE  PairInv => NothingRefused
<1> SUFFICES ASSUME PairInv, NEW p \in Peers, wire[p] # <<>>
             PROVE  Arriving(conn[p], Head(wire[p])).ok
  BY DEF NothingRefused
<1>1. Shaped
  BY DEF PairInv
<1>2. ASSUME NEW layer \in Layers, Exchange(layer)
      PROVE  Arriving(conn[p], Head(wire[p])).ok
  BY <1>1, <1>2, ExchangeTakes DEF Hears
<1>3. CASE Announcing
  BY <1>1, <1>3, AnnouncingStep
<1>4. CASE Choosing \/ Initiating
  BY <1>1, <1>4, ChoosingStep, InitiatingStep
<1>5. CASE Undecided \/ Challenging
  BY <1>1, <1>5, UndecidedStep, ChallengingStep
<1>6. CASE Challenged \/ Responding
  BY <1>1, <1>6, ChallengedStep, RespondingStep
<1>7. CASE Decided
  BY <1>1, <1>7, DecidedStep DEF Orderly
<1> QED
  BY <1>2, <1>3, <1>4, <1>5, <1>6, <1>7 DEF PairInv, Modes

\* In every mode, a peer that heard an open goes by its partner's limits.
LEMMA InvLimits == PairInv => LimitsAgree
<1> SUFFICES ASSUME PairInv, NEW p \in Peers,
                    conn[p].state \in {"OPEN_RCVD", "OPENED", "CLOSE_RCVD", "CLOSE_SENT", "END"}
             PROVE  conn[p].remoteLimits = conn[Other(p)].localLimits
  BY DEF LimitsAgree
<1>1. ASSUME NEW layer \in Layers, Exchange(layer)
      PROVE  conn[p].remoteLimits = conn[Other(p)].localLimits
  BY <1>1, Stages DEF Exchange, Follows
<1>2. CASE Conversing
  <2>1. PICK clientPhase, clientRole, clientNames, serverState, serverPhase, names :
            Conversants(clientPhase, clientRole, clientNames, serverState, serverPhase, names)
    BY <1>2, ConversingIs DEF PairInv, Converses
  <2> QED
    BY <2>1, Sides DEF Conversants, Peers
<1>3. ~Decided
  BY DecidedIs DEF Decides, Peers
<1> QED
  BY <1>1, <1>2, <1>3 DEF PairInv, Modes, Conversing

\* In every mode, two peers in a dialogue agree on it.
LEMMA InvDialogues == PairInv => DialoguesAgree
<1> SUFFICES ASSUME PairInv, NEW p \in Peers,
                    conn[p].role # "none", conn[Other(p)].role # "none"
             PROVE  /\ conn[p].role # conn[Other(p)].role
                    /\ conn[p].mechanisms = conn[Other(p)].mechanisms
                    /\ Rank(conn[p].phase) <= Rank(conn[Other(p)].phase) + 1
  BY DEF DialoguesAgree
<1>1. ASSUME NEW layer \in Layers, Exchange(layer) PROVE FALSE
  BY <1>1 DEF Exchange, Exchanging
<1>2. CASE Conversing
  <2>1. PICK clientPhase, serverPhase, serverState, names :
            /\ Conversants(clientPhase, "client", names, serverState, serverPhase, names)
            /\ \/ clientPhase = serverPhase
               \/ clientPhase = "awaitingOutcome" /\ serverPhase = "mechanismsKnown"
            /\ clientPhase \in {"mechanismsKnown", "awaitingOutcome"}
    BY <1>2, ConversingIs, Sides DEF PairInv, Converses, Conversants, Peers
  <2>2. Rank("mechanismsKnown") = 2 /\ Rank("awaitingOutcome") = 3
    BY DEF Rank
  <2> QED
    BY <2>1, <2>2, Sides DEF Conversants, Peers
<1>3. ~Decided
  BY DecidedIs, Sides DEF Decides, Peers
<1> QED
  BY <1>1, <1>2, <1>3 DEF PairInv, Modes, Conversing

\* In every mode, a peer that opens has an authenticated partner.
LEMMA InvAuthenticated == PairInv => AuthenticatedTogether
<1> SUFFICES ASSUME PairInv, first = "sasl", NEW p \in Peers,
                    conn[p].state \in {"OPEN_SENT", "OPEN_RCVD", "OPENED"}, NEW q \in Peers
             PROVE  app[q].authenticated /\ conn[q].layer = "amqp"
  BY DEF AuthenticatedTogether
<1>1. ASSUME NEW layer \in Layers, Exchange(layer)
      PROVE  app[q].authenticated /\ conn[q].layer = "amqp"
  <2>1. layer = "amqp"
    BY <1>1 DEF Exchange, Exchanging, Layers
  <2> QED
    BY <1>1, <2>1, ExchangeIs DEF PairInv, Exchanging
<1>2. ~Conversing
  <2> SUFFICES ASSUME Conversing PROVE FALSE
    OBVIOUS
  <2>1. PICK clientPhase, clientRole, clientNames, serverPhase, names : \E serverState \in ServerStates :
            Conversants(clientPhase, clientRole, clientNames, serverState, serverPhase, names)
    BY ConversersAre DEF PairInv
  <2>2. conn["server"].state \in {"HDR_EXCH", "END"}
    BY <2>1, DialogueStates DEF Conversants
  <2> QED
    BY <2>1, <2>2 DEF Conversants, Peers
<1>3. ~Decided
  BY DecidedIs DEF Decides, Peers
<1> QED
  BY <1>1, <1>2, <1>3 DEF PairInv, Modes, Conversing

\* In every mode but those of a failed dialogue, nothing comes to an ended peer.
LEMMA InvEnd ==
    ASSUME Accepting
    PROVE  PairInv => EndHearsNothing
<1> SUFFICES ASSUME PairInv, NEW p \in Peers, conn[p].state = "END"
             PROVE  wire[p] = <<>>
  BY DEF EndHearsNothing
<1>1. ASSUME NEW layer \in Layers, Exchange(layer)
      PROVE  wire[p] = <<>>
  <2> DEFINE said == SaidBy(conn[Other(p)].state)
  <2>1. Carries(wire[p], 3, said, layer, conn[p].localLimits, conn[Other(p)].localLimits)
    BY <1>1, Stages DEF Exchange, Follows
  <2>2. said \in 0 .. 3
    BY <1>1, Partners, ExchangeStages DEF Exchange
  <2> HIDE DEF said
  <2>3. wire[p] \in Seq(Units) /\ Len(wire[p]) = 0
    BY <2>1, <2>2 DEF Carries
  <2> QED
    BY <2>3, EmptySeq
<1>2. ~Conversing
  <2> SUFFICES ASSUME Conversing PROVE FALSE
    OBVIOUS
  <2>1. PICK clientPhase, clientRole, clientNames, serverPhase, names : \E serverState \in ServerStates :
            Conversants(clientPhase, clientRole, clientNames, serverState, serverPhase, names)
    BY ConversersAre DEF PairInv
  <2>2. conn["server"].state = "HDR_EXCH"
    BY <2>1 DEF ServerStates, Conversants
  <2> QED
    BY <2>1, <2>2 DEF Conversants, Peers
<1>3. ~Decided
  BY DecidedIs DEF Decides, Peers
<1> QED
  BY <1>1, <1>2, <1>3 DEF PairInv, Modes, Conversing

-----------------------------------------------------------------------------
(* The pair implements the handshake. *)

AllBegun  == \A p \in Peers : Begun(p)
NoneBegun == \A p \in Peers : ~Begun(p)

\* The stages Handshake is instantiated with.
SaidOf(p)  == IF Begun(p) THEN SaidBy(conn[p].state) ELSE 0
HeardOf(p) == IF Begun(p) THEN HeardBy(conn[p].state) ELSE 0

\* In an AMQP exchange both peers have begun.
LEMMA AmqpBegun == Shaped /\ Exchange("amqp") => AllBegun
<1>1. "amqp" \in Layers
  BY DEF Layers
<1> QED
  BY <1>1, ExchangeIs DEF AllBegun, Begun, Layers

\* While the security layer is undecided, neither has.
LEMMA SaslNotBegun == Shaped /\ (Exchange("sasl") \/ Conversing) => NoneBegun
<1>1. "sasl" \in Layers
  BY DEF Layers
<1>2. Shaped /\ Exchange("sasl") => NoneBegun
  BY <1>1, ExchangeIs DEF NoneBegun, Begun
<1>3. Shaped /\ Conversing => NoneBegun
  BY ConversingIs DEF NoneBegun, Begun, Converses
<1> QED
  BY <1>2, <1>3

\* Once the server has decided, it alone has.
LEMMA DecidedBegun == Decided => ~Begun("client") /\ Begun("server")
  BY DecidedIs DEF Begun, Decides

\* A step of one peer that is a step of the handshake, or none.
LEMMA StageMoves ==
    ASSUME NEW p \in Peers,
           SaidOf(Other(p))' = SaidOf(Other(p)), HeardOf(Other(p))' = HeardOf(Other(p)),
           \/ SaidOf(p)' = SaidOf(p) /\ HeardOf(p)' = HeardOf(p)
           \/ /\ SaidOf(p)' = SaidOf(p) + 1 /\ HeardOf(p)' = HeardOf(p)
              /\ SaidOf(p) <= HeardOf(p) /\ SaidOf(p) < 3
           \/ /\ SaidOf(p)' = SaidOf(p) /\ HeardOf(p)' = HeardOf(p) + 1
              /\ HeardOf(p) < SaidOf(Other(p))
    PROVE  [H!Next]_(H!handshake)
<1> DEFINE q == Other(p)
           said == [x \in Peers |-> SaidOf(x)]
           heard == [x \in Peers |-> HeardOf(x)]
<1>1. q \in Peers /\ q # p /\ \A x \in Peers : x = p \/ x = q
  BY DEF Peers, Other
<1>2. /\ said' = [x \in Peers |-> SaidOf(x)'] /\ heard' = [x \in Peers |-> HeardOf(x)']
  OBVIOUS
<1>3. CASE SaidOf(p)' = SaidOf(p) /\ HeardOf(p)' = HeardOf(p)
  <2>1. \A x \in Peers : SaidOf(x)' = SaidOf(x) /\ HeardOf(x)' = HeardOf(x)
    BY <1>1, <1>3
  <2>2. said' = said /\ heard' = heard
    BY <2>1
  <2> QED
    BY <2>2 DEF H!handshake, SaidOf, HeardOf
<1>4. CASE /\ SaidOf(p)' = SaidOf(p) + 1 /\ HeardOf(p)' = HeardOf(p)
           /\ SaidOf(p) <= HeardOf(p) /\ SaidOf(p) < 3
  <2>1. /\ said' = [said EXCEPT ![p] = @ + 1] /\ heard' = heard
        /\ said[p] <= heard[p] /\ said[p] < 3
    BY <1>1, <1>4
  <2>2. H!Speak(p)
    BY <2>1 DEF H!Speak, SaidOf, HeardOf
  <2> QED
    BY <2>2 DEF H!Next, H!Peers, Peers
<1>5. CASE /\ SaidOf(p)' = SaidOf(p) /\ HeardOf(p)' = HeardOf(p) + 1
           /\ HeardOf(p) < SaidOf(Other(p))
  <2>1. /\ heard' = [heard EXCEPT ![p] = @ + 1] /\ said' = said
        /\ heard[p] < said[q]
    BY <1>1, <1>5
  <2>2. H!Hear(p)
    BY <2>1 DEF H!Hear, H!Other, Other, SaidOf, HeardOf
  <2> QED
    BY <2>2 DEF H!Next, H!Peers, Peers
<1> QED
  BY <1>3, <1>4, <1>5

\* A step of a pair that has not begun, and does not, is none of Handshake's.
LEMMA StagesRest ==
    ASSUME UNCHANGED vars \/ (NoneBegun /\ NoneBegun')
    PROVE  [H!Next]_(H!handshake)
<1>1. "client" \in Peers /\ Other("client") \in Peers
  BY DEF Peers, Other
<1>2. \A x \in Peers : SaidOf(x)' = SaidOf(x) /\ HeardOf(x)' = HeardOf(x)
  <2>1. CASE UNCHANGED vars
    BY <2>1 DEF vars, SaidOf, HeardOf, Begun
  <2>2. CASE NoneBegun /\ NoneBegun'
    BY <2>2 DEF NoneBegun, SaidOf, HeardOf
  <2> QED
    BY <2>1, <2>2
<1> QED
  BY <1>1, <1>2, StageMoves

\* A peer's progress in an AMQP exchange is a step of Handshake.
LEMMA StagesProgress ==
    ASSUME NEW p \in Peers, AllBegun, AllBegun', Progresses(p)
    PROVE  [H!Next]_(H!handshake)
<1>1. Other(p) \in Peers
  BY Partners
<1>2. \A x \in Peers : SaidOf(x) = SaidBy(conn[x].state) /\ HeardOf(x) = HeardBy(conn[x].state)
  BY DEF AllBegun, SaidOf, HeardOf
<1>3. \A x \in Peers : SaidOf(x)' = SaidBy(conn'[x].state) /\ HeardOf(x)' = HeardBy(conn'[x].state)
  BY DEF AllBegun, SaidOf, HeardOf
<1> QED
  BY <1>1, <1>2, <1>3, StageMoves DEF Progresses

\* The same after a step.
LEMMA BegunNext ==
    /\ Shaped' /\ Exchange("amqp")' => AllBegun'
    /\ Shaped' /\ (Exchange("sasl") \/ Conversing)' => NoneBegun'
    /\ Decided' => (~Begun("client") /\ Begun("server"))'
<1>1. (Shaped /\ Exchange("amqp"))' => AllBegun'
  BY AmqpBegun, PTL
<1>2. (Shaped /\ (Exchange("sasl") \/ Conversing))' => NoneBegun'
  BY SaslNotBegun, PTL
<1>3. Decided' => (~Begun("client") /\ Begun("server"))'
  BY DecidedBegun, PTL
<1> QED
  BY <1>1, <1>2, <1>3

\* The server begins the second exchange while the client has the outcome
\* still to hear.
LEMMA DecidedSimulates ==
    ASSUME Orderly, Shaped, Decided, NEW p \in Peers, Acts(p)
    PROVE  [H!Next]_(H!handshake)
<1>1. /\ Shaped'
      /\ \/ UNCHANGED vars
         \/ /\ Decided'
            /\ conn["server"] = InitialEndpoint /\ conn'["server"] = AwaitingHeader("amqp")
         \/ /\ Exchange("amqp")'
            /\ conn'["client"] = InitialEndpoint /\ conn'["server"] = conn["server"]
  BY DecidedStep DEF Orderly
<1>2. "amqp" \in Layers /\ "client" \in Peers /\ "server" \in Peers
  BY DEF Layers, Peers
<1>3. /\ SaidBy(InitialEndpoint.state) = 0 /\ HeardBy(InitialEndpoint.state) = 0
      /\ SaidBy(AwaitingHeader("amqp").state) = 1 /\ HeardBy(AwaitingHeader("amqp").state) = 0
  BY <1>2, ExchangeBegins
<1>4. /\ SaidOf("client") = 0 /\ HeardOf("client") = 0
      /\ SaidOf("server") = SaidBy(conn["server"].state)
      /\ HeardOf("server") = HeardBy(conn["server"].state)
  BY DecidedBegun DEF SaidOf, HeardOf
<1>5. CASE UNCHANGED vars
  BY <1>5, StagesRest
<1>6. CASE /\ Decided'
           /\ conn["server"] = InitialEndpoint /\ conn'["server"] = AwaitingHeader("amqp")
  <2>1. /\ SaidOf("client")' = 0 /\ HeardOf("client")' = 0
        /\ SaidOf("server")' = SaidBy(conn'["server"].state)
        /\ HeardOf("server")' = HeardBy(conn'["server"].state)
    BY <1>6, BegunNext DEF SaidOf, HeardOf
  <2>2. /\ SaidOf("server")' = SaidOf("server") + 1 /\ HeardOf("server")' = HeardOf("server")
        /\ SaidOf("server") <= HeardOf("server") /\ SaidOf("server") < 3
    BY <1>3, <1>4, <1>6, <2>1
  <2> QED
    BY <1>2, <1>4, <2>1, <2>2, Sides, StageMoves
<1>7. CASE /\ Exchange("amqp")'
           /\ conn'["client"] = InitialEndpoint /\ conn'["server"] = conn["server"]
  <2>1. AllBegun'
    BY <1>1, <1>7, BegunNext
  <2>2. /\ SaidOf("client")' = SaidBy(conn'["client"].state)
        /\ HeardOf("client")' = HeardBy(conn'["client"].state)
        /\ SaidOf("server")' = SaidBy(conn'["server"].state)
        /\ HeardOf("server")' = HeardBy(conn'["server"].state)
    BY <1>2, <2>1 DEF AllBegun, SaidOf, HeardOf
  <2>3. /\ SaidOf("client")' = SaidOf("client") /\ HeardOf("client")' = HeardOf("client")
        /\ SaidOf("server")' = SaidOf("server") /\ HeardOf("server")' = HeardOf("server")
    BY <1>3, <1>4, <1>7, <2>2
  <2> QED
    BY <1>2, <2>3, Sides, StageMoves
<1> QED
  BY <1>1, <1>5, <1>6, <1>7

\* The outcome leaves a client that has still to hear it where it was, and a
\* server that has said nothing yet in the second exchange.
LEMMA UndecidedSimulates ==
    ASSUME Shaped, Undecided, NEW p \in Peers, Acts(p)
    PROVE  [H!Next]_(H!handshake)
<1>1. Conversing /\ NoneBegun
  BY SaslNotBegun DEF Conversing
<1>2. /\ Shaped'
      /\ \/ UNCHANGED vars \/ Conversing'
         \/ Decided' /\ conn'["server"] = InitialEndpoint
  BY UndecidedStep DEF Conversing
<1>3. CASE UNCHANGED vars \/ Conversing'
  BY <1>1, <1>2, <1>3, BegunNext, StagesRest
<1>4. CASE Decided' /\ conn'["server"] = InitialEndpoint
  <2>1. "client" \in Peers /\ "amqp" \in Layers
    BY DEF Peers, Layers
  <2>2. /\ SaidOf("client")' = 0 /\ HeardOf("client")' = 0
        /\ SaidOf("server")' = 0 /\ HeardOf("server")' = 0
    BY <1>4, <2>1, BegunNext, ExchangeBegins DEF SaidOf, HeardOf
  <2>3. /\ SaidOf("client") = 0 /\ HeardOf("client") = 0
        /\ SaidOf("server") = 0 /\ HeardOf("server") = 0
    BY <1>1 DEF NoneBegun, SaidOf, HeardOf, Peers
  <2> QED
    BY <2>1, <2>2, <2>3, Sides, StageMoves
<1> QED
  BY <1>2, <1>3, <1>4

\* Every act of a peer is a step of Handshake, or none.
LEMMA PairSimulates ==
    ASSUME Orderly, PairInv, NEW p \in Peers, Acts(p)
    PROVE  [H!Next]_(H!handshake)
<1>1. Shaped /\ "amqp" \in Layers /\ "sasl" \in Layers
  BY DEF PairInv, Layers
<1>2. CASE Exchange("amqp")
  <2>1. UNCHANGED vars \/ (Shaped' /\ Exchange("amqp")' /\ Progresses(p))
    BY <1>1, <1>2, ExchangeStep
  <2> QED
    BY <1>1, <1>2, <2>1, AmqpBegun, BegunNext, StagesRest, StagesProgress
<1>3. CASE Exchange("sasl")
  <2>1. UNCHANGED vars \/ (Shaped' /\ (Exchange("sasl")' \/ Announcing'))
    BY <1>1, <1>3, ExchangeStep
  <2>2. UNCHANGED vars \/ (Shaped' /\ (Exchange("sasl") \/ Conversing)')
    BY <2>1 DEF Conversing
  <2> QED
    BY <1>1, <1>3, <2>2, SaslNotBegun, BegunNext, StagesRest
<1>4. CASE Conversing /\ ~Undecided
  <2>1. Shaped' /\ (UNCHANGED vars \/ Conversing')
    BY <1>1, <1>4, AnnouncingStep, ChoosingStep, InitiatingStep, ChallengingStep,
       ChallengedStep, RespondingStep DEF Conversing
  <2> QED
    BY <1>1, <1>4, <2>1, SaslNotBegun, BegunNext, StagesRest
<1>5. CASE Undecided
  BY <1>1, <1>5, UndecidedSimulates
<1>6. CASE Decided
  BY <1>1, <1>6, DecidedSimulates
<1> QED
  BY <1>2, <1>3, <1>4, <1>5, <1>6, ModesAre DEF PairInv

\* The pair begins where Handshake begins.
LEMMA InitSimulates == Init => H!Init
<1> SUFFICES ASSUME Init PROVE H!Init
  OBVIOUS
<1>1. /\ conn = [p \in Peers |-> InitialEndpoint] /\ first \in Layers
      /\ app = [p \in Peers |-> NewApp]
  BY PairAssumption DEF Init
<1>2. SaidBy(InitialEndpoint.state) = 0 /\ HeardBy(InitialEndpoint.state) = 0
  BY <1>1, ExchangeBegins
<1>3. \A p \in Peers : SaidOf(p) = 0 /\ HeardOf(p) = 0
  BY <1>1, <1>2 DEF SaidOf, HeardOf
<1> QED
  BY <1>3 DEF H!Init, H!Peers, Peers, SaidOf, HeardOf

-----------------------------------------------------------------------------
(* The theorems. *)

\* Every step of the pair keeps the invariant.
THEOREM PairAlwaysInMode ==
    ASSUME Orderly
    PROVE  Spec => []PairInv
<1>1. PairInv /\ [Next]_vars => PairInv'
  BY PairActs, NextActs, PairInvStutters
<1> QED
  BY <1>1, PairInvInit, PTL DEF Spec

\* Both cores stay endpoints, both streams sequences of units, and neither
\* application counts more challenges than one dialogue may have.
THEOREM TypeAlwaysOK ==
    ASSUME Orderly
    PROVE  Spec => []TypeOK
  BY PairAlwaysInMode, InvTyped, PTL

\* Whatever one core lets its application send, the other takes
\* (Spec/Connection.lean's send and receive columns, at every moment between).
THEOREM NothingEverRefused ==
    ASSUME Orderly
    PROVE  Spec => []NothingRefused
  BY PairAlwaysInMode, InvTakes, PTL

\* A peer that has heard an open goes by the limits its partner declared.
THEOREM LimitsAlwaysAgree ==
    ASSUME Orderly
    PROVE  Spec => []LimitsAgree
  BY PairAlwaysInMode, InvLimits, PTL

\* Two peers in one dialogue have opposite roles, the same mechanisms, and are
\* at most one frame apart.
THEOREM DialoguesAlwaysAgree ==
    ASSUME Orderly
    PROVE  Spec => []DialoguesAgree
  BY PairAlwaysInMode, InvDialogues, PTL

\* No peer opens an authenticated connection while its partner is undecided.
THEOREM AlwaysAuthenticatedTogether ==
    ASSUME Orderly
    PROVE  Spec => []AuthenticatedTogether
  BY PairAlwaysInMode, InvAuthenticated, PTL

\* Nothing is on its way to a peer that has ended, as long as no server sends
\* an outcome that reports a failure (which ends it in silence).
THEOREM EndAlwaysHearsNothing ==
    ASSUME Orderly, Accepting
    PROVE  Spec => []EndHearsNothing
  BY PairAlwaysInMode, InvEnd, PTL

\* The pair implements the handshake's safety part: it begins where Handshake
\* begins, and each of its steps is a step of Handshake or none.
THEOREM ImplementsHandshakeSteps ==
    ASSUME Orderly
    PROVE  Spec => H!Init /\ [][H!Next]_(H!handshake)
<1>1. PairInv /\ [Next]_vars => [H!Next]_(H!handshake)
  BY PairSimulates, NextActs, StagesRest
<1> QED
  BY <1>1, PairAlwaysInMode, InitSimulates, PTL DEF Spec
=============================================================================
