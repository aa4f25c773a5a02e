----------------------------- MODULE Shell_proofs -----------------------------
(***************************************************************************)
(* What two processes keep whatever their applications reply.  The         *)
(* argument reads the machine as three kinds of step: a quiet one, which   *)
(* moves no core and no unit; a submission, which appends what the core    *)
(* wrote to the stream towards the partner; and a serving, which takes the *)
(* first unit of the stream and appends what the core answered.  How a     *)
(* read splits the stream between the wire and the inbox is invisible in   *)
(* these terms.                                                            *)
(***************************************************************************)
EXTENDS Shell, Connection_proofs, SequenceTheorems

-----------------------------------------------------------------------------
(* The applications, and the type invariant for a vocabulary. *)

\* The applications' replies are words over W, whatever state they are asked in.
Spoken(W) == \A p \in Peers, command \in Runs, e \in Endpoints :
                 App(p, command, e) \subseteq [octets : Seq(W), done : BOOLEAN]

Vocabulary == Units \cup {Garbage}

\* What then travels: the words that are units, and the headers a core
\* answers a failed negotiation with.
OnWire(W) == (W \cap Units) \cup Headers

Typed(W) == /\ run \in Runs
            /\ core \in [Peers -> Endpoints]
            /\ at \in [Peers -> Running \cup {"closed", "failed"}]
            /\ reply \in [Peers -> [octets : Seq(W), done : BOOLEAN]]
            /\ live \in [Peers -> BOOLEAN]
            /\ rounds \in [Peers -> 0..maxApplicationRounds]
            /\ inbox \in [Peers -> Seq(OnWire(W))]
            /\ wire \in [Peers -> Seq(OnWire(W))]
            /\ \A p \in Peers : at[p] = "reading" => inbox[p] = <<>>

\* There are two processes, each the other's partner.
LEMMA Partners ==
    ASSUME NEW p \in Peers
    PROVE  /\ Other(p) \in Peers /\ Other(p) # p /\ Other(Other(p)) = p
           /\ \A q \in Peers : q = p \/ q = Other(p)
BY DEF Peers, Other

\* What a core writes is in the vocabulary of what it was given.
LEMMA Wrote ==
    ASSUME NEW W \in SUBSET Vocabulary, NEW e \in Endpoints
    PROVE  /\ \A u \in W \cap Units : /\ Sending(e, u).conn \in Endpoints
                                      /\ Sending(e, u).wrote \in Seq(OnWire(W))
           /\ \A u \in OnWire(W) : /\ Arriving(e, u).conn \in Endpoints
                                   /\ Arriving(e, u).wrote \in Seq(OnWire(W))
<1>1. Header(e.layer) \in Headers
  BY DEF Header, Headers, Endpoints
<1>2. \A v \in OnWire(W) : <<v>> \in Seq(OnWire(W))
  OBVIOUS
<1>3. <<>> \in Seq(OnWire(W))
  OBVIOUS
<1>4. <<Header(e.layer)>> \in Seq(OnWire(W))
  BY <1>1, <1>2 DEF OnWire
<1>5. ASSUME NEW u \in W \cap Units
      PROVE  Sending(e, u).conn \in Endpoints /\ Sending(e, u).wrote \in Seq(OnWire(W))
  <2> DEFINE r == Sending(e, u)
  <2>1. r \in SendRefusals(e, u) \/ TakenAs(e, TRUE, u, r)
    BY SendingShape
  <2>2. r.conn \in Endpoints /\ r.wrote \in {<<>>, <<u>>, <<Header(e.layer)>>}
    <3>1. CASE r \in Refusals(e)
      BY <3>1, RefusalMove
    <3>2. CASE TakenAs(e, TRUE, u, r)
      <4>1. r.conn \in Endpoints
        BY <3>2, AnswerTyped
      <4>2. \E c : r = Taken(c, UnitWrote(TRUE, u)) \/ r = Taken(c, <<>>)
        BY <3>2, Zenon DEF TakenAs
      <4>3. r.wrote \in {<<>>, <<u>>}
        BY <4>2, WroteField DEF UnitWrote
      <4> QED
        BY <4>1, <4>3
    <3> QED
      BY <2>1, <3>1, <3>2 DEF SendRefusals, Refusals
  <2>3. <<u>> \in Seq(OnWire(W))
    BY <1>2 DEF OnWire
  <2> QED
    BY <1>3, <1>4, <2>2, <2>3
<1>6. ASSUME NEW u \in OnWire(W)
      PROVE  Arriving(e, u).conn \in Endpoints /\ Arriving(e, u).wrote \in Seq(OnWire(W))
  <2>1. u \in Units
    BY DEF OnWire, Units
  <2>2. /\ Arriving(e, u) \in Refusals(e) \/ TakenAs(e, FALSE, u, Arriving(e, u))
        /\ \/ Arriving(e, u).wrote = <<>>
           \/ Arriving(e, u) = HeaderFailure(e)
    BY <2>1, ArrivingShape
  <2>3. Arriving(e, u).conn \in Endpoints
    BY <2>1, <2>2, AnswerTyped
  <2>4. HeaderFailure(e).wrote = <<Header(e.layer)>>
    BY DEF HeaderFailure, Refused
  <2> QED
    BY <1>3, <1>4, <2>2, <2>3, <2>4
<1> QED
  BY <1>5, <1>6

\* Init types the variables.
LEMMA InitTyped ==
    ASSUME NEW W, Init
    PROVE  Typed(W)
<1>1. InitialEndpoint \in Endpoints
  BY ConnectionAssumption
  DEF InitialEndpoint, Endpoints, States, Layers, Phases, Roles, Limits, APriori
<1>2. NoReply \in [octets : Seq(W), done : BOOLEAN]
  BY DEF NoReply
<1>3. <<>> \in Seq(OnWire(W))
  OBVIOUS
<1>4. 0 \in 0..maxApplicationRounds
  BY ShellAssumption
<1> QED
  BY <1>1, <1>2, <1>3, <1>4 DEF Init, Typed, Running

\* What a writing step does to the core and to the wire.
LEMMA WriteTyped ==
    ASSUME NEW W \in SUBSET Vocabulary, Typed(W), NEW p \in Peers,
           NEW e \in Endpoints, NEW units \in Seq(OnWire(W)), Write(p, e, units)
    PROVE  core' \in [Peers -> Endpoints] /\ wire' \in [Peers -> Seq(OnWire(W))]
<1>1. wire[Other(p)] \o units \in Seq(OnWire(W))
  <2>1. wire[Other(p)] \in Seq(OnWire(W))
    BY Partners DEF Typed
  <2> QED
    BY <2>1, ConcatProperties
<1> DEFINE longer == wire[Other(p)] \o units
<1>2. core' = [core EXCEPT ![p] = e] /\ wire' = [wire EXCEPT ![Other(p)] = longer]
  BY DEF Write
<1>3. longer \in Seq(OnWire(W))
  BY <1>1
<1> HIDE DEF longer
<1> QED
  BY <1>2, <1>3 DEF Typed

\* Each step keeps the types, over any vocabulary the applications keep to.
LEMMA StepTyped ==
    ASSUME NEW W \in SUBSET Vocabulary, Spoken(W), Typed(W), NEW p \in Peers, Step(p)
    PROVE  Typed(W)'
<1> USE DEF Goto, Running
<1>1. CASE Ask(p)
  <2>1. PICK r \in App(p, run, core[p]) :
            IF r.octets = <<>>
            THEN /\ Return(p, GoesOn(live[p], r))
                 /\ UNCHANGED <<run, core, reply, rounds, inbox, wire>>
            ELSE IF TooMany(rounds[p])
                 THEN Fail(p)
                 ELSE /\ reply'  = [reply EXCEPT ![p] = r]
                      /\ rounds' = [rounds EXCEPT ![p] = Counted(@)]
                      /\ Goto(p, "submitting")
                      /\ UNCHANGED <<run, core, live, inbox, wire>>
    BY <1>1 DEF Ask
  <2>2. r \in [octets : Seq(W), done : BOOLEAN]
    BY DEF Spoken, Typed
  <2>3. CASE r.octets = <<>>
    <3>1. GoesOn(live[p], r) \in BOOLEAN
      BY <2>2 DEF GoesOn, Typed
    <3> QED
      BY <2>1, <2>3, <3>1 DEF Typed, Return
  <2>4. CASE r.octets # <<>> /\ TooMany(rounds[p])
    BY <2>1, <2>4 DEF Typed, Fail
  <2>5. CASE r.octets # <<>> /\ ~TooMany(rounds[p])
    <3>1. Counted(rounds[p]) \in 0..maxApplicationRounds
      BY <2>5, ShellAssumption DEF Typed, Counted, TooMany
    <3> QED
      BY <2>1, <2>2, <2>5, <3>1 DEF Typed
  <2> QED
    BY <2>3, <2>4, <2>5
<1>2. CASE Submit(p)
  <2> DEFINE u == Head(reply[p].octets)
             rest == Tail(reply[p].octets)
             r == Sending(core[p], u)
  <2>1. u \in W /\ rest \in Seq(W)
    BY <1>2 DEF Submit, Typed
  <2>2. CASE u.kind = "garbage"
    BY <1>2, <2>2 DEF Submit, Fail, Typed
  <2>3. CASE u.kind # "garbage"
    <3>1. /\ Write(p, r.conn, r.wrote)
          /\ live'  = [live EXCEPT ![p] = @ /\ r.conn.state # "END"]
          /\ reply' = [reply EXCEPT ![p].octets = rest]
          /\ UNCHANGED <<run, at, rounds, inbox>>
      BY <1>2, <2>3 DEF Submit
    <3>2. u \in W \cap Units
      BY <2>1, <2>3 DEF Vocabulary, Garbage
    <3>3. r.conn \in Endpoints /\ r.wrote \in Seq(OnWire(W))
      BY <3>2, Wrote DEF Typed
    <3>4. core' \in [Peers -> Endpoints] /\ wire' \in [Peers -> Seq(OnWire(W))]
      BY <3>1, <3>3, WriteTyped
    <3>5. reply' \in [Peers -> [octets : Seq(W), done : BOOLEAN]]
      <4> HIDE DEF rest
      <4> QED
        BY <2>1, <3>1 DEF Typed
    <3> HIDE DEF r
    <3> QED
      BY <3>1, <3>4, <3>5 DEF Typed
  <2> QED
    BY <2>2, <2>3
<1>3. CASE WriteFails(p)
  BY <1>3 DEF WriteFails, Fail, Typed
<1>4. CASE EndReply(p)
  <2>1. NoReply \in [octets : Seq(W), done : BOOLEAN]
    BY DEF NoReply
  <2> QED
    BY <1>4, <2>1 DEF EndReply, Return, Typed
<1>5. CASE Serve(p)
  <2> DEFINE u == Head(inbox[p])
             rest == Tail(inbox[p])
             r == Arriving(core[p], u)
  <2>1. u \in OnWire(W) /\ rest \in Seq(OnWire(W))
    BY <1>5 DEF Serve, Typed
  <2>2. /\ Write(p, r.conn, r.wrote)
        /\ inbox' = [inbox EXCEPT ![p] = rest]
        /\ rounds' = [rounds EXCEPT ![p] = 0]
        /\ Goto(p, "asking")
        /\ UNCHANGED <<run, reply, live>>
    BY <1>5 DEF Serve
  <2>3. r.conn \in Endpoints /\ r.wrote \in Seq(OnWire(W))
    BY <2>1, Wrote DEF Typed
  <2>4. core' \in [Peers -> Endpoints] /\ wire' \in [Peers -> Seq(OnWire(W))]
    BY <2>2, <2>3, WriteTyped
  <2>5. inbox' \in [Peers -> Seq(OnWire(W))] /\ rounds' \in [Peers -> 0..maxApplicationRounds]
    <3> HIDE DEF rest
    <3> QED
      BY <2>1, <2>2, ShellAssumption DEF Typed
  <2>6. \A q \in Peers : at'[q] = "reading" => inbox'[q] = <<>>
    <3> HIDE DEF rest
    <3> QED
      BY <2>2 DEF Typed
  <2> HIDE DEF r
  <2> QED
    BY <2>2, <2>4, <2>5, <2>6 DEF Typed
<1>6. CASE ReadAgain(p)
  BY <1>6 DEF ReadAgain, Typed
<1>7. CASE Read(p)
  <2>1. PICK n \in 1..Len(wire[p]) :
            /\ inbox' = [inbox EXCEPT ![p] = SubSeq(wire[p], 1, n)]
            /\ wire'  = [wire EXCEPT ![p] = SubSeq(@, n + 1, Len(@))]
    BY <1>7 DEF Read
  <2> DEFINE first == SubSeq(wire[p], 1, n)
             rest == SubSeq(wire[p], n + 1, Len(wire[p]))
  <2>2. first \in Seq(OnWire(W)) /\ rest \in Seq(OnWire(W))
    <3>1. wire[p] \in Seq(OnWire(W)) /\ n \in 1..Len(wire[p]) /\ Len(wire[p]) \in Nat
      BY DEF Typed
    <3> QED
      BY <3>1, SubSeqProperties
  <2>3. inbox' = [inbox EXCEPT ![p] = first] /\ wire' = [wire EXCEPT ![p] = rest]
    BY <2>1
  <2> HIDE DEF first, rest
  <2>4. inbox' \in [Peers -> Seq(OnWire(W))] /\ wire' \in [Peers -> Seq(OnWire(W))]
    BY <2>2, <2>3 DEF Typed
  <2>5. \A q \in Peers : at'[q] = "reading" => inbox'[q] = <<>>
    BY <1>7, <2>3 DEF Read, Typed
  <2> QED
    BY <1>7, <2>4, <2>5 DEF Read, Typed
<1>8. CASE EndOfStream(p)
  BY <1>8 DEF EndOfStream, Typed
<1>9. CASE Reset(p)
  BY <1>9 DEF Reset, Fail, Typed
<1> QED
  BY <1>1, <1>2, <1>3, <1>4, <1>5, <1>6, <1>7, <1>8, <1>9 DEF Step

\* Whatever the applications say, as long as they keep to a vocabulary, the
\* streams keep to it too.
LEMMA NextTyped ==
    ASSUME NEW W \in SUBSET Vocabulary, Spoken(W), Typed(W), [Next]_vars
    PROVE  Typed(W)'
<1>1. ASSUME NEW p \in Peers, Step(p) PROVE Typed(W)'
  BY <1>1, StepTyped
<1>2. ASSUME UNCHANGED vars PROVE Typed(W)'
  BY <1>2 DEF Typed, vars
<1> QED
  BY <1>1, <1>2 DEF Next

\* The type invariant of the run, for all applications that reply with units
\* and with octets the core cannot read.
THEOREM TypeAlwaysOK ==
    ASSUME Spoken(Vocabulary)
    PROVE  Spec => []TypeOK
<1>1. Init => Typed(Vocabulary)
  BY InitTyped
<1>2. Typed(Vocabulary) /\ [Next]_vars => Typed(Vocabulary)'
  BY NextTyped
<1>3. Typed(Vocabulary) => TypeOK
  <2>1. OnWire(Vocabulary) = Units
    BY DEF OnWire, Vocabulary, Units
  <2> QED
    BY <2>1 DEF Typed, TypeOK, Vocabulary
<1> QED
  BY <1>1, <1>2, <1>3, PTL DEF Spec

-----------------------------------------------------------------------------
(* The three kinds of step. *)

\* What is on its way to p: read and not served, then written and not read.
Stream(p) == inbox[p] \o wire[p]

Quiet == /\ core' = core
         /\ \A p \in Peers : Stream(p)' = Stream(p)

\* The core at p gave the answer r, and what it wrote went to the partner.
Answered(p, r) == /\ core' = [core EXCEPT ![p] = r.conn]
                  /\ Stream(Other(p))' = Stream(Other(p)) \o r.wrote

Submitted(W, p) == \E u \in W \cap Units : /\ Answered(p, Sending(core[p], u))
                                           /\ Stream(p)' = Stream(p)

Served(p) == /\ Stream(p) # <<>>
             /\ Answered(p, Arriving(core[p], Stream(p)[1]))
             /\ Stream(p)' = Tail(Stream(p))

\* What is on its way to a process is a sequence of what may be written.
LEMMA StreamTyped ==
    ASSUME NEW W, Typed(W), NEW p \in Peers
    PROVE  Stream(p) \in Seq(OnWire(W))
<1>1. inbox[p] \in Seq(OnWire(W)) /\ wire[p] \in Seq(OnWire(W))
  BY DEF Typed
<1> QED
  BY <1>1, ConcatProperties DEF Stream

\* The first unit of a stream is the first of its inbox, when that has one.
LEMMA ServedFirst ==
    ASSUME NEW S, NEW s \in Seq(S), NEW t \in Seq(S), s # <<>>
    PROVE  /\ s \o t # <<>>
           /\ (s \o t)[1] = Head(s)
           /\ Tail(s \o t) = Tail(s) \o t
<1>1. /\ Head(s) \in S /\ Tail(s) \in Seq(S) /\ Len(Tail(s)) = Len(s) - 1
      /\ \A i \in 1 .. Len(Tail(s)) : Tail(s)[i] = s[i + 1]
  BY HeadTailProperties
<1>2. Len(s) \in Nat \ {0} /\ Len(t) \in Nat /\ Head(s) = s[1]
  BY EmptySeq
<1>3. /\ s \o t \in Seq(S)
      /\ Len(s \o t) = Len(s) + Len(t)
      /\ \A i \in 1 .. Len(s) + Len(t) :
             (s \o t)[i] = IF i <= Len(s) THEN s[i] ELSE t[i - Len(s)]
  BY ConcatProperties
<1>4. s \o t # <<>>
  BY <1>2, <1>3
<1>5. /\ Tail(s \o t) \in Seq(S)
      /\ Len(Tail(s \o t)) = Len(s \o t) - 1
      /\ \A i \in 1 .. Len(Tail(s \o t)) : Tail(s \o t)[i] = (s \o t)[i + 1]
  BY <1>3, <1>4, HeadTailProperties
<1>6. /\ Tail(s) \o t \in Seq(S)
      /\ Len(Tail(s) \o t) = Len(Tail(s)) + Len(t)
      /\ \A i \in 1 .. Len(Tail(s)) + Len(t) :
             (Tail(s) \o t)[i] = IF i <= Len(Tail(s)) THEN Tail(s)[i] ELSE t[i - Len(Tail(s))]
  BY <1>1, ConcatProperties
<1>7. Len(Tail(s \o t)) = Len(Tail(s) \o t)
  BY <1>1, <1>2, <1>3, <1>5, <1>6
<1>8. \A i \in 1 .. Len(Tail(s \o t)) : Tail(s \o t)[i] = (Tail(s) \o t)[i]
  BY <1>1, <1>2, <1>3, <1>5, <1>6
<1> QED
  BY <1>2, <1>3, <1>4, <1>5, <1>6, <1>7, <1>8, SeqEqual

\* What a writing step leaves of the two streams, the units it serves aside.
LEMMA WriteAnswers ==
    ASSUME NEW W \in SUBSET Vocabulary, Typed(W), NEW p \in Peers, NEW r,
           r.wrote \in Seq(OnWire(W)), Write(p, r.conn, r.wrote),
           inbox'[Other(p)] = inbox[Other(p)]
    PROVE  Answered(p, r) /\ wire'[p] = wire[p]
<1>1. /\ wire'[Other(p)] = wire[Other(p)] \o r.wrote
      /\ wire'[p] = wire[p]
      /\ core' = [core EXCEPT ![p] = r.conn]
  BY Partners DEF Write, Typed
<1>2. /\ inbox[Other(p)] \in Seq(OnWire(W)) /\ wire[Other(p)] \in Seq(OnWire(W))
  BY Partners DEF Typed
<1>3. inbox[Other(p)] \o (wire[Other(p)] \o r.wrote)
        = (inbox[Other(p)] \o wire[Other(p)]) \o r.wrote
  <2> DEFINE a == inbox[Other(p)]
             b == wire[Other(p)]
             c == r.wrote
  <2>1. a \in Seq(OnWire(W)) /\ b \in Seq(OnWire(W)) /\ c \in Seq(OnWire(W))
    BY <1>2
  <2> HIDE DEF a, b, c
  <2>2. (a \o b) \o c = a \o (b \o c)
    BY <2>1, ConcatAssociative
  <2> QED
    BY <2>2 DEF a, b, c
<1> QED
  BY <1>1, <1>3 DEF Answered, Stream

\* Every step of a process is quiet, submits, or serves the unit that is next.
LEMMA StepMoves ==
    ASSUME NEW W \in SUBSET Vocabulary, Typed(W), NEW p \in Peers, Step(p)
    PROVE  Quiet \/ Submitted(W, p) \/ Served(p)
<1> USE DEF Goto
<1>1. ASSUME UNCHANGED <<core, inbox, wire>> PROVE Quiet
  BY <1>1 DEF Quiet, Stream
<1>2. CASE Ask(p)
  BY <1>1, <1>2 DEF Ask, Return, Fail
<1>3. CASE Submit(p)
  <2> DEFINE u == Head(reply[p].octets)
             r == Sending(core[p], u)
  <2>1. u \in W
    BY <1>3 DEF Submit, Typed
  <2>2. CASE u.kind = "garbage"
    BY <1>1, <1>3, <2>2 DEF Submit, Fail
  <2>3. CASE u.kind # "garbage"
    <3>1. Write(p, r.conn, r.wrote) /\ inbox' = inbox
      BY <1>3, <2>3 DEF Submit
    <3>2. u \in W \cap Units
      BY <2>1, <2>3 DEF Vocabulary, Garbage
    <3>3. r.wrote \in Seq(OnWire(W))
      BY <3>2, Wrote DEF Typed
    <3> HIDE DEF u
    <3>4. Answered(p, r) /\ wire'[p] = wire[p]
      <4> HIDE DEF r
      <4> QED
        BY <3>1, <3>3, WriteAnswers
    <3> QED
      BY <3>1, <3>2, <3>4 DEF Submitted, Stream
  <2> QED
    BY <2>2, <2>3
<1>4. CASE WriteFails(p)
  BY <1>1, <1>4 DEF WriteFails, Fail
<1>5. CASE EndReply(p)
  BY <1>1, <1>5 DEF EndReply, Return
<1>6. CASE Serve(p)
  <2> DEFINE u == Head(inbox[p])
             r == Arriving(core[p], u)
  <2>1. inbox[p] \in Seq(OnWire(W)) /\ wire[p] \in Seq(OnWire(W)) /\ inbox[p] # <<>>
    BY <1>6 DEF Serve, Typed
  <2>2. /\ Write(p, r.conn, r.wrote)
        /\ inbox' = [inbox EXCEPT ![p] = Tail(inbox[p])]
    BY <1>6 DEF Serve
  <2>3. u \in OnWire(W)
    BY <2>1
  <2>4. r.wrote \in Seq(OnWire(W))
    BY <2>3, Wrote DEF Typed
  <2>5. inbox'[Other(p)] = inbox[Other(p)] /\ inbox'[p] = Tail(inbox[p])
    BY <2>2, Partners DEF Typed
  <2> HIDE DEF u
  <2>6. Answered(p, r) /\ wire'[p] = wire[p]
    <3> HIDE DEF r
    <3> QED
      BY <2>2, <2>4, <2>5, WriteAnswers
  <2>7. Stream(p)' = Tail(inbox[p]) \o wire[p]
    BY <2>5, <2>6 DEF Stream
  <2>8. Stream(p) # <<>> /\ Stream(p)[1] = u /\ Tail(Stream(p)) = Tail(inbox[p]) \o wire[p]
    BY <2>1, ServedFirst DEF Stream, u
  <2> QED
    BY <2>6, <2>7, <2>8 DEF Served
<1>7. CASE ReadAgain(p)
  BY <1>1, <1>7 DEF ReadAgain
<1>8. CASE Read(p)
  <2>1. PICK n \in 1..Len(wire[p]) :
            /\ inbox' = [inbox EXCEPT ![p] = SubSeq(wire[p], 1, n)]
            /\ wire'  = [wire EXCEPT ![p] = SubSeq(@, n + 1, Len(@))]
            /\ inbox[p] = <<>> /\ core' = core
    BY <1>8 DEF Read, Typed
  <2> DEFINE first == SubSeq(wire[p], 1, n)
             rest == SubSeq(wire[p], n + 1, Len(wire[p]))
  <2>2. wire[p] \in Seq(OnWire(W)) /\ Len(wire[p]) \in Nat
    BY DEF Typed
  <2>3. first \o rest = wire[p]
    <3>1. first \o rest = SubSeq(wire[p], 1, Len(wire[p]))
      <4>1. 1 \in 1 .. Len(wire[p]) + 1 /\ n \in 1 - 1 .. Len(wire[p])
            /\ Len(wire[p]) \in n .. Len(wire[p])
        BY <2>2
      <4> QED
        BY <2>2, <4>1, ConcatAdjacentSubSeq
    <3> QED
      BY <2>2, <3>1, SubSeqFull
  <2>4. <<>> \o wire[p] = wire[p]
    BY <2>2, ConcatEmptySeq
  <2>5. inbox' = [inbox EXCEPT ![p] = first] /\ wire' = [wire EXCEPT ![p] = rest]
    BY <2>1
  <2>6. Stream(p)' = Stream(p)
    <3> HIDE DEF first, rest
    <3> QED
      BY <2>1, <2>3, <2>4, <2>5 DEF Stream, Typed
  <2>7. Stream(Other(p))' = Stream(Other(p))
    <3> HIDE DEF first, rest
    <3> QED
      BY <2>5, Partners DEF Stream, Typed
  <2> QED
    BY <2>1, <2>6, <2>7, Partners DEF Quiet
<1>9. CASE EndOfStream(p)
  BY <1>1, <1>9 DEF EndOfStream
<1>10. CASE Reset(p)
  BY <1>1, <1>10 DEF Reset, Fail
<1> QED
  BY <1>2, <1>3, <1>4, <1>5, <1>6, <1>7, <1>8, <1>9, <1>10 DEF Step

-----------------------------------------------------------------------------
(* A close is the last a process says, whatever its application asks for:   *)
(* only the header that answers a failed negotiation may come after it.     *)

IsClose(u) == u.kind = "frame" /\ u.body = "close"

\* The states of a peer that has said its last.
Closed == {"CLOSE_SENT", "CLOSE_PIPE", "OC_PIPE", "END", "DISCARDING"}

SaidLast(e) == e.state \in Closed /\ e.layer = "amqp"

\* A close on the stream s was the sender's last frame, and the sender, at e,
\* has not gone back to sending since.
Concluded(s, e) ==
    \A i \in DOMAIN s : IsClose(s[i]) =>
        /\ SaidLast(e)
        /\ \A j \in DOMAIN s : j > i => s[j] \in Headers

CloseSaid == \A p \in Peers : Concluded(Stream(Other(p)), core[p])

\* A core that has said its last writes nothing its application asks for.
LEMMA ClosedSends ==
    ASSUME NEW e \in Endpoints, NEW u \in Units, SaidLast(e)
    PROVE  SaidLast(Sending(e, u).conn) /\ Sending(e, u).wrote = <<>>
<1> DEFINE r == Sending(e, u)
<1>1. ~HeaderTaken(e, TRUE, u, r) /\ ~SaslTaken(e, TRUE, u, r)
  BY DEF SaidLast, Closed, HeaderSenders, HeaderTaken, SaslTaken
<1>2. ~FrameTaken(e, TRUE, u, r)
  <2>1. ~PermitsSend(e.state, u.body)
    BY DEF SaidLast, Closed, PermitsSend, OpenSenders, ConformingSenders, AnySenders
  <2> QED
    BY <2>1 DEF FrameTaken, Permits
<1> QED
  BY <1>1, <1>2, SendingMoves DEF SaidLast

\* Nor does what it hears take it back.
LEMMA ClosedHears ==
    ASSUME NEW e \in Endpoints, NEW u \in Units, SaidLast(e)
    PROVE  SaidLast(Arriving(e, u).conn)
<1> DEFINE r == Arriving(e, u)
<1>1. CASE r \in Refusals(e)
  BY <1>1, RefusalMove DEF SaidLast, Closed
<1>2. CASE HeaderTaken(e, FALSE, u, r)
  <2>1. u.layer = "amqp" /\ e.state = "OC_PIPE" /\ u.layer \in Layers
    BY <1>2 DEF HeaderTaken, LayerAgrees, SaidLast, Closed, HeaderReceivers
  <2>2. HeaderLed(e, FALSE, u, r.conn)
    BY <1>2, HeaderLeads, Zenon
  <2> QED
    BY <2>1, <2>2 DEF HeaderLed, SaidLast, Closed, HeaderReceived
<1>3. CASE FrameTaken(e, FALSE, u, r)
  <2>1. /\ u \in OpenFrames \cup PlainFrames /\ r.conn = AfterFrame(e, FALSE, u)
        /\ PermitsReceive(e.state, u.body)
    BY <1>3 DEF FrameTaken, Permits
  <2>2. \/ u.body = "open" /\ e.state = "CLOSE_PIPE"
        \/ u.body # "open" /\ e.state \in {"CLOSE_SENT", "DISCARDING"}
    BY <2>1 DEF PermitsReceive, SaidLast, Closed, OpenReceivers, AnyReceivers
  <2>3. FrameLed(e, FALSE, u, r.conn)
    BY <1>3, FrameLeads, Zenon
  <2> QED
    BY <2>2, <2>3 DEF FrameLed, SaidLast, Closed, OpenReceived, CloseReceived
<1>4. ~SaslTaken(e, FALSE, u, r)
  BY DEF SaidLast, SaslTaken
<1>5. HeaderFailure(e) \in Refusals(e)
  BY DEF HeaderFailure, Refusals
<1> QED
  BY <1>1, <1>2, <1>3, <1>4, <1>5, ArrivingMoves

\* A core that writes a close has said its last.
LEMMA CloseConcludes ==
    ASSUME NEW e \in Endpoints, NEW u \in Units, IsClose(u), Sending(e, u).wrote # <<>>
    PROVE  SaidLast(Sending(e, u).conn)
<1> DEFINE r == Sending(e, u)
<1>1. FrameTaken(e, TRUE, u, r)
  <2>1. u \notin Headers /\ u \notin SaslFrames
    BY DEF IsClose, Headers, SaslFrames, SaslBodies
  <2> QED
    BY <2>1, SendingMoves DEF HeaderTaken, SaslTaken
<1>2. /\ u \in OpenFrames \cup PlainFrames /\ u.body = "close" /\ e.layer = "amqp"
      /\ PermitsSend(e.state, "close")
      /\ r.conn = AfterFrame(e, TRUE, u)
  BY <1>1 DEF FrameTaken, Permits, IsClose
<1>3. FrameLed(e, TRUE, u, r.conn)
  BY <1>1, FrameLeads, Zenon
<1>4. CloseSent(e.state) \in Closed
  BY <1>2 DEF PermitsSend, OpenSenders, ConformingSenders, AnySenders, CloseSent, Closed
<1> QED
  BY <1>2, <1>3, <1>4 DEF SaidLast, FrameLed

\* What either route writes: the unit, nothing, or a header.
LEMMA WroteOne ==
    ASSUME NEW e \in Endpoints, NEW u \in Units
    PROVE  /\ Sending(e, u).wrote \in {<<>>, <<u>>}
           /\ \/ Arriving(e, u).wrote = <<>>
              \/ \E h \in Headers : Arriving(e, u).wrote = <<h>>
<1>1. Header(e.layer) \in Headers
  BY DEF Header, Headers, Endpoints
<1>2. HeaderFailure(e).wrote = <<Header(e.layer)>>
  BY WroteField DEF HeaderFailure
<1> QED
  BY <1>1, <1>2, SendingMoves, ArrivingMoves

\* Serving the first unit of a stream takes nothing from what it promises.
LEMMA ConcludedServed ==
    ASSUME NEW S, NEW s \in Seq(S), s # <<>>, NEW e, Concluded(s, e)
    PROVE  Concluded(Tail(s), e)
<1>1. /\ Tail(s) \in Seq(S) /\ Len(Tail(s)) = Len(s) - 1 /\ Len(s) \in Nat \ {0}
      /\ \A i \in 1 .. Len(Tail(s)) : Tail(s)[i] = s[i + 1]
  BY HeadTailProperties, EmptySeq
<1>2. DOMAIN s = 1 .. Len(s) /\ DOMAIN Tail(s) = 1 .. Len(Tail(s))
  BY <1>1, LenProperties
<1>3. \A i \in DOMAIN Tail(s) : i \in Nat /\ i + 1 \in DOMAIN s /\ Tail(s)[i] = s[i + 1]
  BY <1>1, <1>2
<1> QED
  BY <1>2, <1>3 DEF Concluded

\* A unit more: from a sender that has not concluded, any unit, a close if it
\* concludes by it; from one that has, a header.
LEMMA ConcludedSaid ==
    ASSUME NEW S, NEW s \in Seq(S), NEW v \in S, NEW e, NEW c, Concluded(s, e),
           SaidLast(e) => SaidLast(c) /\ v \in Headers,
           IsClose(v) => SaidLast(c)
    PROVE  Concluded(s \o <<v>>, c)
<1> DEFINE t == s \o <<v>>
<1>1. /\ t \in Seq(S) /\ Len(t) = Len(s) + 1 /\ Len(s) \in Nat
      /\ \A i \in 1 .. Len(s) : t[i] = s[i]
      /\ t[Len(s) + 1] = v
  <2>1. <<v>> \in Seq(S) /\ Len(<<v>>) = 1 /\ <<v>>[1] = v
    OBVIOUS
  <2> DEFINE w == <<v>>
  <2>2. w \in Seq(S) /\ Len(w) = 1 /\ w[1] = v
    BY <2>1
  <2> HIDE DEF w
  <2>3. /\ s \o w \in Seq(S)
        /\ Len(s \o w) = Len(s) + Len(w)
        /\ \A i \in 1 .. Len(s) + Len(w) :
               (s \o w)[i] = IF i <= Len(s) THEN s[i] ELSE w[i - Len(s)]
    BY <2>2, ConcatProperties
  <2> QED
    BY <2>2, <2>3 DEF w
<1> HIDE DEF t
<1>2. DOMAIN s = 1 .. Len(s) /\ DOMAIN t = 1 .. Len(s) + 1
  BY <1>1, LenProperties
<1>3. ASSUME NEW i \in DOMAIN t, IsClose(t[i])
      PROVE  SaidLast(c) /\ \A j \in DOMAIN t : j > i => t[j] \in Headers
  <2>1. CASE i = Len(s) + 1
    BY <1>1, <1>2, <1>3, <2>1
  <2>2. CASE i \in DOMAIN s
    <3>1. IsClose(s[i])
      BY <1>1, <1>2, <1>3, <2>2
    <3>2. SaidLast(e) /\ \A j \in DOMAIN s : j > i => s[j] \in Headers
      BY <2>2, <3>1 DEF Concluded
    <3> QED
      BY <1>1, <1>2, <3>2
  <2> QED
    BY <1>1, <1>2, <2>1, <2>2
<1> QED
  BY <1>3 DEF Concluded, t

\* The sender may go on, as long as it does not go back to sending.
LEMMA ConcludedMoved ==
    ASSUME NEW S, NEW s \in Seq(S), NEW e, NEW c, Concluded(s, e), SaidLast(e) => SaidLast(c)
    PROVE  Concluded(s, c)
  BY DEF Concluded

\* A step keeps what each state claims about its close.
LEMMA CloseSaidStep ==
    ASSUME NEW W \in SUBSET Vocabulary, Typed(W), CloseSaid, NEW p \in Peers, Step(p)
    PROVE  CloseSaid'
<1> DEFINE q == Other(p)
<1>1. /\ q \in Peers /\ q # p /\ Other(q) = p
      /\ \A o \in Peers : o = p \/ o = q
  BY Partners
<1>2. Stream(p) \in Seq(OnWire(W)) /\ Stream(q) \in Seq(OnWire(W))
  BY <1>1, StreamTyped
<1>3. Concluded(Stream(q), core[p]) /\ Concluded(Stream(p), core[q])
  BY <1>1 DEF CloseSaid
<1>4. SUFFICES Concluded(Stream(q)', core'[p]) /\ Concluded(Stream(p)', core'[q])
  BY <1>1 DEF CloseSaid
<1>5. core \in [Peers -> Endpoints]
  BY DEF Typed
<1> HIDE DEF q
<1>6. CASE Quiet
  BY <1>1, <1>3, <1>6 DEF Quiet
<1>7. CASE Submitted(W, p)
  <2>1. PICK u \in W \cap Units : /\ core' = [core EXCEPT ![p] = Sending(core[p], u).conn]
                                  /\ Stream(q)' = Stream(q) \o Sending(core[p], u).wrote
                                  /\ Stream(p)' = Stream(p)
    BY <1>7 DEF Submitted, Answered, q
  <2> DEFINE r == Sending(core[p], u)
  <2>2. core'[p] = r.conn /\ core'[q] = core[q]
    BY <1>1, <1>5, <2>1
  <2>3. /\ SaidLast(core[p]) => SaidLast(r.conn) /\ r.wrote = <<>>
        /\ IsClose(u) /\ r.wrote # <<>> => SaidLast(r.conn)
        /\ r.wrote = <<>> \/ r.wrote = <<u>>
    BY <1>5, ClosedSends, CloseConcludes, WroteOne
  <2>4. Concluded(Stream(q) \o r.wrote, r.conn)
    <3>1. CASE r.wrote = <<>>
      <4>1. Stream(q) \o <<>> = Stream(q)
        BY <1>2, ConcatEmptySeq
      <4> HIDE DEF r
      <4> QED
        BY <1>2, <1>3, <2>3, <3>1, <4>1, ConcludedMoved
    <3>2. CASE r.wrote = <<u>>
      <4>1. u \in OnWire(W) /\ ~SaidLast(core[p]) /\ (IsClose(u) => SaidLast(r.conn))
        BY <2>3, <3>2 DEF OnWire
      <4> HIDE DEF r
      <4> QED
        BY <1>2, <1>3, <3>2, <4>1, ConcludedSaid
    <3> QED
      BY <2>3, <3>1, <3>2
  <2> QED
    BY <1>3, <2>1, <2>2, <2>4
<1>8. CASE Served(p)
  <2> DEFINE u == Stream(p)[1]
             r == Arriving(core[p], u)
  <2>1. /\ Stream(p) # <<>>
        /\ core' = [core EXCEPT ![p] = r.conn]
        /\ Stream(q)' = Stream(q) \o r.wrote
        /\ Stream(p)' = Tail(Stream(p))
    BY <1>8 DEF Served, Answered, q
  <2>2. core'[p] = r.conn /\ core'[q] = core[q]
    BY <1>1, <1>5, <2>1
  <2>3. u \in Units
    <3>1. u \in OnWire(W)
      <4>1. 1 \in 1 .. Len(Stream(p))
        BY <1>2, <2>1, EmptySeq
      <4> QED
        BY <1>2, <4>1, ElementOfSeq
    <3> QED
      BY <3>1 DEF OnWire, Units
  <2> HIDE DEF u
  <2>4. /\ SaidLast(core[p]) => SaidLast(r.conn)
        /\ r.wrote = <<>> \/ \E h \in Headers : r.wrote = <<h>>
    BY <1>5, <2>3, ClosedHears, WroteOne
  <2> HIDE DEF r
  <2>5. Concluded(Stream(q) \o r.wrote, r.conn)
    <3>1. CASE r.wrote = <<>>
      <4>1. Stream(q) \o <<>> = Stream(q)
        BY <1>2, ConcatEmptySeq
      <4> QED
        BY <1>2, <1>3, <2>4, <3>1, <4>1, ConcludedMoved
    <3>2. ASSUME NEW h \in Headers, r.wrote = <<h>> PROVE Concluded(Stream(q) \o r.wrote, r.conn)
      <4>1. h \in OnWire(W) /\ ~IsClose(h)
        BY DEF OnWire, IsClose, Headers
      <4> QED
        BY <1>2, <1>3, <2>4, <3>2, <4>1, ConcludedSaid
    <3> QED
      BY <2>4, <3>1, <3>2
  <2>6. Concluded(Tail(Stream(p)), core[q])
    BY <1>2, <1>3, <2>1, ConcludedServed
  <2> QED
    BY <2>1, <2>2, <2>5, <2>6
<1> QED
  BY <1>6, <1>7, <1>8, StepMoves

\* Whatever the applications ask for: a close on its way says that its sender
\* has concluded, and nothing but a header is behind it.
THEOREM CloseAlwaysSaid ==
    ASSUME Spoken(Vocabulary)
    PROVE  Spec => []CloseSaid
<1> DEFINE Inv == Typed(Vocabulary) /\ CloseSaid
<1>1. Init => Inv
  <2>1. ASSUME Init PROVE CloseSaid
    <3>1. \A p \in Peers : Stream(p) = <<>>
      BY <2>1 DEF Init, Stream
    <3> QED
      BY <3>1, Partners DEF CloseSaid, Concluded
  <2> QED
    BY <2>1, InitTyped
<1>2. Inv /\ [Next]_vars => Inv'
  <2>1. ASSUME Inv, NEW p \in Peers, Step(p) PROVE CloseSaid'
    BY <2>1, CloseSaidStep
  <2>2. ASSUME Inv, UNCHANGED vars PROVE CloseSaid'
    BY <2>2 DEF CloseSaid, Stream, vars
  <2> QED
    BY <2>1, <2>2, NextTyped DEF Next
<1> QED
  BY <1>1, <1>2, PTL DEF Spec

-----------------------------------------------------------------------------
(* Applications that leave the SASL dialogue alone, as the shipped ones do. *)
(* A process then finds the header it waits for at the front of its stream, *)
(* so no negotiation is answered with a header, and a close is the last.    *)

PlainVocabulary == Vocabulary \ SaslFrames

\* The states of a peer that has not sent its header, or is past it all.
Waiting == {"START", "HDR_RCVD", "DISCARDING", "END"}

\* A receiver, at d, that waits for a header has one first on its stream s, or
\* an empty stream and a partner, at e, whose first words are still to come.
HeaderDue(s, e, d) ==
    d.state \in HeaderReceivers =>
        \/ s = <<>> /\ e.state \in Waiting
        \/ s # <<>> /\ s[1] \in Headers

HeaderFirst == \A p \in Peers : HeaderDue(Stream(Other(p)), core[p], core[Other(p)])

LastOnly(s) == \A i \in DOMAIN s : IsClose(s[i]) => i = Len(s)

ClosesLast == \A p \in Peers : LastOnly(Stream(p))

\* Sending: nobody begins to wait for a header, and a peer that has not spoken
\* begins with one.
LEMMA PlainSends ==
    ASSUME NEW e \in Endpoints, NEW u \in Units \ SaslFrames
    PROVE  LET r == Sending(e, u)
           IN  /\ r.conn.state \in HeaderReceivers => e.state \in HeaderReceivers
               /\ e.state \in Waiting => \/ r.wrote = <<>> /\ r.conn.state \in Waiting
                                         \/ r.wrote = <<u>> /\ u \in Headers
<1> DEFINE r == Sending(e, u)
<1>1. CASE r.conn = e /\ r.wrote = <<>>
  BY <1>1
<1>2. CASE HeaderTaken(e, TRUE, u, r) /\ r.wrote = <<u>>
  <2>1. HeaderLed(e, TRUE, u, r.conn)
    BY <1>2, HeaderLeads, Zenon
  <2>2. e.state \in HeaderSenders /\ u \in Headers
    BY <1>2 DEF HeaderTaken
  <2> QED
    BY <1>2, <2>1, <2>2 DEF HeaderLed, HeaderSenders, HeaderReceivers, HeaderSent
<1>3. CASE FrameTaken(e, TRUE, u, r) /\ r.wrote = <<u>>
  <2>1. FrameLed(e, TRUE, u, r.conn)
    BY <1>3, FrameLeads, Zenon
  <2>2. PermitsSend(e.state, u.body)
    BY <1>3 DEF FrameTaken, Permits
  <2> QED
    BY <2>1, <2>2 DEF FrameLed, PermitsSend, OpenSenders, ConformingSenders, AnySenders,
                      HeaderReceivers, OpenSent, CloseSent, Waiting
<1> QED
  BY <1>1, <1>2, <1>3, SendingMoves DEF SaslTaken

\* Hearing what is due: it writes nothing, ends the wait for a header, and does
\* not make a peer that has not spoken one that has.
LEMMA PlainHears ==
    ASSUME NEW e \in Endpoints, NEW u \in Units \ SaslFrames,
           e.state \in HeaderReceivers => u \in Headers
    PROVE  LET r == Arriving(e, u)
           IN  /\ r.wrote = <<>>
               /\ r.conn.state \notin HeaderReceivers
               /\ e.state \in Waiting => r.conn.state \in Waiting
<1> DEFINE r == Arriving(e, u)
<1>1. CASE r \in Refusals(e) /\ r.wrote = <<>>
  <2>1. r.conn = e \/ r.conn.state \in {"END", "DISCARDING"}
    BY <1>1, RefusalMove
  <2>2. CASE e.state \notin HeaderReceivers
    BY <1>1, <2>1, <2>2 DEF HeaderReceivers, Waiting
  <2>3. CASE e.state \in HeaderReceivers
    <3>1. r = StepHeader(e, FALSE, u.layer) /\ u.layer \in Layers
      BY <2>3 DEF Arriving, Headers
    <3>2. \/ r = Refused([e EXCEPT !.state = "END"], <<>>)
          \/ r = Taken(AfterHeader(e, FALSE, u.layer), <<>>)
      BY <2>3, <3>1 DEF StepHeader, AfterHeader
    <3>3. r.ok = FALSE
      BY <1>1, RefusalMove
    <3> DEFINE ended == [e EXCEPT !.state = "END"]
    <3>4. r.conn = ended
      <4>1. \A c, w : Taken(c, w).ok = TRUE /\ Refused(c, w).conn = c
        BY DEF Taken, Refused
      <4> HIDE DEF r, ended
      <4>2. r = Refused(ended, <<>>)
        BY <3>2, <3>3, <4>1 DEF ended
      <4> QED
        BY <4>1, <4>2
    <3> QED
      BY <1>1, <3>4 DEF Endpoints, HeaderReceivers, Waiting
  <2> QED
    BY <2>2, <2>3
<1>2. CASE HeaderTaken(e, FALSE, u, r) /\ r.wrote = <<>>
  <2>1. HeaderLed(e, FALSE, u, r.conn)
    BY <1>2, HeaderLeads, Zenon
  <2>2. e.state \in HeaderReceivers
    BY <1>2 DEF HeaderTaken
  <2> QED
    BY <1>2, <2>1, <2>2 DEF HeaderLed, HeaderReceivers, HeaderReceived, Waiting
<1>3. CASE FrameTaken(e, FALSE, u, r) /\ r.wrote = <<>>
  <2>1. FrameLed(e, FALSE, u, r.conn)
    BY <1>3, FrameLeads, Zenon
  <2>2. PermitsReceive(e.state, u.body)
    BY <1>3 DEF FrameTaken, Permits
  <2> QED
    BY <1>3, <2>1, <2>2 DEF FrameLed, PermitsReceive, OpenReceivers, AnyReceivers,
                      HeaderReceivers, OpenReceived, CloseReceived, Waiting
<1>4. CASE /\ u = EmptyFrame /\ Permits(e.state, FALSE, "other")
           /\ r.conn = e /\ r.wrote = <<>>
  <2>1. PermitsReceive(e.state, "other")
    BY <1>4 DEF Permits
  <2> QED
    BY <1>4, <2>1 DEF PermitsReceive, OpenReceivers, AnyReceivers, HeaderReceivers
<1> QED
  BY <1>1, <1>2, <1>3, <1>4, ArrivingMoves DEF SaslTaken

\* A stream with a unit more, and with its first unit gone.
LEMMA StreamSaid ==
    ASSUME NEW S, NEW s \in Seq(S), NEW v \in S
    PROVE  /\ s \o <<v>> # <<>>
           /\ (s \o <<v>>)[1] = IF s = <<>> THEN v ELSE s[1]
           /\ (\A i \in DOMAIN s : ~IsClose(s[i])) => LastOnly(s \o <<v>>)
<1> DEFINE w == <<v>>
           t == s \o w
<1>1. w \in Seq(S) /\ Len(w) = 1 /\ w[1] = v
  OBVIOUS
<1> HIDE DEF w
<1>2. /\ t \in Seq(S)
      /\ Len(t) = Len(s) + Len(w)
      /\ \A i \in 1 .. Len(s) + Len(w) :
             t[i] = IF i <= Len(s) THEN s[i] ELSE w[i - Len(s)]
  BY <1>1, ConcatProperties
<1> HIDE DEF t
<1>3. Len(s) \in Nat /\ (s # <<>> => Len(s) > 0) /\ Len(<<>>) = 0
  BY EmptySeq
<1>4. DOMAIN t = 1 .. Len(s) + 1 /\ DOMAIN s = 1 .. Len(s)
  BY <1>1, <1>2, <1>3, LenProperties
<1>5. t # <<>> /\ t[1] = IF s = <<>> THEN v ELSE s[1]
  BY <1>1, <1>2, <1>3
<1>6. (\A i \in DOMAIN s : ~IsClose(s[i])) => LastOnly(t)
  <2>1. ASSUME NEW i \in DOMAIN t, IsClose(t[i]), i # Len(t), \A j \in DOMAIN s : ~IsClose(s[j])
        PROVE  FALSE
    <3>1. i \in DOMAIN s /\ t[i] = s[i]
      BY <1>1, <1>2, <1>3, <1>4, <2>1
    <3> QED
      BY <2>1, <3>1
  <2> QED
    BY <2>1 DEF LastOnly
<1> QED
  BY <1>5, <1>6 DEF t, w

\* What is last in a stream is last in the rest of it.
LEMMA StreamServed ==
    ASSUME NEW S, NEW s \in Seq(S), s # <<>>, LastOnly(s)
    PROVE  LastOnly(Tail(s))
<1>1. /\ Tail(s) \in Seq(S) /\ Len(Tail(s)) = Len(s) - 1 /\ Len(s) \in Nat \ {0}
      /\ \A i \in 1 .. Len(Tail(s)) : Tail(s)[i] = s[i + 1]
  BY HeadTailProperties, EmptySeq
<1>2. DOMAIN s = 1 .. Len(s) /\ DOMAIN Tail(s) = 1 .. Len(Tail(s))
  BY <1>1, LenProperties
<1>3. ASSUME NEW i \in DOMAIN Tail(s), IsClose(Tail(s)[i]) PROVE i = Len(Tail(s))
  <2>1. i + 1 \in DOMAIN s /\ Tail(s)[i] = s[i + 1] /\ i \in Nat
    BY <1>1, <1>2
  <2>2. i + 1 = Len(s)
    BY <1>3, <2>1 DEF LastOnly
  <2>3. Len(Tail(s)) = Len(s) - 1 /\ Len(s) \in Nat /\ i \in Nat
    BY <1>1, <2>1
  <2> QED
    BY <2>2, <2>3
<1> QED
  BY <1>3 DEF LastOnly

\* Without SASL frames, a step keeps the header first and the close last.
LEMMA PlainStep ==
    ASSUME Typed(PlainVocabulary), CloseSaid, HeaderFirst, ClosesLast,
           NEW p \in Peers, Step(p)
    PROVE  HeaderFirst' /\ ClosesLast'
<1> DEFINE q == Other(p)
           W == PlainVocabulary
<1>1. /\ q \in Peers /\ q # p /\ Other(q) = p
      /\ \A o \in Peers : o = p \/ o = q
  BY Partners
<1>2. W \in SUBSET Vocabulary /\ W \cap Units = Units \ SaslFrames
      /\ OnWire(W) = Units \ SaslFrames
  BY DEF PlainVocabulary, Vocabulary, OnWire, Units, Headers, SaslFrames
<1> HIDE DEF W
<1>3. /\ Stream(p) \in Seq(OnWire(W)) /\ Stream(q) \in Seq(OnWire(W))
      /\ core \in [Peers -> Endpoints]
  BY <1>1, StreamTyped DEF Typed, W
<1> HIDE DEF q
<1>4. /\ HeaderDue(Stream(q), core[p], core[q]) /\ HeaderDue(Stream(p), core[q], core[p])
      /\ LastOnly(Stream(p)) /\ LastOnly(Stream(q))
      /\ Concluded(Stream(q), core[p])
  BY <1>1 DEF HeaderFirst, ClosesLast, CloseSaid, q
<1>5. SUFFICES /\ HeaderDue(Stream(q)', core'[p], core'[q])
               /\ HeaderDue(Stream(p)', core'[q], core'[p])
               /\ LastOnly(Stream(p)') /\ LastOnly(Stream(q)')
  BY <1>1 DEF HeaderFirst, ClosesLast, q
<1>6. CASE Quiet
  BY <1>1, <1>4, <1>6 DEF Quiet
<1>7. CASE Submitted(W, p)
  <2>1. PICK u \in W \cap Units : /\ core' = [core EXCEPT ![p] = Sending(core[p], u).conn]
                                  /\ Stream(q)' = Stream(q) \o Sending(core[p], u).wrote
                                  /\ Stream(p)' = Stream(p)
    BY <1>7 DEF Submitted, Answered, q
  <2> DEFINE r == Sending(core[p], u)
  <2>2. core'[p] = r.conn /\ core'[q] = core[q]
    BY <1>1, <1>3, <2>1
  <2>3. /\ u \in OnWire(W)
        /\ SaidLast(core[p]) => r.wrote = <<>>
        /\ r.wrote = <<>> \/ r.wrote = <<u>>
    BY <1>2, <1>3, ClosedSends, WroteOne
  <2>4. /\ r.conn.state \in HeaderReceivers => core[p].state \in HeaderReceivers
        /\ core[p].state \in Waiting => \/ r.wrote = <<>> /\ r.conn.state \in Waiting
                                        \/ r.wrote = <<u>> /\ u \in Headers
    BY <1>2, <1>3, PlainSends
  <2> HIDE DEF r
  <2>5. HeaderDue(Stream(p), core[q], r.conn)
    BY <1>4, <2>4 DEF HeaderDue
  <2>6. CASE r.wrote = <<>>
    <3>1. Stream(q) \o r.wrote = Stream(q)
      BY <1>3, <2>6, ConcatEmptySeq
    <3>2. HeaderDue(Stream(q), r.conn, core[q])
      BY <1>4, <2>4, <2>6 DEF HeaderDue
    <3> QED
      BY <1>4, <2>1, <2>2, <2>5, <3>1, <3>2 DEF r
  <2>7. CASE r.wrote = <<u>>
    <3> DEFINE t == Stream(q) \o <<u>>
    <3>1. /\ t # <<>> /\ t[1] = IF Stream(q) = <<>> THEN u ELSE Stream(q)[1]
          /\ (\A i \in DOMAIN Stream(q) : ~IsClose(Stream(q)[i])) => LastOnly(t)
      BY <1>3, <2>3, StreamSaid
    <3> HIDE DEF t
    <3>2. HeaderDue(t, r.conn, core[q])
      BY <1>4, <2>4, <2>7, <3>1 DEF HeaderDue
    <3>3. LastOnly(t)
      <4>1. ~SaidLast(core[p])
        BY <2>3, <2>7
      <4> QED
        BY <1>4, <3>1, <4>1 DEF Concluded
    <3>4. Stream(q)' = t
      BY <2>1, <2>7 DEF r, t
    <3> QED
      BY <1>4, <2>1, <2>2, <2>5, <3>2, <3>3, <3>4
  <2> QED
    BY <2>3, <2>6, <2>7
<1>8. CASE Served(p)
  <2> DEFINE u == Stream(p)[1]
             r == Arriving(core[p], u)
  <2>1. /\ Stream(p) # <<>>
        /\ core' = [core EXCEPT ![p] = r.conn]
        /\ Stream(q)' = Stream(q) \o r.wrote
        /\ Stream(p)' = Tail(Stream(p))
    BY <1>8 DEF Served, Answered, q
  <2>2. core'[p] = r.conn /\ core'[q] = core[q]
    BY <1>1, <1>3, <2>1
  <2>3. u \in Units \ SaslFrames
    <3>1. 1 \in 1 .. Len(Stream(p))
      BY <1>3, <2>1, EmptySeq
    <3> QED
      BY <1>2, <1>3, <3>1, ElementOfSeq
  <2>4. core[p].state \in HeaderReceivers => u \in Headers
    BY <1>4, <2>1 DEF HeaderDue
  <2> HIDE DEF u
  <2>5. /\ r.wrote = <<>> /\ r.conn.state \notin HeaderReceivers
        /\ core[p].state \in Waiting => r.conn.state \in Waiting
    BY <1>3, <2>3, <2>4, PlainHears
  <2> HIDE DEF r
  <2>6. Stream(q)' = Stream(q)
    BY <1>3, <2>1, <2>5, ConcatEmptySeq
  <2>7. HeaderDue(Stream(q), r.conn, core[q])
    BY <1>4, <2>5 DEF HeaderDue
  <2>8. HeaderDue(Tail(Stream(p)), core[q], r.conn)
    BY <2>5 DEF HeaderDue
  <2>9. LastOnly(Tail(Stream(p)))
    BY <1>3, <1>4, <2>1, StreamServed
  <2> QED
    BY <1>4, <2>1, <2>2, <2>6, <2>7, <2>8, <2>9
<1> QED
  <2>1. Typed(W)
    BY DEF W
  <2> QED
    BY <1>2, <1>6, <1>7, <1>8, <2>1, StepMoves

\* The safety property of the run, for every pair of applications that submit
\* no frame of the dialogue.
THEOREM CloseAlwaysLastOnWire ==
    ASSUME Spoken(PlainVocabulary)
    PROVE  Spec => []CloseLastOnWire
<1> DEFINE Inv == Typed(PlainVocabulary) /\ CloseSaid /\ HeaderFirst /\ ClosesLast
<1>1. PlainVocabulary \in SUBSET Vocabulary
  BY DEF PlainVocabulary
<1>2. Init => Inv
  <2>1. ASSUME Init PROVE CloseSaid /\ HeaderFirst /\ ClosesLast
    <3>1. \A p \in Peers : Stream(p) = <<>> /\ core[p].state = "START"
      BY <2>1 DEF Init, Stream, InitialEndpoint
    <3>2. CloseSaid
      BY <3>1, Partners DEF CloseSaid, Concluded
    <3>3. HeaderFirst
      BY <3>1, Partners DEF HeaderFirst, HeaderDue, Waiting
    <3>4. ClosesLast
      BY <3>1 DEF ClosesLast, LastOnly
    <3> QED
      BY <3>2, <3>3, <3>4
  <2> QED
    BY <2>1, InitTyped
<1>3. Inv /\ [Next]_vars => Inv'
  <2>1. ASSUME Inv, NEW p \in Peers, Step(p) PROVE CloseSaid' /\ HeaderFirst' /\ ClosesLast'
    BY <1>1, <2>1, CloseSaidStep, PlainStep
  <2>2. ASSUME Inv, UNCHANGED vars PROVE CloseSaid' /\ HeaderFirst' /\ ClosesLast'
    BY <2>2 DEF CloseSaid, HeaderFirst, ClosesLast, Stream, vars
  <2> QED
    BY <1>1, <2>1, <2>2, NextTyped DEF Next
<1>4. Inv => CloseLastOnWire
  BY DEF ClosesLast, LastOnly, CloseLastOnWire, Stream, IsClose
<1> QED
  BY <1>2, <1>3, <1>4, PTL DEF Spec

\* The shipped applications are such: they announce a header, and nothing else.
LEMMA ShippedSpeaksPlainly ==
    ASSUME NEW p \in Peers, NEW command \in Runs, NEW e \in Endpoints
    PROVE  ShippedApp(p, command, e) \subseteq [octets : Seq(PlainVocabulary), done : BOOLEAN]
<1> DEFINE h == Header(command.layer[p])
           octets == IF e.state = "START" THEN <<h>> ELSE <<>>
<1>1. h \in PlainVocabulary
  <2>1. command.layer[p] \in Layers
    BY ShellAssumption
  <2> QED
    BY <2>1 DEF PlainVocabulary, Vocabulary, Units, Headers, Header, SaslFrames
<1> HIDE DEF h
<1>2. octets \in Seq(PlainVocabulary)
  <2>1. <<h>> \in Seq(PlainVocabulary) /\ <<>> \in Seq(PlainVocabulary)
    BY <1>1
  <2> QED
    BY <2>1
<1>3. ShippedApp(p, command, e) \subseteq {[octets |-> octets, done |-> d] : d \in BOOLEAN}
  BY DEF ShippedApp, clientApp, serverApp, h
<1> HIDE DEF octets
<1> QED
  BY <1>2, <1>3
=============================================================================
