--------------------------- MODULE WireDifferential ---------------------------
(***************************************************************************)
(* The wire differential: a vector's send steps are played by an endpoint  *)
(* process whose application is scripts/endpoint/WireApp, its receive      *)
(* steps by scripts/endpoint/wire_peer.py, over one TCP connection; then   *)
(* the comparison of run-endpoint-wire-differential.sh reads the peer's    *)
(* report and the endpoint's narration against the vector.                 *)
(*                                                                         *)
(* The endpoint is the thread of Shell, with a socket that never fills: a  *)
(* vector is far smaller than the kernel's buffers.  The peer's two waits  *)
(* differ.  An endpoint with something to do is assumed to have done it    *)
(* within READ_TIMEOUT, so that wait ends in silence only when the         *)
(* endpoint waits too; REFUSED_WINDOW is short and may close at any time.  *)
(* Conditions and reason classes are left out, so a refusal is narrated as *)
(* one word where the process prints two.                                  *)
(***************************************************************************)
EXTENDS ConnectionCorpus, FiniteSetsExt

CONSTANTS
    Vectors,               \* the corpus given to the driver
    maxApplicationRounds   \* the shell's bound on asking in one state

ASSUME WireAssumption == maxApplicationRounds \in Nat

VARIABLES
    vector,      \* the vector played
    coalesce,    \* whether the peer writes a run of receive steps at once
    core,        \* the connection state of the endpoint's core
    at,          \* where the endpoint's thread is
    rounds,      \* consecutive rounds the application asked to send
    refused,     \* whether the last outputs carry a refusal
    inbox,       \* units the endpoint read and has not served
    narration,   \* the answers it printed
    position,    \* the step the peer is at; 0 is the prologue
    pending,     \* units the peer read and attributed to no step yet
    arrived,     \* the send steps whose octets the peer saw arrive
    left,        \* whether the peer has closed its socket
    toEndpoint,  \* units written and not read by the endpoint
    toPeer       \* units written and not read by the peer

endpoint == <<core, at, rounds, refused, inbox, narration>>
peerVars == <<position, pending, arrived, left>>
vars     == <<vector, coalesce, endpoint, peerVars, toEndpoint, toPeer>>

Steps == vector.steps
Gone  == at \in {"closed", "failed"}

\* Where the vector starts: one that starts past the header exchange leaves it
\* to both ends' prologues.
StartsAtStart(v) == v.start = C("START")

-----------------------------------------------------------------------------
(* The application. *)

\* The state a step is played from: the last one named before it.
PlayedFrom(v, n) ==
    LET named == {k \in 1..(n - 1) : v.steps[k].state # Unset}
    IN  IF named = {} THEN v.start[2] ELSE v.steps[Max(named)].state[2]

Planned(unit, from, mayRefuse) == [unit |-> unit, from |-> from, refused |-> mayRefuse]

prologueOf(v) == IF StartsAtStart(v) THEN <<>>
                 ELSE <<Planned(Header("amqp"), "START", FALSE)>>

sendsOf(v) ==
    LET sends == SelectSeq([n \in DOMAIN v.steps |-> n], LAMBDA n : v.steps[n].out)
    IN  [k \in DOMAIN sends |-> Planned(v.steps[sends[k]].unit, PlayedFrom(v, sends[k]),
                                        ~v.steps[sends[k]].ok)]

\* What the application sends in the core's state: the first step played from
\* it, or the second once the first was refused.
app == LET playable == SelectSeq(prologueOf(vector) \o sendsOf(vector),
                                 LAMBDA s : s.from = core.state)
           due == IF playable # <<>> /\ refused /\ playable[1].refused THEN 2 ELSE 1
       IN  IF due \in DOMAIN playable THEN <<playable[due].unit>> ELSE <<>>

-----------------------------------------------------------------------------
(* The endpoint. *)

Answer(verb, state) == [verb |-> verb, state |-> state]

\* writeOutputs: the frames go on the wire and the answer is narrated.
Outputs(r) ==
    /\ core'      = r.conn
    /\ toPeer'    = toPeer \o r.wrote
    /\ refused'   = ~r.ok
    /\ narration' = Append(narration, IF r.ok THEN Answer("took", r.conn.state)
                                      ELSE Answer("refused", Unset))

Unwind == /\ at' = "failed"
          /\ UNCHANGED <<vector, coalesce, core, rounds, refused, inbox, narration,
                         peerVars, toEndpoint, toPeer>>

\* Mutant: the application is asked once for each unit that arrives.
MutAfterSubmission(e) == IF e.state = "END" THEN "closed" ELSE "serving"

\* A submission that leaves the core at END is the last; after any other the
\* application is asked again.
AfterSubmission(e) == IF e.state = "END" THEN "closed" ELSE "asking"

\* Mutant: at the bound the shell stops asking and says nothing.
MutAtBound == "serving"

\* One round more than the bound is an error.
AtBound == "failed"

\* serveApp: ask once, and submit what the application wants sent.
Ask ==
    /\ at = "asking"
    /\ IF app = <<>>
       THEN at' = "serving" /\ UNCHANGED <<core, toPeer, refused, narration, rounds>>
       ELSE IF rounds = maxApplicationRounds
            THEN at' = AtBound /\ UNCHANGED <<core, toPeer, refused, narration, rounds>>
            ELSE /\ Outputs(Sending(core, app[1]))
                 /\ rounds' = rounds + 1
                 /\ at' = AfterSubmission(core')
    /\ UNCHANGED <<vector, coalesce, inbox, peerVars, toEndpoint>>

\* serveUnits: one unit, then the application.
Serve ==
    /\ at = "serving"
    /\ inbox # <<>>
    /\ Outputs(Arriving(core, Head(inbox)))
    /\ inbox'  = Tail(inbox)
    /\ rounds' = 0
    /\ at'     = "asking"
    /\ UNCHANGED <<vector, coalesce, peerVars, toEndpoint>>

\* A write to a peer that has left may fail.
ServeFails == /\ at = "serving"
              /\ inbox # <<>>
              /\ Arriving(core, Head(inbox)).wrote # <<>>
              /\ left
              /\ Unwind

AskFails == /\ at = "asking"
            /\ app # <<>>
            /\ rounds < maxApplicationRounds
            /\ Sending(core, app[1]).wrote # <<>>
            /\ left
            /\ Unwind

\* readOnce: as many of the units on their way as recv returns.
Read ==
    /\ at = "serving"
    /\ inbox = <<>>
    /\ \E n \in 1..Len(toEndpoint) :
         /\ inbox'      = SubSeq(toEndpoint, 1, n)
         /\ toEndpoint' = SubSeq(toEndpoint, n + 1, Len(toEndpoint))
    /\ UNCHANGED <<vector, coalesce, core, at, rounds, refused, narration, peerVars, toPeer>>

EndOfStream ==
    /\ at = "serving"
    /\ inbox = <<>>
    /\ toEndpoint = <<>>
    /\ left
    /\ at' = "closed"
    /\ UNCHANGED <<vector, coalesce, core, rounds, refused, inbox, narration,
                   peerVars, toEndpoint, toPeer>>

\* The peer closed with octets it never read.
Reset == /\ at = "serving"
         /\ inbox = <<>>
         /\ left
         /\ toPeer # <<>>
         /\ Unwind

EndpointStep == \/ Ask \/ AskFails \/ Serve \/ ServeFails \/ Read \/ EndOfStream \/ Reset

-----------------------------------------------------------------------------
(* The peer. *)

AtSend == /\ ~left
          /\ position = 0 \/ (position \in DOMAIN Steps /\ Steps[position].out)

AtReceive == /\ ~left
             /\ position \in DOMAIN Steps
             /\ ~Steps[position].out

MayBeDeclined == position # 0 /\ ~Steps[position].ok

\* The endpoint does nothing until it is written to, or for ever.
EndpointWaits == /\ Gone \/ (at = "serving" /\ inbox = <<>> /\ toEndpoint = <<>>)
                 /\ toPeer = <<>>

\* fill: one recv.  A step that must be admitted reads until something came.
Recv ==
    /\ AtSend
    /\ pending = <<>> \/ MayBeDeclined
    /\ \E n \in 1..Len(toPeer) :
         /\ pending' = pending \o SubSeq(toPeer, 1, n)
         /\ toPeer'  = SubSeq(toPeer, n + 1, Len(toPeer))
    /\ UNCHANGED <<vector, coalesce, endpoint, position, arrived, left, toEndpoint>>

\* take: what heads the buffer goes to the step that was waited for.
TakeHead == pending' = IF pending = <<>> THEN <<>> ELSE Tail(pending)

Heads(unit) == pending # <<>> /\ Head(pending) = unit

SendsOwnHeader == \E n \in DOMAIN Steps : ~Steps[n].out /\ Steps[n].unit \in Headers

\* The exchange a vector begins after: hear the endpoint's header, announce this
\* peer's own unless a step of the vector does.
Prologue ==
    /\ position = 0
    /\ ~left
    /\ pending # <<>> \/ EndpointWaits
    /\ TakeHead
    /\ toEndpoint' = toEndpoint \o (IF SendsOwnHeader THEN <<>> ELSE <<Header("amqp")>>)
    /\ position' = 1
    /\ UNCHANGED <<vector, coalesce, endpoint, arrived, left, toPeer>>

\* The units of the receive steps from n to the next send.
RunFrom(n) ==
    LET last == Max({k \in n..Len(Steps) : \A i \in n..k : ~Steps[i].out})
    IN  [k \in 1..(last - n + 1) |-> Steps[n + k - 1].unit]

\* What the peer writes at a receive step: its unit, or with --coalesce the
\* whole run at the run's first step and nothing at the others.
Writes(n) == CASE ~coalesce                       -> <<Steps[n].unit>>
               [] n > 1 /\ ~Steps[n - 1].out     -> <<>>
               [] OTHER                           -> RunFrom(n)

Write ==
    /\ AtReceive
    /\ toEndpoint' = toEndpoint \o Writes(position)
    /\ position'   = position + 1
    /\ UNCHANGED <<vector, coalesce, endpoint, pending, arrived, left, toPeer>>

\* A write to an endpoint that has gone may fail: the peer closes with the
\* steps it has not played unreported.
WriteFails == /\ AtReceive
              /\ Writes(position) # <<>>
              /\ Gone
              /\ left' = TRUE
              /\ UNCHANGED <<vector, coalesce, endpoint, position, pending, arrived,
                             toEndpoint, toPeer>>

\* A step the endpoint must play: the octets that came are compared with the
\* vector's, or nothing came.
Compare ==
    /\ AtSend
    /\ position # 0 /\ ~MayBeDeclined
    /\ pending # <<>> \/ EndpointWaits
    /\ arrived' = IF Heads(Steps[position].unit) THEN arrived \cup {position} ELSE arrived
    /\ TakeHead
    /\ position' = position + 1
    /\ UNCHANGED <<vector, coalesce, endpoint, left, toEndpoint, toPeer>>

\* A step the endpoint must decline: when the short window closes only the
\* declined octets are this step's, and whatever else came is held for later.
Decline ==
    /\ AtSend
    /\ MayBeDeclined
    /\ IF Heads(Steps[position].unit)
       THEN arrived' = arrived \cup {position} /\ TakeHead
       ELSE UNCHANGED <<arrived, pending>>
    /\ position' = position + 1
    /\ UNCHANGED <<vector, coalesce, endpoint, left, toEndpoint, toPeer>>

Close == /\ ~left
         /\ position > Len(Steps)
         /\ left' = TRUE
         /\ UNCHANGED <<vector, coalesce, endpoint, position, pending, arrived,
                        toEndpoint, toPeer>>

PeerPlays == Recv \/ Prologue \/ Write \/ WriteFails \/ Compare \/ Decline \/ Close

-----------------------------------------------------------------------------

\* The endpoint has announced its port and accepted; the peer has connected.
Init ==
    /\ vector \in Vectors
    /\ coalesce \in BOOLEAN
    /\ core = InitialEndpoint
    /\ at = "asking"
    /\ rounds = 0
    /\ refused = FALSE
    /\ inbox = <<>>
    /\ narration = <<>>
    /\ position = IF StartsAtStart(vector) THEN 1 ELSE 0
    /\ pending = <<>>
    /\ arrived = {}
    /\ left = FALSE
    /\ toEndpoint = <<>>
    /\ toPeer = <<>>

Next == EndpointStep \/ PeerPlays

\* Both are single threads: a call that does not block is made, and a wait
\* with a timeout ends.
Spec == Init /\ [][Next]_vars /\ WF_vars(EndpointStep) /\ WF_vars(PeerPlays)

-----------------------------------------------------------------------------
(* The comparison. *)

\* The answers up to the one that names the state the vector starts in belong
\* to the prologue.
Preamble == LET there == {i \in DOMAIN narration : narration[i] = Answer("took", vector.start[2])}
            IN  IF there = {} THEN 0 ELSE Min(there)

\* The refusals narrated from answer i on.
RefusalsFrom(i) ==
    Cardinality({k \in i..Len(narration) : \A j \in i..k : narration[j].verb = "refused"})

Takes(i) == i \in DOMAIN narration /\ narration[i].verb = "took"

\* The process prints the state the connection ended in, unless it failed.
Ended == IF at = "closed" THEN core.state ELSE Unset

\* One step of the comparison, from what the earlier ones left: the answers
\* consumed, the state last narrated, and the steps that diverged.
Compared(sofar, n) ==
    LET step    == Steps[n]
        next    == sofar.used + 1
        run     == RefusalsFrom(next)
        used    == IF ~step.ok THEN sofar.used + run
                   ELSE IF Takes(next) THEN next ELSE sofar.used
        in      == IF step.ok /\ Takes(next) THEN narration[next].state ELSE sofar.in
        \* where a refusal left the endpoint is its last word
        lastly  == IF used = Len(narration) /\ Ended # Unset THEN Ended ELSE sofar.in
        octets  == step.out => ((n \in arrived) <=> step.ok)
        answer  == IF step.ok THEN step.state # Unset => Takes(next) ELSE run > 0
        state   == IF step.state = Unset THEN TRUE
                   ELSE (IF step.ok THEN in ELSE lastly) \in {step.state[2], Unset}
    IN  [used |-> used, in |-> in,
         diverged |-> IF octets /\ answer /\ state THEN sofar.diverged
                      ELSE sofar.diverged \cup {n}]

Diverged ==
    LET start  == [used |-> Preamble, diverged |-> {},
                   in |-> IF Preamble = 0 THEN Unset ELSE vector.start[2]]
        upTo[n \in 0..Len(Steps)] == IF n = 0 THEN start ELSE Compared(upTo[n - 1], n)
    IN  upTo[Len(Steps)].diverged

-----------------------------------------------------------------------------
(* The vectors of vectors/slice.ndjson whose every step fixes its octets. *)

\* An open that lacks a mandatory field, or has one of another type.
OpenMalformed == [OpenBody EXCEPT !.complete = FALSE]

MalformedThenOpen == <<SendRefused(OpenMalformed, C("HDR_EXCH")), Send(OpenBody, C("OPEN_SENT"))>>

SaslHeaders == <<SendSaslHeader, Receive(Header("sasl"), C("HDR_EXCH"))>>

Slice == {
    Exchange("open-close-handshake", C("START"),
        <<SendHeader, Receive(Header("amqp"), C("HDR_EXCH")), Send(OpenBody, C("OPEN_SENT"))>>),
    Exchange("open-missing-container-id", C("HDR_EXCH"), MalformedThenOpen),
    Exchange("open-channel-max-wrong-type", C("HDR_EXCH"), MalformedThenOpen),
    Exchange("sasl-challenge-from-client", C("START"), SaslHeaders \o
        <<Receive(MechanismsBody({"ANONYMOUS"}), Unset),
          SendRefused(SaslBody("challenge", {}), Unset)>>),
    Exchange("sasl-mechanisms-empty", C("START"), SaslHeaders \o
        <<ReceiveRefused(MechanismsBody({}), C("END"))>>),
    Exchange("open-before-header", C("START"),
        <<SendRefused(OpenBody, C("START")), SendHeader>>)}

\* The vector WireApp's comment says it cannot play: three sends from one state.
ThirdSend ==
    Exchange("third-send", C("HDR_EXCH"),
        <<SendRefused(CloseBody, C("HDR_EXCH"))>> \o MalformedThenOpen)

\* A vector that is wrong: the header it says is refused is written, perhaps
\* after the peer has given up waiting and left.
AdmittedHeader == Exchange("admitted-header", C("START"),
                           <<SendRefused(Header("amqp"), C("START"))>>)

-----------------------------------------------------------------------------
(* Properties. *)

Over == Gone /\ left

\* tests/contracts/r4_wire_differential.sh: every vector of the slice agrees at
\* the socket, however the reads split, whether or not the peer's writes are
\* coalesced, and whenever the refused step's window closes.  A vector that
\* pins what the endpoint must not do is found out on the same terms.
VerdictsAreRight ==
    Over => /\ vector \in Slice => Diverged = {}
            /\ vector \in Controls \cup {AdmittedHeader} => Diverged # {}

\* Both processes come to an end.  The endpoint's is orderly for a vector of the
\* slice; where the application would repeat itself for ever, the bound on
\* asking makes it loud instead of a connection with nothing more to say.
EndsAsPlanned == /\ <>Over
                 /\ vector \in Slice => <>(at = "closed")
                 /\ vector = ThirdSend => <>(at = "failed")
=============================================================================
