# A TLA+ verification of SpecAMQP

SpecAMQP is an AMQP 1.0 endpoint written in Lean: a specification
(`lean/Spec`), an implementation that runs it (`lean/Impl`), a process around
it (`lean/Shell`), and a second, independent implementation (`lean/Ref`) that a
corpus of vectors, written by Python generators (`scripts`), compares with the
first. Lean proves facts about single steps and about the codecs. This project
asks the questions that need whole behaviours: every order of sends and
arrivals at one endpoint, two endpoints over a stream, two processes over a
socket. It also replays the corpus against its own models, so that the three
texts of the protocol (specification, vectors, models) are known to agree.

All paths below are relative to the repository's root.

## Inventory

| Part | State | Operations | What is hard | What makes it correct |
|---|---|---|---|---|
| Connection layer, `lean/Spec/Connection.lean` | table state, layer, SASL phase, role, mechanisms, two sets of limits (`Endpoint`, 913) | `stepHeader`, `stepSaslFrame`, `stepAmqpFrame`, `bodylessFrame`, dispatched by `step` | fourteen states in two directions; SASL restarts the exchange; limits change while frames are in flight; where a refusal leaves the peer | a state tells what crossed the wire; one open, nothing after the close; the two ends agree |
| Core, `lean/Impl/Core.lean` | the connection endpoint, the pending octets, a session table no step writes | `step` (receive), `submit` and `send` (send), `answerOf` | refusals carry a place and octets | the layer's answer reaches the wire unchanged |
| Stream front end, `lean/Impl/Stream.lean` | pending octets | `pending`, `nextUnit`, `feed`, `closed` | a unit's extent depends on the state the last unit left | answers do not depend on how reads split |
| Shell, `lean/Shell` | loop variables `core`, `live`, `rounds` | `serveApp`, `serveUnits`, `readOnce`, `pump`, `serveConn`, `dial`; the two shipped applications | re-asking, a partner that goes, several units in one read | the process ends; the close is the last thing written |
| Transport, `lean/Impl/Transport.lean`, `scripts/transport_shim.c` | a descriptor | listen, accept, connect, recv, send, close | blocking calls, partial writes, resets | in-order octets |
| Frame layer, `lean/Spec/Frame.lean` | none | `readFrame`, `frameExtent` | malformed declarations | proved in Lean |
| Session layer, `lean/Spec/Session.lean` | seven states, the channel map, six windows | `gate`, `stepBegin`, `afterEnd`, the `Windows` operations, `place` | ids modulo 2^32, flows crossing transfers, ends crossing | windows never let a peer overrun its partner |
| Widened links, `lean/Spec/Protocol.lean`, `WidenedState.lean` | link registry, two handle maps, unsettled tables | `attachStep`, `flowStep`, `detachStep`, `transferStep`, `dispositionStep`, `resolve` | detach and resume in any order | `WidenedProtocolStateValid` in every reachable state |
| Transactions, `lean/Spec/Transactions.lean` | known ids, next id, capabilities | `declare`, `discharge`, `declared`, `retireAll` | a discharge crossing a release | an id retired once is never live again |
| Peer, `lean/Spec/SessionCodec.lean` | a connection and one session | `stepOf` | a refusal in one layer moves the other | each layer answers its own frames |
| Messages, values, codecs | none | encoders, readers, validators | octet-level | proved in Lean |
| Exchange corpus, `scripts/gen/slices.py`, `flows.py`, `probe-session-settle-counts.py`, replayed by `lean/Harness/Runner.lean` | a vector's position, the state last reported | `runExchange`, `checkExchangeStep` | rules restated in three places | every step answers as pinned; the controls fail |
| Wire differential, `scripts/endpoint/WireApp`, `scripts/endpoint/wire_peer.py`, `scripts/run-endpoint-wire-differential.sh` | the endpoint process's loop variables, the peer's step, unattributed octets and report | `app`, `fill`, `take`, the play of a vector, the comparison | two waits of different lengths, sends played early, writes coalesced | a verdict does not depend on timing |
| `lean/Ref`, `lean/Generated`, `ledger`, the other `scripts`, `bench`, `tests` | none at run time | second implementation, other generators, gates | — | — |

How the parts meet: `Shell.Driver` asks the application for octets, gives them
to `Impl.Core.submit`, and writes what the core answers; it reads octets,
appends them to the core's pending octets (`Stream.pending`) and takes one unit
at a time (`Stream.nextUnit`), asking the application after each. The core is
a function: all concurrency is between two processes and the network between
them. Nothing is persisted and there are no timers (`step` answers `none` to a
tick), so crashes matter only as a partner that goes away.

`PROJECT.json` lists every hazard with its line.

## Modules

    Connection                 pure operators: lean/Spec/Connection.lean
      Connection_proofs        lemmas about them, which the next three proofs cite
      ConnectionEndpoint       one endpoint, any application, any partner
        ConnectionEndpoint_proofs
      ConnectionPair           two endpoints over a stream, disciplined applications
        (instantiates Handshake)
        ConnectionPair_proofs
      Shell                    two processes over a socket
        Shell_proofs
    Handshake                  what the state tables promise
      Handshake_proofs
    Session                    pure operators: lean/Spec/Session.lean
      Transactions             ... lean/Spec/Transactions.lean
        Links                  ... lean/Spec/Protocol.lean, and the session's step
          SessionEndpoint      one session, any application, any partner
            SessionEndpoint_proofs
          SessionPair          two sessions over a channel, disciplined applications
            (instantiates Handshake)
            SessionFrames_proofs   one of them and one frame
              SessionPair_proofs
    Connection, Links
      Peer                     a connection and a session under it
        Corpus                 the generators' vocabulary of frames and steps
          ConnectionCorpus     slices.py's connection vectors
          SessionCorpus        slices.py's session vectors
            LinkCorpus         ... and those of links and deliveries
            FlowsCorpus        flows.py and the settlement probe
          CorpusReplay         the harness's replay of all of them
          WireDifferential     connection vectors played over a socket by two processes
    MC...                      values for TLC

**Connection** holds the translation of the connection. An endpoint is a record
with the fields of the Lean structure. `Sending` and `Arriving` are the two
routes of `Impl.Core`; each dispatches to `StepHeader`, `StepSaslFrame`,
`StepAmqpFrame` or `BodylessFrame` and returns the endpoint it leaves, whether
the step was taken, and the units written. Octets are abstracted to wire units:
a header of a layer, a frame, or octets that are neither. A frame keeps the
performative, channel, size and declared limits, and one Boolean, `complete`,
for all the field checks that refuse a performative. The text, condition and
class of a refusal are left out: no state depends on them. Definitions named
`Mut...` are slips used only by the mutation runs.

**ConnectionEndpoint** puts one endpoint before an arbitrary application and an
arbitrary partner. `Submit` is `Impl.Core.submit`, `Receive` is the receive
route of `Impl.Core.step`. Two history variables, `said` and `heard`, hold the
kinds of unit that crossed the wire since the connection was last in START.

**Handshake** is the abstract specification of any exchange of stages: each peer
says them in order, and says the next only when it has heard the partner's
previous one. The connection maps its header, open and close to three stages,
the session its begin and end to the first two.

**ConnectionPair** joins two endpoints by two FIFO streams, one unit delivered
at a time. The repository ships no application policy for opens and sessions,
only the seam `Shell.Driver.App`; `Disciplined` lists what is assumed of the
applications (ask for the wanted layer's header; take turns in the dialogue;
close only an open connection; unless `Pipelined`, wait for the partner's header
before the open). `SaidBy` and `HeardBy` are the refinement mapping to Handshake:
the pair of stages each state name stands for. Initially `first` chooses whether
a SASL layer comes first.

**Shell** models each process as its one thread: ask the application, submit its
octets one by one, read, serve unit by unit, close. A write waits, and the
thread with it, while the kernel's buffer is full (`sendAll` does not read).
`maxApplicationRounds`, the exception path to the socket's close, the orderly
end of the stream and the abortive one are in it. `run` is the program a pair of
processes is built from and the `--layer` switch of each. `ShippedApp` is
`clientApp` and `serverApp` of `Shell.Main`.

**Session, Transactions, Links** are the session's three sources. A session is a
record: the state, the channel map, the windows, the registry of links keyed by
name and this end's role, and a handle map for each end. `SessionStep` is
`Protocol.step` under `Session.gate`: a frame is discarded, refused for its
channel, refused for the state, or handed to its exchange. The four ways a step
may answer are `Admitted`, `Declined` (refused, nothing moves), `Placed`
(refused, and a receive moves the session to DISCARDING) and `Closing` (refused,
and the connection closes). The code's finite index of the registry, and of each
unsettled table, is the DOMAIN of one function, so a list of keys that drifts from
its table is not something these modules could show. A field a frame leaves out is
`Unset`, one it carries as null is `Null`, because the code reads the two
differently.

**SessionEndpoint** is one session before an arbitrary application and an
arbitrary partner, an action per performative. Its history variable `granted`
is the delivery-count the partner's last flow let each sending link go up to.

**SessionPair** joins two sessions by two FIFO channels, with one link that may
be attached, detached and re-attached. The applications compose frames that
truthfully report their own session (`Composed`); what is assumed besides is
`Disciplined`: one begin; an end of a session that is mapped; a leader that
attaches and detaches first; no grant while an earlier one is outstanding
(unless `Eager`).

**Peer** puts a session under a connection as `SessionCodec.lean` does. The
**Corpus** modules say the generators' vectors in Peer's units: each is a
sequence of steps with the verdict and the state it pins. Vectors that
differ only in octets the layers do not read (the point a message is cut at, the
text of a refusal) are one vector. **CorpusReplay** chooses a vector, or one of
the generators' controls, and replays it a step at a time.

**WireDifferential** plays a vector as the repository's own differential does.
The endpoint is the thread of `Shell` with `WireApp`'s application, which
replies with one submission at most, so asking and submitting are one action;
its socket never fills, a vector being far smaller than a kernel buffer. The peer is
`wire_peer.py`: `Recv` is one `recv` of its `fill`, `Compare`, `Decline` and
`Write` are the three kinds of step, and `coalesce` is its switch. Of its two
waits, READ_TIMEOUT (5 s) is taken to outlast anything an endpoint with
something to do needs, so it ends in silence only when the endpoint waits too;
REFUSED_WINDOW (0.4 s) may close before or after any step of the endpoint. A
write to a process that has gone may succeed or fail, and so may a read.
`Compared` and `Diverged` are the comparison of
`run-endpoint-wire-differential.sh`: octets, answer and state of each step.

## Runs

| Run | Constants | Checks |
|---|---|---|
| `endpoint` | minimum frame size 2, two mechanisms, units on both sides of every guard | a state tells what was said and heard; the SASL layer lives between headers and outcome; limits come from opens; one open; nothing after the close |
| `pair` | SASL first or not, up to 2 challenges, two mechanism lists; opens that declare (2,0) or (3,1); relayed frames on both sides of the limits | nothing one core lets out is refused by the other; limits, roles and mechanisms agree; nothing travels to a peer at END; refinement of Handshake; both open; a close completes |
| `shell` | the shipped applications with both switches, and an application that may answer any state with any of 6 batches; 2 rounds; a buffer of 2 units | the close is last on the wire; one process gone leads to both gone; the shipped processes both exit |
| `corpus` | the corpus's own numbers | every vector's verdicts and states; every control is found out |
| `wire` | the six vectors of `vectors/slice.ndjson`, the version refusals, the controls, a vector that is wrong, a third send from one state, a client's SASL dialogue; with and without coalesced writes | under every timing the slice agrees step by step, and a vector that is wrong is found out; both processes end, loudly when the application repeats itself |
| `session_endpoint` | two links competing for two handles, windows of 2, serial numbers modulo 4, 2 deliveries of up to two transfers, a control link | handles and links associated; labels tell the channels as far as the code keeps them; credit within the grant; a discarding session is frozen; settlement absorbs; a tag names one delivery; a retired transaction stays retired |
| `session_pair` | one link, windows of 2, serial numbers modulo 8, one credit at a time, two settle modes, both ends leading | nothing is refused; windows, counts and deliveries agree; begin and end refine Handshake; an end ends both |

Why the bounds are enough. The connection's guards compare a size or a channel
with one of two limits, so three sizes and three channels take every branch; the
choices of mechanism need two. At one connection endpoint nothing else is
bounded: the runs explore every sequence of the units offered. In a pair of
connections a handshake or dialogue frame is not bounded at all, since a peer
never has more than two of them in flight; `MaxInFlight` only holds back relayed
frames, which move no state.

In the shell, 2 rounds let an application ask, be refused, ask again and hit the
bound (the code's is 8; the bound is a parameter of the model), and a buffer of 2
lets a batch pass in one read or in two, fills, and blocks a writer.

A session's guards ask whether a window or a credit is zero, whether a handle is
taken, whether a tag is held; two of each reach both answers and a competitor.
`MaxDeliveries` of 2 allows a delivery after a settled, an aborted or a detached
one. In the session pair the incoming window is never replenished (each
application reports its own, and the code never raises it), so `Window` bounds
the transfers of a session at 2; a link may be detached and attached again
between and within them, without bound. `FirstId + Window` stays below
`SerialModulus` there: `window_wraps` shows what happens when it does not.
`MaxInFlight` holds back flows only. The corpus is finite and replayed whole, at
the width the vectors use; `wire` plays its vectors with the code's own 8 rounds.

Fairness. `ConnectionPair` assumes that a unit on the wire is delivered (the
stream delivers and `pump` keeps reading) and that an application asked in a
state where it owes the next step of the handshake takes it: `serveUnits` asks
after every unit. Relayed frames, challenges and the first close are under no
fairness. `Shell` assumes weak fairness of each process's next call: a thread
whose call does not block makes it. `SessionPair` assumes delivery and that an
end which was heard is answered; begins, attaches, transfers and the first end
are under no fairness. `WireDifferential` assumes weak fairness of each of its two
threads: a call that does not block is made, and a wait with a timeout ends.
`ConnectionEndpoint`, `SessionEndpoint` and `CorpusReplay` have no fairness and no liveness property.

Deadlock is not checked in the pair, shell, corpus and wire runs: two connections or
sessions that have ended, two processes that have gone, and a vector that is over
have nothing more to do. Two processes of the `any` program may also block each
other in `sendAll`; no liveness is claimed of them but `GoneTogether`, and
`ShippedExit` says the shipped applications never come to it. The two endpoint
runs check deadlock.

## What the code does otherwise

Five runs state what a comment, a contract or the clause ledger says and show a
behaviour of the code against it; `PROJECT.json` quotes each sentence.

| Run | Behaviour |
|---|---|
| `pipelined` | an open that arrives in HDR_RCVD is forgotten, and the peers never open |
| `flow_crosses` | a receiver's flow carries the last count it knows; a transfer crossing it makes that count stale, the sender refuses the flow and discards its session |
| `initial_count` | a receiver's count starts at zero whatever initial-delivery-count the sender announced, so the ends count apart |
| `window_wraps` | near the wrap of the transfer ids an open window is read as exhausted, because the subtraction truncates |
| `settled_is_not_held` | a continuation that leaves the settled flag unset puts a delivery that was settled back into the unsettled table |

More were met and have no run of their own.

* Connection. `stepSaslFrame` does not read the state: a dialogue cut off at END
  goes on writing, and a good outcome returns it to START (`Connection.lean:1158`),
  where the comment at `:970` has a peer at END write nothing more. A close heard
  in OPEN_RCVD lets the peer write its close, or any frame, without an open (`Connection.lean:1045`). DISCARDING is entered without
  the close it stands for, and cannot write one (`:975`). A failing outcome the
  server submits is refused, unwritten, and moves it to END (`:1275`). A submitted
  keepalive is taken and written nowhere (`:1381`). `headerFailure` answers an
  unreadable header in OC_PIPE with a header, after this peer's close (`:431`;
  `NoFrameAfterClose` says a header is all that may follow). `openLimits` installs
  an open that declares less than MIN-MAX-FRAME-SIZE, whose sender then refuses
  frames every peer must accept (`:759`).
* Shell. A client and a server of different layers end at END and read for ever
  (`Main.lean:48`).
* Session. Three claims of the states' descriptions (`Session.lean:571-580`) are
  not kept. END_SENT "has an entry in the incoming channel map" (`:577`, and again
  in the comment at `:1366-1369`), but an end sent in BEGIN_SENT leads there without
  one (`:1370`), and the partner's begin and end are then both declined (pinned by
  the corpus). END_RCVD "is assigned an outgoing channel number" (`:578`), but an
  end heard in BEGIN_RCVD leads there without one (`:1377`), and this end can never
  send its own. DISCARDING is "a variant of the END_SENT state" (`:580`), which has
  no outgoing channel; a session that refuses a frame moves there with the one it
  holds (`:1416`), writes no end, and may not send one. `StateTellsChannels` is what
  remains: it says nothing of the outgoing channel in END_RCVD and DISCARDING, and
  has the incoming one in END_SENT and DISCARDING only if the partner has begun. `afterEnd` leaves links and handles as they were, for the next session of the same record.
  A flow sent before the partner's begin leaves `next-incoming-id` unset, as it
  must, and is refused by a partner that has heard a begin (`Protocol.lean:553`).
  Sending a flow does not install the windows it announces.
* Links. A disposition heard names the partner's role and is applied to this end's
  links of the same name of role, where `Contracts/Settlement.lean:92-108` wants
  the other direction (`Protocol.lean:645`). A receiver never records the credit
  it grants, so a sender's non-zero echo is refused (`EchoAgrees`). A flow without
  a count that crosses the sender's attach is refused, and a null count is read as
  one that is set. A detach with an error that crosses a continuation makes the
  continuation a first transfer that names nothing, which is refused.
* Transactions. An id learnt from a `declared` outcome does not move `nextId`, so
  a coordinator that was also told ids may allocate a retired one again
  (`RetiredStaysRetired` excepts the allocation). A transfer's payload that is a
  declare or a discharge is taken, where `Contracts/Transaction.lean:103-118`
  states a refusal.
* Wire differential. The comparison gives every consecutive refusal to the first
  step that expects one, so a vector with two refused steps in a row diverges at
  the second (`run-endpoint-wire-differential.sh:521`; several version refusals
  are such), and a refused step that moves the peer diverges unless it is the
  last answer (`:547`). `WireApp` is keyed on the name of the state, which stays
  HDR_EXCH throughout a SASL dialogue: a client's initiation is sent before the
  mechanisms arrive, and again until the shell's bound throws. The slice, the only
  corpus the gate plays, has none of these, and `VerdictsAreRight` is stated of it.

Those that concern two peers are why `pair` does not pipeline, the shipped
processes run with one switch, and `SessionPair`'s applications are disciplined.

## Proofs

Every theorem holds for all values of the constants that satisfy the named
assumptions of the modules (`ConnectionAssumption`, `EndpointAssumption`,
`PairAssumption` and the like, which TLC evaluates on every run) and the
hypotheses, if any, the theorem names.

### The connection's operators

`Connection_proofs` shows of each step operator that it returns one of four
refusals (`Refusals`) or its taken answer under its guard (`SendingShape`,
`ArrivingShape`), that a taken step is one of four moves (`SendingMoves`,
`ArrivingMoves`), and that the answer is an endpoint and a sequence of units
(`AnswerTyped`).

### One connection

`ConnectionEndpoint_proofs`: `Invariance` (`Spec => []IInv`), and from it
`TypeCorrect`, `StateIsHistory`, `DialogueSound`, `LimitsSound` and
`DialogueIsTold`; and all four action properties of the run, `OneOpen`,
`ClosedPeerIsSilent`, `OutcomeEstablishes` and `DialogueAdvances`.

`StateTellsHistory` is not inductive alone. The SASL step never reads the state,
so what keeps it from contradicting the history is which states a SASL layer may
be in (`DialogueInv`) and that neither an open nor a close was said in one
(`DialogueTold`); and a successful outcome resets the limits, so
`LimitsFromOpens` needs the history reset with it. `IInv` is the conjunction of
the five invariants. One lemma keeps it over every refusal, and one over each
taken answer. The action properties need, besides, what a step may write
(`StepWrites`): a header, a SASL frame in the SASL layer, or what the state's
send column has.

### Two connections

`ConnectionPair_proofs` proves all six invariants of the run `pair` and the safety
half of its refinement: `TypeAlwaysOK`, `NothingEverRefused`, `LimitsAlwaysAgree`,
`DialoguesAlwaysAgree`, `AlwaysAuthenticatedTogether`, `EndAlwaysHearsNothing` and
`ImplementsHandshakeSteps` (`Spec => H!Init /\ [][H!Next]_(H!handshake)`).

The inductive invariant `PairInv` is that the pair is in one of ten modes. In an
exchange of headers, opens and closes (one mode per layer) the stream towards a
peer leads it from the stage it has heard to the stage its partner has said
(`Carries`): that one relation counts what is in flight, says what each unit is,
and that the open among them declares the limits its sender goes by. It is what
makes `NothingRefused` inductive, for the invariant itself speaks of the first
unit only, and `LimitsAgree` of a peer whose partner's open has already arrived.
In the SASL dialogue (`Announcing` to `Responding`) both endpoints, both streams
and what both applications owe are known exactly. In `Decided` the server's
outcome is under way and the server has begun the AMQP exchange by itself; the
partner that hears the outcome puts the pair back into an exchange. A stream
grows at its end and shrinks at its front (`CarriesMore`, `CarriesLess`), and each
submission and each delivery of each mode is one lemma.

The hypotheses are conditions on the constants, met by the run and stated
because the results fail without them:

* `Orderly`: not `Pipelined` (the run `pipelined` shows what happens otherwise),
  and every open an application offers declares at least MIN-MAX-FRAME-SIZE. The
  code installs a smaller one (`openLimits`), after which its own guards refuse
  frames every peer must accept.
* `Accepting`, for `EndHearsNothing` alone: every outcome offered reports success.
  A server that submits a failing outcome goes to END without writing it, and
  its partner's dialogue goes on towards it (see the section above). The other six
  results hold with failing outcomes; two of the dialogue's modes admit a
  server at END.

### Two processes

`Shell_proofs` proves `TypeAlwaysOK` and `CloseAlwaysLastOnWire` for two processes
that run any applications whose replies are words over a vocabulary. The machine
is first shown to make three kinds of step only (`StepMoves`): a quiet one, a
submission that appends what the core wrote to the stream towards the partner, and
a serving that takes the first unit of that stream and appends the answer; how
reads split the stream between the wire and the inbox is invisible in these
terms, and so are blocking, re-asking and a process that has gone.

`CloseAlwaysSaid` holds of every application whatever: a close on its way says its
sender has concluded (`Closed`, outside a SASL layer), and nothing but a header is
behind it. That a header is not behind it either is `CloseLastOnWire`, and needs
the applications not to submit SASL frames (`PlainVocabulary`; that the shipped
ones do not is `ShippedSpeaksPlainly`): otherwise a server that pipelined header, open and close after
its outcome may still hear a response of the old dialogue, and `headerFailure`
answers it with a header after the close. The strengthening is `HeaderFirst`: a
process that waits for a header has one at the front of its stream, or an empty
stream and a partner that has not spoken.

### One session

`SessionEndpoint_proofs`, for every serial modulus, every window and every set of
frames, in three parts.

Handles and links: `HandlesAlwaysAssociate`, `LabelsTellChannels` and
`DiscardingStaysFrozen`. `LabelsTellChannels` is of what the code keeps of the
states' descriptions; "What the code does otherwise" lists the three claims it
does not keep. The association of handles and links is not inductive
as it stands, since a step rewrites records: `Well` adds that the session and its
links have the fields the argument reads, and nothing about what the others hold,
so that no frame is assumed to carry values of a type. Each exchange then moves
one end's handles and puts one link back (`MovedEndKeepsWell`) or rewrites links
in place, each as attached as it was (`InPlaceKeepsWell`).

Deliveries and transactions: `SettlementAbsorbs`, `TagsNameOneDeliveryAlways` and
`RetiredAlwaysStays`. The second does not follow from `TagFree`, which is asked of
first transfers only: a continuation writes the table under its delivery's tag.
`Coherent` is the strengthening: while the tag of the delivery in progress is held,
it is held for that delivery. `Follows` says of a link what both properties say of
a step, and each exchange is shown to let every link follow itself. The third
rests on `Controlled` (what is in use is among what is known) and, exchange by
exchange, on `KeepsRetired`.

Types and credit: `TypeAlwaysOK` and `CreditAlwaysWithinGrant`. These are the
two that ask frames to have fields of the kind they are read as
(`EndpointAssumption`, what the readers of the performatives return). The second
is not inductive: a flow leaves the sender the partner's pair less its own count,
so the grant is what is left plus the count only if the flow carried that count,
and a partner that has heard no attach carries none. `Credited` adds why that does
no harm: until this end attaches, its count is 0.

### Two sessions

`SessionPair_proofs` proves all four invariants of the run `session_pair` and its
refinement of Handshake: `PairRefusesNothing`, `PairWindowsAgree`,
`PairCountsAgree`, `PairDeliveriesAgree` and `PairSimulatesHandshake`. They hold for
every window, every settle mode, every set of credits, and any number of flows in
flight, where the run has windows of 2, one credit and one flow at a time.
`SessionFrames_proofs` holds what they need of one session: for each frame an
application may compose, what it makes of the session that says it (`Saying`) and
of the one that hears it (`Hearing`).

None of the four is inductive, for each speaks of the frame about to arrive or of
a pair with nothing in flight. `PairInv` says what every frame in flight will do.
Three threads run along the stream to the server, from what the server knows to
what the client knows: the id of the next transfer (`Numbered`), the delivery-count
(`Counted`) and the deliveries themselves (`Tracked`); each frame moves the thread as
it moved its speaker and will move its hearer. Saying a frame makes a thread one
longer, hearing one makes it one shorter, and when the stream is empty its two ends
are the same value: that is `CountsAgree` and `DeliveriesAgree`. `WindowsAgree` is the
length of the first thread. On the way to the client are grants, and `Owed` says
that its count, its credit and the one grant that gives anything come to what the
server granted. What keeps these apart is that the ends of a link take turns: no
more than one attach or detach is ever under way (`Turns`, `Told`), transfers and
flows reach a link that is attached (`Attended`), and while an attach or a detach
with an error of the server's is on its way, which will move the client's table, the
client has no delivery to move it with (`Tabled`).

A session that ended with an error is DISCARDING: it takes every frame and reads
none, so it keeps none of this. `Mirrors` puts beside each end the session it would
be had it ended without an error, and the invariant is of the two mirrors; an end
that has not so ended is its own. What the discarding session still does (take all
that arrives, and end when its partner's end does) follows from where its mirror
stands.

The hypothesis `Measured` is on the constants, met by the run, and has three parts.
The results fail without each, and a run of the section above shows it: not `Eager`
(`flow_crosses`), `InitialCount = 0` (`initial_count`) and
`FirstId + Window < SerialModulus` (`window_wraps`). `LinkAssumption`, of `Links`,
is that an absent field is no position and no delivery.

### The abstract handshake

`Handshake_proofs` proves `KeepsInStep`: in the abstract handshake nothing is
heard that was not said, and no peer is more than a stage ahead. The proof uses
no fairness, so with `ImplementsHandshakeSteps` and `PairSimulatesHandshake` it covers
the pair of connections and the pair of sessions.

### Only model-checked

* `CorpusReplay` and `WireDifferential`: statements about a finite corpus, which
  TLC exhausts, and whose modules replay sequences step by step.
* Every liveness property (`BothOpen`, `CloseCompletes`, `EndCompletes`,
  `GoneTogether`, `ShippedExit`, `EndsAsPlanned`) and the fairness of the connections'
  refinement: liveness and ENABLED are out of the prover's reach.
* The pairs whose applications keep less discipline (`Pipelined`, `Eager` and the
  others), which runs refute.

## Not modelled

The octets: framing, encodings, field readers, the text and class of refusals.
The stream front end's octet-level splitting is a function of the pending octets
and has its laws in Lean (`nextUnitLength_prefix`, `run_some`). The single-link
step inside `Session.lean`, which `Protocol.step` supersedes; the delivery states
of unsettled entries, which no step writes; `terminusAssociated`, which none
reads. Dispositions between the two ends of `SessionPair` (see above); they are in
`SessionEndpoint` and the corpus. A core whose session table is stepped by the
endpoint's process: the code never writes that table, so `Shell` has none. The
reference implementation; the codec, message and boundary vectors and their
generators; the ledger, the gates and the benchmarks, which are batch programs.

## Plan

Done: the connection, the handshake, the shell; the session, its links and
transactions, their pair; the corpus and its play over a socket; and proofs of
every safety property of one connection, of two connections, of two processes, of
one session and of two sessions. What could follow: a pair with two links,
resumption between two ends (a link suspended and attached again with deliveries
unsettled), and a control link whose coordinator is the partner.
