--------------------------------- MODULE Links ---------------------------------
(***************************************************************************)
(* The link layer of a session, lean/Spec/Protocol.lean: a registry of     *)
(* links keyed by name and this end's role, a handle space for each end,   *)
(* one table of unsettled deliveries per link, and the exchanges attach,   *)
(* flow, detach, disposition and transfer.  SessionStep at the end is the  *)
(* whole session's step.                                                   *)
(*                                                                         *)
(* The functional registry and its finite index (links and linkKeys, and   *)
(* unsettled and unsettledKeys) are one function here: its DOMAIN is the   *)
(* index.  The delivery states an entry may hold are written by no step    *)
(* and are left out; so is terminusAssociated, which no step reads.        *)
(***************************************************************************)
EXTENDS Transactions

\* An absent field is no position and no delivery.
ASSUME LinkAssumption ==
    Unset \notin [count : Nat, credit : Nat]
             \cup [id : Nat, settled : BOOLEAN, resumed : BOOLEAN]

LinkRoles == {"sender", "receiver"}
Opposite(role) == IF role = "sender" THEN "receiver" ELSE "sender"

Lives == {"attached", "detached", "suspended", "destroyed"}

StartSession == [state         |-> "UNMAPPED",
                 outgoing      |-> Unset,
                 incoming      |-> Unset,
                 peerBegun     |-> FALSE,
                 windows       |-> StartWindows,
                 handleMax     |-> DefaultHandleMax,
                 peerHandleMax |-> DefaultHandleMax,
                 links         |-> <<>>,
                 localHandles  |-> <<>>,
                 remoteHandles |-> <<>>]

-----------------------------------------------------------------------------
(* The registry and the two handle spaces. *)

\* An attach's role is its writer's; a link is filed under this end's.
AttachId(out, f) == [name |-> f.name, role |-> IF out THEN f.role ELSE Opposite(f.role)]

Handles(s, out) == IF out THEN s.localHandles ELSE s.remoteHandles

Resolves(s, out, h) ==
    h \in DOMAIN Handles(s, out) /\ Handles(s, out)[h] \in DOMAIN s.links

IdOf(s, out, h)   == Handles(s, out)[h]
LinkOf(s, out, h) == s.links[IdOf(s, out, h)]

\* One handle per link: binding it to h unbinds any other.
Associate(handles, h, id) ==
    [k \in {h} \cup {g \in DOMAIN handles : handles[g] # id} |->
        IF k = h THEN id ELSE handles[k]]

Release(handles, id) ==
    [k \in {g \in DOMAIN handles : handles[g] # id} |-> handles[k]]

PutLink(s, id, l) ==
    [s EXCEPT !.links = [k \in DOMAIN @ \cup {id} |-> IF k = id THEN l ELSE @[k]]]

WithHandles(s, out, handles) ==
    IF out THEN [s EXCEPT !.localHandles = handles]
           ELSE [s EXCEPT !.remoteHandles = handles]

BlankLink == [local         |-> [life |-> "suspended", incomplete |-> FALSE],
              remote        |-> [life |-> "suspended", incomplete |-> FALSE],
              position      |-> Unset,
              peerCount     |-> 0,
              peerCredit    |-> 0,
              settledMode   |-> FALSE,
              unsettledMode |-> FALSE,
              secondMode    |-> FALSE,
              delivery      |-> Unset,
              tag           |-> Unset,
              format        |-> Unset,
              transactions  |-> Unset,
              unsettled     |-> <<>>,
              nextDeliveryId |-> 0]

LinkOrBlank(s, id) == IF id \in DOMAIN s.links THEN s.links[id] ELSE BlankLink

\* Mutant: a delivery that is over leaves its tag and format behind.
MutNoDelivery(l) == [l EXCEPT !.delivery = Unset]

\* The delivery in progress, forgotten with what its first transfer carried.
NoDelivery(l) == [l EXCEPT !.delivery = Unset, !.tag = Unset, !.format = Unset]

EndpointOf(l, out) == IF out THEN l.local ELSE l.remote

-----------------------------------------------------------------------------
(* Attach. *)

\* Mutant: a handle held by another link is taken.
MutHandleFree(s, out, f) == f.handle <= IF out THEN s.peerHandleMax ELSE s.handleMax

\* In range for the end that must accept it, and not another link's.
HandleFree(s, out, f) ==
    /\ f.handle <= IF out THEN s.peerHandleMax ELSE s.handleMax
    /\ f.handle \in DOMAIN Handles(s, out) =>
           IdOf(s, out, f.handle) = AttachId(out, f)

\* A link attached already must say what it holds unsettled (asked of what this
\* end sends only); a detached one re-attaches without a map; a destroyed one
\* only resumes.
LifeAllows(life, out, map) ==
    CASE life = "attached"  -> out => map
      [] life = "detached"  -> ~map
      [] life = "destroyed" -> map
      [] life = "suspended" -> TRUE

AttachAdmits(s, out, f) ==
    /\ ~f.nullKey
    /\ LifeAllows(EndpointOf(LinkOrBlank(s, AttachId(out, f)), out).life, out, f.map)
    /\ f.role = "sender" => f.initialCount # Unset
    /\ f.termini

\* The modes each end's attach negotiates for its own half.
WithModes(l, f) ==
    IF f.role = "sender"
    THEN [l EXCEPT !.settledMode   = f.settleMode = "settled",
                   !.unsettledMode = f.settleMode = "unsettled"]
    ELSE [l EXCEPT !.secondMode = f.second]

FreshPosition(f) == [count |-> IF f.role = "sender" THEN f.initialCount ELSE 0, credit |-> 0]

AfterSentAttach(l, f) ==
    [NoDelivery(WithModes(l, f)) EXCEPT
        !.local      = [life |-> "attached", incomplete |-> f.incomplete],
        !.position   = FreshPosition(f),
        !.peerCount  = 0,
        !.peerCredit = 0]

\* The partner's count is its own to announce, and a position this end holds
\* survives.
AfterReceivedAttach(l, f) ==
    [NoDelivery(WithModes(l, f)) EXCEPT
        !.remote    = [life |-> "attached", incomplete |-> f.incomplete],
        !.peerCount = IF f.role = "sender" THEN f.initialCount ELSE @,
        !.position  = IF f.role = "sender" \/ @ # Unset THEN @ ELSE FreshPosition(f)]

\* A coordinator target makes the link a control link.
WithControlLink(l, out, f) ==
    IF f.coordinator = Unset THEN l
    ELSE LET layer == IF l.transactions = Unset THEN FreshLayer ELSE l.transactions
         IN  [l EXCEPT !.transactions =
                 IF out THEN [layer EXCEPT !.capabilities = f.coordinator]
                        ELSE [layer EXCEPT !.peerCapabilities = f.coordinator]]

AfterAttach(s, out, f) ==
    LET id   == AttachId(out, f)
        base == LinkOrBlank(s, id)
    IN  PutLink(WithHandles(s, out, Associate(Handles(s, out), f.handle, id)), id,
                WithControlLink(IF out THEN AfterSentAttach(base, f)
                                       ELSE AfterReceivedAttach(base, f), out, f))

AttachStep(s, out, f) ==
    IF ~HandleFree(s, out, f) THEN Closing(s)
    ELSE IF AttachAdmits(s, out, f) THEN Admitted(AfterAttach(s, out, f))
    ELSE Placed(s, out)

-----------------------------------------------------------------------------
(* Flow. *)

CountSet(f) == f.count \notin {Unset, Null}
CountOf(f)  == IF CountSet(f) THEN f.count ELSE 0

IssuerOf(id, out) == IF out THEN id.role ELSE Opposite(id.role)

\* A receiver that has not heard the sender's attach has no count to carry.
\* A null one is read as carried.
ReceiverBeforeSender(id, l, out) ==
    /\ IssuerOf(id, out) = "receiver"
    /\ EndpointOf(l, ~out).life # "attached"

\* Whoever issues it, a flow carries this end's own count for the link.
CountAgrees(id, l, out, f) ==
    IF ReceiverBeforeSender(id, l, out) THEN f.count = Unset
    ELSE /\ f.count # Unset
         /\ l.position # Unset => f.count = l.position.count

\* A sender's flow echoes the credit it was given.
EchoAgrees(id, l, out, f) ==
    IssuerOf(id, out) = "sender" /\ l.position # Unset /\ f.credit # Unset =>
        f.credit = l.position.credit

FlowAdmits(s, out, f) ==
    /\ (f.nextIncoming # Unset) <=> s.peerBegun
    /\ IF f.handle = Unset
       THEN ~CountSet(f) /\ f.credit = Unset /\ ~f.linkFields
       ELSE /\ Resolves(s, out, f.handle)
            /\ LET id == IdOf(s, out, f.handle)
               IN  /\ CountAgrees(id, s.links[id], out, f)
                   /\ EchoAgrees(id, s.links[id], out, f)

\* The credit the receiver's pair leaves the sender.
CreditFor(count, credit, sent) == Minus(count + credit, sent)

LinkAfterFlow(id, l, f) ==
    LET credit == Given(f.credit, 0)
    IN  IF id.role = "sender"
        THEN [l EXCEPT !.position = IF @ = Unset THEN @
                                    ELSE [@ EXCEPT !.credit =
                                             CreditFor(CountOf(f), credit, l.position.count)],
                       !.peerCount  = CountOf(f),
                       !.peerCredit = credit]
        ELSE IF l.position = Unset THEN l
        ELSE [l EXCEPT !.position.count = CountOf(f), !.peerCredit = credit]

AfterFlow(s, out, f) ==
    IF out THEN s
    ELSE LET id     == IdOf(s, out, f.handle)
             linked == IF f.handle = Unset THEN s
                       ELSE PutLink(s, id, LinkAfterFlow(id, s.links[id], f))
         IN  [linked EXCEPT !.windows = AfterReceivingFlow(@, f)]

-----------------------------------------------------------------------------
(* Detach. *)

\* Mutant: the partner's error leaves this end's deliveries unsettled.
MutAfterDetachOf(l, out, f) ==
    LET ended == IF out /\ f.error THEN [NoDelivery(l) EXCEPT !.unsettled = <<>>] ELSE l
        gone  == [life |-> IF f.closed THEN "destroyed" ELSE "detached",
                  incomplete |-> FALSE]
        freed == [ended EXCEPT !.peerCount  = 0,
                               !.peerCredit = 0,
                               !.transactions = IF @ = Unset THEN @ ELSE RetireAll(@)]
    IN  IF out THEN [freed EXCEPT !.local = gone, !.position = Unset]
               ELSE [freed EXCEPT !.remote = gone]

\* The unsettled deliveries outlive a detach that carries no error.
AfterDetachOf(l, out, f) ==
    LET ended == IF f.error THEN [NoDelivery(l) EXCEPT !.unsettled = <<>>] ELSE l
        gone  == [life |-> IF f.closed THEN "destroyed" ELSE "detached",
                  incomplete |-> FALSE]
        freed == [ended EXCEPT !.peerCount  = 0,
                               !.peerCredit = 0,
                               !.transactions = IF @ = Unset THEN @ ELSE RetireAll(@)]
    IN  IF out THEN [freed EXCEPT !.local = gone, !.position = Unset]
               ELSE [freed EXCEPT !.remote = gone]

\* A detach of a handle that names no link changes nothing.
AfterDetach(s, out, f) ==
    IF ~Resolves(s, out, f.handle) THEN s
    ELSE LET id == IdOf(s, out, f.handle)
         IN  PutLink(WithHandles(s, out, Release(Handles(s, out), id)), id,
                     AfterDetachOf(s.links[id], out, f))

-----------------------------------------------------------------------------
(* Disposition. *)

First(f) == Given(f.first, 0)
Last(f)  == Given(f.last, First(f))
InRange(f, deliveryId) == First(f) <= deliveryId /\ deliveryId <= Last(f)

\* A disposition names no link: every link of this end whose role is the one
\* it names, attached or not.
Targets(s, f) == {id \in DOMAIN s.links : id.role = f.role}

DispositionAdmits(s, out, f) ==
    /\ First(f) <= Last(f)
    /\ Targets(s, f) # {}
    /\ \A id \in Targets(s, f) :
           s.links[id].transactions # Unset =>
               TransactionAdmits(s.links[id].transactions, "state", out, f.value, FALSE)

SettledBy(l, f) ==
    [ (IF l.delivery # Unset /\ InRange(f, l.delivery.id) THEN NoDelivery(l) ELSE l)
      EXCEPT !.unsettled = [t \in {u \in DOMAIN @ : ~InRange(f, @[u])} |-> @[t]] ]

WithTransaction(l, out, v) ==
    IF l.transactions = Unset THEN l
    ELSE [l EXCEPT !.transactions = AfterTransaction(@, out, v)]

AfterDisposition(s, out, f) ==
    [s EXCEPT !.links =
        [id \in DOMAIN @ |->
            IF id \notin Targets(s, f) THEN @[id]
            ELSE WithTransaction(IF f.settled THEN SettledBy(@[id], f) ELSE @[id],
                                 out, f.value)]]

-----------------------------------------------------------------------------
(* Transfer. *)

Continued(l) == l.delivery # Unset

DeliveryId(l, f) == IF f.deliveryId # Unset THEN f.deliveryId ELSE l.delivery.id

Tag(l, f) == IF Continued(l) THEN l.tag ELSE f.tag

\* The settled flag as a transfer means it: its own, or its delivery's so far.
MeansSettled(l, f) ==
    Given(f.settled, IF Continued(l) THEN l.delivery.settled ELSE FALSE)

SaysSettled(f) == Given(f.settled, FALSE)

\* Mutant: a later transfer unsays that the delivery is settled.
MutDeliveryAfter(l, f) ==
    IF Continued(l) THEN [l.delivery EXCEPT !.settled = SaysSettled(f)]
    ELSE [id |-> DeliveryId(l, f), settled |-> SaysSettled(f), resumed |-> f.resume]

\* Settled by any of its transfers, resumed by its first.
DeliveryAfter(l, f) ==
    IF Continued(l) THEN [l.delivery EXCEPT !.settled = @ \/ SaysSettled(f)]
    ELSE [id |-> DeliveryId(l, f), settled |-> SaysSettled(f), resumed |-> f.resume]

\* A first transfer names the delivery; a continuation may not contradict it.
Identified(l, f) ==
    IF Continued(l)
    THEN /\ f.deliveryId \in {Unset, l.delivery.id}
         /\ f.tag        \in {Unset, l.tag}
         /\ f.format     \in {Unset, l.format}
    ELSE f.deliveryId # Unset /\ f.tag # Unset /\ f.format # Unset

\* What both ends read of a first transfer before they read the rest.
Begun(l, f) ==
    /\ f.deliveryId # Unset \/ Continued(l)
    /\ Continued(l) \/ (f.tag # Unset /\ f.format # Unset)

\* A resumed transfer of a delivery this end does not hold.
ResumesUnheld(l, f) ==
    f.resume /\ Tag(l, f) # Unset /\ Tag(l, f) \notin DOMAIN l.unsettled

HasCredit(l) == l.position # Unset => l.position.credit > 0

\* Mutant: a tag may be used again while it is held.
MutTagFree(l, f) == TRUE

\* A tag held unsettled may only be the same delivery's again.
TagFree(l, f) == f.tag \in DOMAIN l.unsettled => l.unsettled[f.tag] = DeliveryId(l, f)

TransferAdmits(l, out, f) ==
    /\ Identified(l, f)
    /\ out => ~ResumesUnheld(l, f)
    /\ f.resume /\ Continued(l) => l.delivery.resumed
    /\ out /\ ~Continued(l) /\ ~f.resume => ~l.remote.incomplete
    /\ ~out /\ ~f.resume => ~l.local.incomplete
    /\ l.settledMode /\ ~f.aborted /\ ~f.more => DeliveryAfter(l, f).settled
    /\ ~Continued(l) => /\ out => HasCredit(l)
                        /\ TagFree(l, f)

\* Mutant: a continuation spends credit too.
MutPositionAfter(l, out) ==
    IF l.position = Unset THEN l.position
    ELSE [count  |-> IF Continued(l) THEN l.position.count ELSE l.position.count + 1,
          credit |-> IF out THEN Minus(l.position.credit, 1) ELSE l.position.credit]

\* A delivery, not a transfer, is counted, and spends the sender's credit.
PositionAfter(l, out) ==
    IF l.position = Unset \/ Continued(l) THEN l.position
    ELSE [count  |-> l.position.count + 1,
          credit |-> IF out THEN Minus(l.position.credit, 1) ELSE l.position.credit]

UnsettledAfter(l, f) ==
    LET tag == Tag(l, f)
    IN  IF tag = Unset THEN l.unsettled
        ELSE IF SaysSettled(f) \/ f.aborted
             THEN [t \in DOMAIN l.unsettled \ {tag} |-> l.unsettled[t]]
             ELSE [t \in DOMAIN l.unsettled \cup {tag} |->
                      IF t = tag THEN DeliveryId(l, f) ELSE l.unsettled[t]]

\* The delivery goes on only while `more' says so and nothing aborts it.
LinkAfterTransfer(l, out, f) ==
    LET goesOn == f.more /\ ~f.aborted
        moved  == [l EXCEPT !.position  = PositionAfter(l, out),
                            !.unsettled = UnsettledAfter(l, f),
                            !.nextDeliveryId = IF out /\ ~Continued(l)
                                               THEN DeliveryId(l, f) + 1 ELSE @]
    IN  IF ~goesOn THEN NoDelivery(moved)
        ELSE [moved EXCEPT !.delivery = DeliveryAfter(l, f),
                           !.tag      = Tag(l, f),
                           !.format   = IF Continued(l) THEN @ ELSE f.format]

\* The settle modes the attaches negotiated, read before the link is.
ModesAllow(l, f) ==
    /\ f.second => MeansSettled(l, f) \/ l.secondMode
    /\ ~(l.unsettledMode /\ MeansSettled(l, f) /\ ~f.aborted)

\* Mutant: the partner's window is not asked.
MutWindowOpen(w, out) == IF out THEN w.outgoing > 0 ELSE w.incoming > 0

WindowOpen(w, out) ==
    IF out THEN w.outgoing > 0 /\ w.remoteIncoming > 0 ELSE w.incoming > 0

\* The receiver ignores a resumed transfer of a delivery it does not hold: the
\* link stands, the windows move.
Ignored(l, out, f) == ~out /\ Begun(l, f) /\ ResumesUnheld(l, f)

PayloadAdmits(l, out, f) ==
    l.transactions # Unset =>
        TransactionAdmits(l.transactions, "payload", out, f.value, MeansSettled(l, f))

\* A transfer is the sender's frame.
TransferTaken(s, out, f) ==
    /\ WindowOpen(s.windows, out)
    /\ Resolves(s, out, f.handle)
    /\ LET id == IdOf(s, out, f.handle)
           l  == s.links[id]
       IN  /\ ModesAllow(l, f)
           /\ out <=> id.role = "sender"
           /\ Ignored(l, out, f) \/ TransferAdmits(l, out, f)
           /\ PayloadAdmits(l, out, f)

AfterTransfer(s, out, f) ==
    LET id    == IdOf(s, out, f.handle)
        l     == s.links[id]
        moved == IF Ignored(l, out, f) THEN l ELSE LinkAfterTransfer(l, out, f)
    IN  [PutLink(s, id, WithTransaction(moved, out, f.value)) EXCEPT
            !.windows = IF out THEN AfterSendingTransfer(@) ELSE AfterReceivingTransfer(@)]

-----------------------------------------------------------------------------
(* The session's step. *)

Judged(s, out, admits, after) == IF admits THEN Admitted(after) ELSE Placed(s, out)

SessionStep(s, out, f) ==
    IF FrameDiscarded(s, out, f) THEN Admitted(s)
    ELSE IF ~OnChannel(s, out, f) THEN Declined(s)
    ELSE IF ~(Permitted(s, out, f) /\ f.complete) THEN Placed(s, out)
    ELSE CASE f.body = "begin"  -> BeginStep(s, out, f)
           [] f.body = "end"    -> Admitted(AfterEnd(s, out, f))
           [] f.body = "attach" -> AttachStep(s, out, f)
           [] f.body = "detach" -> Admitted(AfterDetach(s, out, f))
           [] f.body = "flow" ->
                Judged(s, out, FlowAdmits(s, out, f), AfterFlow(s, out, f))
           [] f.body = "disposition" ->
                Judged(s, out, DispositionAdmits(s, out, f), AfterDisposition(s, out, f))
           [] f.body = "transfer" ->
                Judged(s, out, TransferTaken(s, out, f), AfterTransfer(s, out, f))
           [] OTHER -> Admitted(s)
=============================================================================
