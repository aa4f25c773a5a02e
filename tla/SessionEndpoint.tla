---------------------------- MODULE SessionEndpoint ----------------------------
(***************************************************************************)
(* One session with its links (lean/Spec/Protocol.lean's step) against an  *)
(* arbitrary application and an arbitrary partner: any frame may be        *)
(* offered to send and any may arrive, in any order.                       *)
(*                                                                         *)
(* `session' is the code's.  `granted' is history: per link this end       *)
(* sends on, the delivery-count the partner has last let it go up to.      *)
(***************************************************************************)
EXTENDS Links, Integers

CONSTANTS
    Sends, Receives,  \* the frames offered to send, and the frames that may arrive
    MaxDeliveries     \* bound: the delivery-count past which no transfer is offered

Bodies == {"begin", "end", "attach", "flow", "transfer", "disposition", "detach"}

Positions  == [count : Nat, credit : Nat]
Deliveries == [id : Nat, settled : BOOLEAN, resumed : BOOLEAN]
EndpointSides == [life : Lives, incomplete : BOOLEAN]

\* A frame none of whose fields is of another kind than the one it is read as.
IsFrame(f) ==
    /\ f.body \in Bodies /\ f.channel \in Nat
    /\ f.complete /\ f.body = "begin" =>
           /\ {f.nextOutgoing, f.incoming, f.outgoing} \subseteq Nat
           /\ f.handleMax \in Optional(Nat)
    /\ f.complete /\ f.body = "attach" =>
           /\ f.role \in LinkRoles /\ f.handle \in Nat
           /\ f.initialCount \in Optional(Nat)
           /\ {f.incomplete, f.second} \subseteq BOOLEAN
    /\ f.complete /\ f.body = "flow" =>
           /\ {f.nextOutgoing, f.incoming, f.outgoing} \subseteq Nat
           /\ {f.nextIncoming, f.handle, f.credit} \subseteq Optional(Nat)
           /\ f.count \in Optional(Nat) \cup {Null}
    /\ f.complete /\ f.body = "transfer" =>
           /\ f.deliveryId \in Optional(Nat)
           /\ f.settled \in Optional(BOOLEAN)
           /\ f.resume \in BOOLEAN

ASSUME EndpointAssumption ==
    /\ MaxDeliveries \in Nat
    /\ \A f \in Sends \cup Receives : IsFrame(f)
    /\ Unset \notin Deliveries

VARIABLES session, granted

vars == <<session, granted>>

-----------------------------------------------------------------------------

Init == session = StartSession /\ granted = <<>>

\* What the partner allows after frame f: its own flow moves the limit, and a
\* new flow state starts at the link's first delivery-count.
Limits(out, f, s) ==
    [id \in {k \in DOMAIN s.links : k.role = "sender" /\ s.links[k].position # Unset} |->
        LET p == s.links[id].position
        IN  IF f.body = "flow" /\ ~out /\ Resolves(s, out, f.handle) /\ IdOf(s, out, f.handle) = id
            THEN p.count + Given(f.credit, 0)
            ELSE IF f.body = "attach" /\ AttachId(out, f) = id /\ (out \/ id \notin DOMAIN granted)
            THEN p.count
            ELSE granted[id]]

Offer(out, f) ==
    LET r == SessionStep(session, out, f)
    IN  /\ session' = r.session
        /\ granted' = IF r.ok /\ ~FrameDiscarded(session, out, f) THEN Limits(out, f, r.session) ELSE granted

Counted(l) == Given(l.position, [count |-> 0, credit |-> 0]).count

Offered(out, body) == {f \in IF out THEN Sends ELSE Receives : f.body = body}

Begin       == \E out \in BOOLEAN : \E f \in Offered(out, "begin")       : Offer(out, f)
End         == \E out \in BOOLEAN : \E f \in Offered(out, "end")         : Offer(out, f)
Attach      == \E out \in BOOLEAN : \E f \in Offered(out, "attach")      : Offer(out, f)
Flow        == \E out \in BOOLEAN : \E f \in Offered(out, "flow")        : Offer(out, f)
Disposition == \E out \in BOOLEAN : \E f \in Offered(out, "disposition") : Offer(out, f)
Detach      == \E out \in BOOLEAN : \E f \in Offered(out, "detach")      : Offer(out, f)

Transfer ==
    /\ \A id \in DOMAIN session.links : Counted(session.links[id]) < MaxDeliveries
    /\ \E out \in BOOLEAN : \E f \in Offered(out, "transfer") : Offer(out, f)

Next == Begin \/ End \/ Attach \/ Flow \/ Transfer \/ Disposition \/ Detach

Spec == Init /\ [][Next]_vars

-----------------------------------------------------------------------------
(* Invariants. *)

LinkOK(l) ==
    /\ l.local \in EndpointSides /\ l.remote \in EndpointSides
    /\ l.position \in Optional(Positions)
    /\ l.peerCount \in Nat /\ l.peerCredit \in Nat
    /\ l.settledMode \in BOOLEAN /\ l.unsettledMode \in BOOLEAN /\ l.secondMode \in BOOLEAN
    /\ l.delivery \in Optional(Deliveries)
    /\ l.delivery = Unset <=> l.tag = Unset
    /\ l.delivery = Unset <=> l.format = Unset
    /\ l.transactions # Unset => l.transactions.live \subseteq l.transactions.known
    /\ \A t \in DOMAIN l.unsettled : l.unsettled[t] \in Nat
    /\ l.nextDeliveryId \in Nat

TypeOK ==
    /\ session.state \in SessionStates
    /\ session.outgoing \in Optional(Nat) /\ session.incoming \in Optional(Nat)
    /\ session.peerBegun \in BOOLEAN
    /\ session.windows \in Windows
    /\ session.handleMax \in Nat /\ session.peerHandleMax \in Nat
    /\ \A id \in DOMAIN session.links : id.role \in LinkRoles /\ LinkOK(session.links[id])
    /\ \A out \in BOOLEAN : DOMAIN Handles(session, out) \subseteq Nat

\* HandlesResolveLinks of WidenedState.lean, whatever attaches, re-attaches,
\* detaches and new sessions follow each other: a handle names a link whose
\* endpoint is attached, an attached endpoint has a handle, and no two handles
\* of one end name one link.
HandlesAssociate ==
    \A out \in BOOLEAN :
        LET handles == Handles(session, out)
        IN  /\ \A h \in DOMAIN handles :
                   /\ handles[h] \in DOMAIN session.links
                   /\ EndpointOf(session.links[handles[h]], out).life = "attached"
            /\ \A id \in DOMAIN session.links :
                   EndpointOf(session.links[id], out).life = "attached" =>
                       \E h \in DOMAIN handles : handles[h] = id
            /\ \A h, k \in DOMAIN handles : handles[h] = handles[k] => h = k

\* What the descriptions of the states say of the channel map (Session.atState),
\* as far as it is so however the session came to its state.  The incoming
\* entry is there exactly from the partner's begin to its end, and the outgoing
\* number always in BEGIN_SENT and MAPPED and never in UNMAPPED, BEGIN_RCVD or
\* END_SENT.  Three claims of the descriptions are left out, for the code does
\* not keep them: the incoming entry of an END_SENT reached from BEGIN_SENT, the
\* outgoing number of an END_RCVD reached from BEGIN_RCVD, and the release of
\* the outgoing number by a DISCARDING reached by a refused receive.
StateTellsChannels ==
    /\ session.incoming # Unset <=> session.peerBegun /\ session.state # "END_RCVD"
    /\ session.state \in {"BEGIN_RCVD", "MAPPED", "END_RCVD"} => session.peerBegun
    /\ session.state \in {"UNMAPPED", "BEGIN_SENT"} => ~session.peerBegun
    /\ session.state \in {"BEGIN_SENT", "MAPPED"} => session.outgoing # Unset
    /\ session.outgoing # Unset =>
           session.state \in {"BEGIN_SENT", "MAPPED", "END_RCVD", "DISCARDING"}

\* A sender's count and credit stay within what its partner granted last,
\* whatever is fragmented, aborted, settled or detached in between: credit
\* counts deliveries, and only the receiver makes it.
CreditWithinGrant ==
    \A id \in DOMAIN session.links :
        id.role = "sender" /\ session.links[id].position # Unset =>
            /\ id \in DOMAIN granted
            /\ session.links[id].position.count + session.links[id].position.credit
                   = granted[id]

-----------------------------------------------------------------------------
(* Action properties. *)

\* A session that answered an error hears nothing but its partner's end: until
\* then no frame, in either direction, moves it.
DiscardingIsFrozen ==
    [][session.state = "DISCARDING" =>
           session' = session \/ session'.state = "UNMAPPED"]_vars

\* One delivery is in progress on a link at a time, and a transfer of it that
\* was settled is not unsettled by a later one (Contracts/Settlement.lean).
SettlementIsAbsorbing ==
    [][\A id \in DOMAIN session.links :
           LET d == session.links[id].delivery
               e == session'.links[id].delivery
           IN  d # Unset /\ e # Unset => d.id = e.id /\ (d.settled => e.settled)]_vars

\* "true if and only if the value of the settled flag on any of the preceding
\* transfers was true" (Contracts/Settlement.lean): a delivery one of whose
\* transfers was settled is not held unsettled by a later one.
SettledIsNotHeld ==
    [][\A id \in DOMAIN session.links :
           LET l == session.links[id]
           IN  l.delivery # Unset /\ l.delivery.settled =>
                   l.tag \notin DOMAIN session'.links[id].unsettled]_vars

\* A tag held unsettled names the same delivery as long as it is held, over
\* detaches and resumes.
TagsNameOneDelivery ==
    [][\A id \in DOMAIN session.links :
           LET held == session.links[id].unsettled
               kept == session'.links[id].unsettled
           IN  \A t \in DOMAIN held \cap DOMAIN kept : kept[t] = held[t]]_vars

\* A transaction that was discharged, or rolled back with its control link, is
\* never in use again, whatever outcome or re-attach follows.  The one way back
\* is an allocation, whose number this end may have been told before.
RetiredStaysRetired ==
    [][\A id \in DOMAIN session.links :
           LET before == session.links[id].transactions
               after  == session'.links[id].transactions
           IN  before # Unset =>
                   (before.known \ before.live) \cap after.live
                       \subseteq before.nextId .. after.nextId - 1]_vars
=============================================================================
