------------------------ MODULE SessionFrames_proofs -------------------------
(***************************************************************************)
(* One session of a pair, and one frame: what the session becomes that     *)
(* says it, and what the session becomes that hears it.  Nothing here is   *)
(* about what is in flight; the lemmas at the end of each section (Saying, *)
(* Hearing and Composing) are what SessionPair_proofs cites of             *)
(* SessionStep.                                                            *)
(***************************************************************************)
EXTENDS SessionPair, SequenceTheorems, TLAPS

-----------------------------------------------------------------------------
(* One session, and what it says of the exchange. *)

\* What the theorems ask of the constants.  The server grants only when all it
\* granted is used; the client counts from 0, as the server does; and a session's
\* transfers do not wrap their ids.
Measured == /\ ~Eager
            /\ InitialCount = 0
            /\ FirstId + Window < SerialModulus

\* The one link of the session x at p; whether p's end of it is attached, whether
\* its partner's is known to be, and where p's count and credit stand.
LinkIn(x, p) == LinkOrBlank(x, Id(p))
Up(x, p)     == LinkIn(x, p).local.life = "attached"
Seen(x, p)   == LinkIn(x, p).remote.life = "attached"
Count(x, p)  == LinkIn(x, p).position.count
Credit(x, p) == LinkIn(x, p).position.credit

\* Records, with the fields of a session and of a link.
IsSession(x) ==
    x = [state |-> x.state, outgoing |-> x.outgoing, incoming |-> x.incoming,
         peerBegun |-> x.peerBegun, windows |-> x.windows, handleMax |-> x.handleMax,
         peerHandleMax |-> x.peerHandleMax, links |-> x.links,
         localHandles |-> x.localHandles, remoteHandles |-> x.remoteHandles]

IsLink(l) ==
    l = [local |-> l.local, remote |-> l.remote, position |-> l.position,
         peerCount |-> l.peerCount, peerCredit |-> l.peerCredit,
         settledMode |-> l.settledMode, unsettledMode |-> l.unsettledMode,
         secondMode |-> l.secondMode, delivery |-> l.delivery, tag |-> l.tag,
         format |-> l.format, transactions |-> l.transactions,
         unsettled |-> l.unsettled, nextDeliveryId |-> l.nextDeliveryId]

\* How far one end of the link has come.
IsEnd(e) == e.life \in {"suspended", "attached", "detached"} /\ ~e.incomplete

\* A sender's or a receiver's position, and a delivery in progress.
Positions  == [count : Nat, credit : Nat]
Deliveries == [id : Nat, settled : BOOLEAN, resumed : BOOLEAN]

\* A link of the pair at p.
LinkShape(l, p) ==
    /\ IsLink(l)
    /\ IsEnd(l.local) /\ IsEnd(l.remote)
    /\ l.transactions = Unset
    /\ l.nextDeliveryId \in Nat
    /\ l.position \in Optional(Positions)
    /\ l.delivery \in Optional(Deliveries)
    /\ l.local.life = "attached" => l.position # Unset
    /\ p = "server" /\ l.local.life # "attached" => l.position = Unset

\* The handle h, while it is bound, names the one link.
Binds(handles, h, bound, id) ==
    /\ DOMAIN handles = IF bound THEN {h} ELSE {}
    /\ bound => handles[h] = id

\* A session of the pair at p: the handles and the registry tell of one link.
SessionShape(x, p) ==
    /\ IsSession(x)
    /\ x.handleMax = DefaultHandleMax /\ x.peerHandleMax = DefaultHandleMax
    /\ x.windows \in Windows
    /\ DOMAIN x.links \subseteq {Id(p)}
    /\ LinkShape(LinkIn(x, p), p)
    /\ Binds(x.localHandles, Handle(p), Up(x, p), Id(p))
    /\ Binds(x.remoteHandles, Handle(Other(p)), Seen(x, p), Id(p))

\* Begins and ends apart, a frame leaves these alone.
SameStage(x, y) ==
    /\ y.state = x.state /\ y.outgoing = x.outgoing /\ y.incoming = x.incoming
    /\ y.peerBegun = x.peerBegun

-----------------------------------------------------------------------------

\* The two ends, their roles, channels and handles.
LEMMA Sides ==
    /\ Other("client") = "server" /\ Other("server") = "client"
    /\ Role("client") = "sender" /\ Role("server") = "receiver"
    /\ Handle("client") = 0 /\ Handle("server") = 1
    /\ Channel("client") = 1 /\ Channel("server") = 2
    /\ \A p \in Peers : Other(p) \in Peers /\ Other(Other(p)) = p /\ Other(p) # p
    /\ \A p \in Peers : Opposite(Role(Other(p))) = Role(p)
  BY DEF Other, Role, Handle, Channel, Peers, Opposite

\* An absent field is none of the values a field may have.
LEMMA NotUnset ==
    /\ Unset \notin Nat /\ Unset \notin Positions /\ Unset \notin Deliveries
  BY SessionAssumption, LinkAssumption DEF Positions, Deliveries

\* A link nobody has attached.
LEMMA BlankShape == \A p : LinkShape(BlankLink, p)
  BY DEF LinkShape, IsLink, BlankLink, IsEnd, Optional

\* A session whose link is put, with its handles and windows.
LEMMA Rebuilt ==
    ASSUME NEW p \in Peers, NEW x, SessionShape(x, p), NEW l, LinkShape(l, p), NEW y,
           IsSession(y),
           y.handleMax = DefaultHandleMax, y.peerHandleMax = DefaultHandleMax,
           y.windows \in Windows,
           y.links = [k \in DOMAIN x.links \cup {Id(p)} |-> IF k = Id(p) THEN l ELSE x.links[k]],
           Binds(y.localHandles, Handle(p), l.local.life = "attached", Id(p)),
           Binds(y.remoteHandles, Handle(Other(p)), l.remote.life = "attached", Id(p))
    PROVE  SessionShape(y, p) /\ LinkIn(y, p) = l
  <1>1. DOMAIN y.links = {Id(p)} /\ y.links[Id(p)] = l
    BY DEF SessionShape
  <1>2. LinkIn(y, p) = l
    BY <1>1 DEF LinkIn, LinkOrBlank
  <1> QED
    BY <1>1, <1>2 DEF SessionShape, Up, Seen

\* A session whose stage or windows move, and nothing else.
LEMMA Restaged ==
    ASSUME NEW p \in Peers, NEW x, SessionShape(x, p), NEW y, IsSession(y),
           y.handleMax = DefaultHandleMax, y.peerHandleMax = DefaultHandleMax,
           y.windows \in Windows, y.links = x.links,
           y.localHandles = x.localHandles, y.remoteHandles = x.remoteHandles
    PROVE  SessionShape(y, p) /\ LinkIn(y, p) = LinkIn(x, p)
  <1>1. LinkIn(y, p) = LinkIn(x, p)
    BY DEF LinkIn, LinkOrBlank
  <1> QED
    BY <1>1 DEF SessionShape, Up, Seen

\* A link that is up at either end is filed.
LEMMA Filed ==
    ASSUME NEW p \in Peers, NEW x, SessionShape(x, p), Up(x, p) \/ Seen(x, p)
    PROVE  Id(p) \in DOMAIN x.links /\ x.links[Id(p)] = LinkIn(x, p)
  BY DEF Up, Seen, LinkIn, LinkOrBlank, BlankLink

\* What a handle of the partner's, or this end's own, resolves to.
LEMMA Resolving ==
    ASSUME NEW p \in Peers, NEW x, SessionShape(x, p), NEW out \in BOOLEAN
    PROVE  LET h == Handle(IF out THEN p ELSE Other(p))
           IN  /\ Resolves(x, out, h) <=> IF out THEN Up(x, p) ELSE Seen(x, p)
               /\ Resolves(x, out, h) => /\ IdOf(x, out, h) = Id(p)
                                         /\ Id(p) \in DOMAIN x.links
                                         /\ x.links[Id(p)] = LinkIn(x, p)
  BY Filed DEF SessionShape, Binds, Resolves, IdOf, Handles

-----------------------------------------------------------------------------
(* The link, after each frame. *)

\* What an attach and a detach of the pair carry.
IsAttach(f, q) ==
    /\ f.name = "link" /\ f.role = Role(q) /\ f.handle = Handle(q)
    /\ ~f.map /\ ~f.nullKey /\ f.termini
    /\ q = "client" => f.initialCount \in Nat
    /\ ~f.incomplete /\ f.coordinator = Unset

IsDetach(f, q) == f.handle = Handle(q) /\ ~f.closed /\ f.error \in BOOLEAN

\* What the deliveries of a link are told by: the delivery in progress, the
\* table of unsettled ones, and the modes negotiated.
Table(l) == [delivery |-> l.delivery, tag |-> l.tag, format |-> l.format,
             unsettled |-> l.unsettled, settledMode |-> l.settledMode,
             unsettledMode |-> l.unsettledMode]

\* What an attach does to a table.
Renewed(a, f) == NoDelivery(IF f.role = "sender" THEN WithModes(a, f) ELSE a)

\* What a detach with an error does to one.
Cleared(a) == [NoDelivery(a) EXCEPT !.unsettled = <<>>]

\* An end that has attached stands at a fresh position.
AttachSent(m, l, p, f) ==
    /\ LinkShape(m, p)
    /\ m.local.life = "attached" /\ m.remote = l.remote
    /\ m.position = FreshPosition(f)
    /\ Table(m) = Renewed(Table(l), f)

\* The modes, and the delivery forgotten: nothing else moves.
KeepsRest(m, l) ==
    /\ IsLink(m) /\ m.local = l.local /\ m.remote = l.remote /\ m.position = l.position
    /\ m.transactions = l.transactions /\ m.nextDeliveryId = l.nextDeliveryId

\* The modes of an attach are the sender's word, and touch nothing else.
LEMMA WithModesKeeps ==
    ASSUME NEW l, IsLink(l), NEW f
    PROVE  /\ KeepsRest(WithModes(l, f), l)
           /\ Table(WithModes(l, f)) = IF f.role = "sender" THEN WithModes(Table(l), f) ELSE Table(l)
  <1>1. CASE f.role = "sender"
    BY <1>1 DEF KeepsRest, Table, WithModes, IsLink
  <1>2. CASE f.role # "sender"
    BY <1>2 DEF KeepsRest, Table, WithModes, IsLink
  <1> QED
    BY <1>1, <1>2

\* To forget the delivery in progress is to forget nothing else.
LEMMA NoDeliveryKeeps ==
    ASSUME NEW l, IsLink(l)
    PROVE  /\ KeepsRest(NoDelivery(l), l)
           /\ NoDelivery(l).delivery = Unset
           /\ Table(NoDelivery(l)) = NoDelivery(Table(l))
  <1> DEFINE n == NoDelivery(l)
  <1>1. n = [l EXCEPT !.delivery = Unset, !.tag = Unset, !.format = Unset]
    BY DEF NoDelivery
  <1>2. NoDelivery(Table(l)) = [Table(l) EXCEPT !.delivery = Unset, !.tag = Unset, !.format = Unset]
    BY DEF NoDelivery
  <1> HIDE DEF n
  <1>3. KeepsRest(n, l) /\ n.delivery = Unset
    BY <1>1 DEF KeepsRest, IsLink
  <1>4. Table(n) = NoDelivery(Table(l))
    BY <1>1, <1>2 DEF Table, IsLink
  <1> QED
    BY <1>3, <1>4 DEF n

\* An attach renews the table, and keeps the rest.
LEMMA RenewedKeeps ==
    ASSUME NEW l, IsLink(l), NEW f
    PROVE  LET n == NoDelivery(WithModes(l, f))
           IN  KeepsRest(n, l) /\ n.delivery = Unset /\ Table(n) = Renewed(Table(l), f)
  <1> DEFINE m == WithModes(l, f)
  <1>1. /\ KeepsRest(m, l)
        /\ Table(m) = IF f.role = "sender" THEN WithModes(Table(l), f) ELSE Table(l)
    BY WithModesKeeps
  <1> HIDE DEF m
  <1>2. IsLink(m)
    BY <1>1 DEF KeepsRest
  <1> DEFINE n == NoDelivery(m)
  <1>3. /\ KeepsRest(n, m) /\ n.delivery = Unset
        /\ Table(n) = NoDelivery(Table(m))
    BY <1>2, NoDeliveryKeeps
  <1> HIDE DEF n
  <1>4. KeepsRest(n, l)
    BY <1>1, <1>3 DEF KeepsRest
  <1>5. Table(n) = Renewed(Table(l), f)
    BY <1>1, <1>3 DEF Renewed
  <1> QED
    BY <1>3, <1>4, <1>5 DEF n, m

\* What an attach leaves of the link at the end that sends it.
LEMMA SentAttachShape ==
    ASSUME NEW p \in Peers, NEW l, LinkShape(l, p), NEW f, IsAttach(f, p)
    PROVE  AttachSent(AfterSentAttach(l, f), l, p, f)
  <1>1. IsLink(l) /\ l.transactions = Unset /\ l.nextDeliveryId \in Nat /\ IsEnd(l.remote)
    BY DEF LinkShape
  <1>2. FreshPosition(f) \in Positions
    BY Sides DEF FreshPosition, IsAttach, Peers, Positions
  <1> DEFINE n == NoDelivery(WithModes(l, f))
             m == AfterSentAttach(l, f)
  <1>3. m = [n EXCEPT !.local = [life |-> "attached", incomplete |-> f.incomplete],
                      !.position = FreshPosition(f), !.peerCount = 0, !.peerCredit = 0]
    BY DEF AfterSentAttach
  <1>4. KeepsRest(n, l) /\ n.delivery = Unset /\ Table(n) = Renewed(Table(l), f)
    BY <1>1, RenewedKeeps
  <1> HIDE DEF m, n
  <1>5. /\ IsLink(m) /\ m.delivery = Unset /\ m.remote = l.remote /\ m.transactions = Unset
        /\ m.nextDeliveryId = l.nextDeliveryId /\ m.position = FreshPosition(f)
        /\ m.local = [life |-> "attached", incomplete |-> f.incomplete]
    BY <1>1, <1>3, <1>4 DEF IsLink, KeepsRest
  <1>6. Table(m) = Table(n)
    BY <1>3, <1>4 DEF Table, IsLink, KeepsRest
  <1>7. IsEnd(m.local) /\ m.local.life = "attached"
    BY <1>5 DEF IsEnd, IsAttach
  <1>8. AttachSent(m, l, p, f)
    BY <1>1, <1>2, <1>4, <1>5, <1>6, <1>7, NotUnset DEF LinkShape, Optional, AttachSent
  <1> QED
    BY <1>8 DEF m
\* An end that hears an attach keeps its own position, and is given one.
AttachHeard(m, l, p, f) ==
    /\ LinkShape(m, p)
    /\ m.local = l.local /\ m.remote.life = "attached"
    /\ m.position = IF f.role = "sender" \/ l.position # Unset THEN l.position
                    ELSE [count |-> 0, credit |-> 0]
    /\ Table(m) = Renewed(Table(l), f)

\* What an attach leaves of the link at the end that hears it.
LEMMA ReceivedAttachShape ==
    ASSUME NEW p \in Peers, NEW l, LinkShape(l, p), NEW f, IsAttach(f, Other(p))
    PROVE  AttachHeard(AfterReceivedAttach(l, f), l, p, f)
  <1>1. /\ IsLink(l) /\ l.transactions = Unset /\ l.nextDeliveryId \in Nat /\ IsEnd(l.local)
        /\ l.position \in Optional(Positions)
        /\ l.local.life = "attached" => l.position # Unset
        /\ p = "server" /\ l.local.life # "attached" => l.position = Unset
    BY DEF LinkShape
  <1> DEFINE n == NoDelivery(WithModes(l, f))
             m == AfterReceivedAttach(l, f)
             position == IF f.role = "sender" \/ l.position # Unset THEN l.position
                         ELSE [count |-> 0, credit |-> 0]
  <1>2. f.role = "sender" <=> p = "server"
    BY Sides DEF IsAttach, Peers
  <1>3. KeepsRest(n, l) /\ n.delivery = Unset /\ Table(n) = Renewed(Table(l), f)
    BY <1>1, RenewedKeeps
  <1> HIDE DEF n
  <1>4. f.role # "sender" => FreshPosition(f) = [count |-> 0, credit |-> 0]
    BY DEF FreshPosition
  <1>5. m = [n EXCEPT !.remote = [life |-> "attached", incomplete |-> f.incomplete],
                      !.peerCount = IF f.role = "sender" THEN f.initialCount ELSE n.peerCount,
                      !.position = IF f.role = "sender" \/ n.position # Unset THEN n.position
                                   ELSE FreshPosition(f)]
    BY <1>3 DEF AfterReceivedAttach, n, KeepsRest, IsLink
  <1>6. position = IF f.role = "sender" \/ n.position # Unset THEN n.position
                   ELSE FreshPosition(f)
    BY <1>3, <1>4 DEF KeepsRest
  <1>7. position \in Optional(Positions) /\ (l.position # Unset => position = l.position)
        /\ (p = "server" => position = l.position)
    BY <1>1, <1>2 DEF Optional, Positions
  <1> HIDE DEF m, position
  <1>8. /\ IsLink(m) /\ m.delivery = Unset /\ m.local = l.local /\ m.transactions = Unset
        /\ m.nextDeliveryId = l.nextDeliveryId /\ m.position = position
        /\ m.remote = [life |-> "attached", incomplete |-> f.incomplete]
    BY <1>1, <1>3, <1>5, <1>6 DEF IsLink, KeepsRest
  <1>9. Table(m) = Table(n)
    BY <1>3, <1>5 DEF Table, IsLink, KeepsRest
  <1>10. IsEnd(m.remote) /\ m.remote.life = "attached"
    BY <1>8 DEF IsEnd, IsAttach
  <1>11. LinkShape(m, p)
    BY <1>1, <1>7, <1>8, <1>10 DEF LinkShape, Optional
  <1> QED
    BY <1>3, <1>8, <1>9, <1>10, <1>11 DEF AttachHeard, m, position

\* An end that has detached has no position; one that hears a detach keeps it.
Detached(m, l, p, out, f) ==
    /\ LinkShape(m, p)
    /\ IF out THEN m.local.life = "detached" /\ m.remote = l.remote /\ m.position = Unset
              ELSE m.remote.life = "detached" /\ m.local = l.local /\ m.position = l.position
    /\ Table(m) = IF f.error THEN Cleared(Table(l)) ELSE Table(l)

\* What a detach leaves of the link, at either end.
LEMMA DetachShape ==
    ASSUME NEW p \in Peers, NEW l, LinkShape(l, p), NEW out \in BOOLEAN,
           NEW f, ~f.closed
    PROVE  Detached(AfterDetachOf(l, out, f), l, p, out, f)
  <1>1. /\ IsLink(l) /\ l.transactions = Unset /\ l.nextDeliveryId \in Nat
        /\ IsEnd(l.local) /\ IsEnd(l.remote)
        /\ l.position \in Optional(Positions) /\ l.delivery \in Optional(Deliveries)
        /\ l.local.life = "attached" => l.position # Unset
        /\ p = "server" /\ l.local.life # "attached" => l.position = Unset
    BY DEF LinkShape
  <1> DEFINE n == NoDelivery(l)
             e == IF f.error THEN [n EXCEPT !.unsettled = <<>>] ELSE l
             freed == [e EXCEPT !.peerCount = 0, !.peerCredit = 0,
                                !.transactions = IF @ = Unset THEN @ ELSE RetireAll(@)]
             gone == [life |-> "detached", incomplete |-> FALSE]
             m == AfterDetachOf(l, out, f)
  <1>2. KeepsRest(n, l) /\ n.delivery = Unset /\ Table(n) = NoDelivery(Table(l))
    BY <1>1, NoDeliveryKeeps
  <1>3. m = IF out THEN [freed EXCEPT !.local = gone, !.position = Unset]
                   ELSE [freed EXCEPT !.remote = gone]
    BY DEF AfterDetachOf
  <1> HIDE DEF n, m
  <1>4. /\ KeepsRest(e, l) /\ e.delivery \in Optional(Deliveries)
        /\ Table(e) = IF f.error THEN Cleared(Table(l)) ELSE Table(l)
    <2>1. CASE f.error
      <3>1. e = [n EXCEPT !.unsettled = <<>>]
        BY <2>1
      <3> HIDE DEF e
      <3>2. KeepsRest(e, l) /\ e.delivery = Unset
        BY <1>2, <3>1 DEF KeepsRest, IsLink
      <3>3. Table(e) = [Table(n) EXCEPT !.unsettled = <<>>]
        BY <1>2, <3>1 DEF Table, KeepsRest, IsLink
      <3> QED
        BY <1>2, <2>1, <3>2, <3>3 DEF Cleared, Optional
    <2>2. CASE ~f.error
      BY <1>1, <2>2 DEF KeepsRest
    <2> QED
      BY <2>1, <2>2
  <1> HIDE DEF e
  <1>5. /\ KeepsRest(freed, l) /\ freed.delivery = e.delivery /\ Table(freed) = Table(e)
    <2>1. freed = [e EXCEPT !.peerCount = 0, !.peerCredit = 0, !.transactions = Unset]
      BY <1>1, <1>4 DEF KeepsRest, IsLink
    <2> HIDE DEF freed
    <2>2. KeepsRest(freed, l) /\ freed.delivery = e.delivery
      BY <1>1, <1>4, <2>1 DEF KeepsRest, IsLink
    <2>3. Table(freed) = Table(e)
      BY <1>4, <2>1 DEF KeepsRest, IsLink, Table
    <2> QED
      BY <2>2, <2>3
  <1> HIDE DEF freed
  <1>6. gone.life = "detached" /\ IsEnd(gone)
    BY DEF IsEnd
  <1> HIDE DEF gone
  <1>7. CASE out
    <2>1. m = [freed EXCEPT !.local = gone, !.position = Unset]
      BY <1>3, <1>7
    <2>2. /\ IsLink(m) /\ m.local = gone /\ m.position = Unset /\ m.remote = l.remote
          /\ m.transactions = l.transactions /\ m.nextDeliveryId = l.nextDeliveryId
          /\ m.delivery = freed.delivery
      BY <1>5, <2>1 DEF KeepsRest, IsLink
    <2>3. Table(m) = Table(freed)
      BY <1>5, <2>1 DEF KeepsRest, IsLink, Table
    <2>4. LinkShape(m, p)
      BY <1>1, <1>4, <1>5, <1>6, <2>2 DEF LinkShape, Optional
    <2> QED
      BY <1>4, <1>5, <1>6, <1>7, <2>2, <2>3, <2>4 DEF Detached, m
  <1>8. CASE ~out
    <2>1. m = [freed EXCEPT !.remote = gone]
      BY <1>3, <1>8
    <2>2. /\ IsLink(m) /\ m.remote = gone /\ m.position = l.position /\ m.local = l.local
          /\ m.transactions = l.transactions /\ m.nextDeliveryId = l.nextDeliveryId
          /\ m.delivery = freed.delivery
      BY <1>5, <2>1 DEF KeepsRest, IsLink
    <2>3. Table(m) = Table(freed)
      BY <1>5, <2>1 DEF KeepsRest, IsLink, Table
    <2>4. LinkShape(m, p)
      BY <1>1, <1>4, <1>5, <1>6, <2>2 DEF LinkShape
    <2> QED
      BY <1>4, <1>5, <1>6, <1>8, <2>2, <2>3, <2>4 DEF Detached, m
  <1> QED
    BY <1>7, <1>8

\* What a flow of the link, and a transfer, carry.
IsLinkFlow(f, q) ==
    /\ f.handle = Handle(q) /\ f.count \in Nat
    /\ IF q = "server" THEN f.credit \in Nat ELSE f.credit = Unset

\* A transfer of the client's.
IsTransfer(f) ==
    /\ f.handle = Handle("client") /\ f.deliveryId \in Optional(Nat)
    /\ f.resume \in BOOLEAN /\ ~f.resume /\ ~f.second /\ f.value = NoValue
    /\ f.settled \in {Unset, TRUE}

\* A flow of the partner's moves the position alone.
FlowHeard(m, l, p, f) ==
    /\ LinkShape(m, p)
    /\ m.local = l.local /\ m.remote = l.remote /\ Table(m) = Table(l)
    /\ l.position = Unset => m.position = Unset
    /\ l.position # Unset =>
           m.position = IF p = "client"
                        THEN [count  |-> l.position.count,
                              credit |-> Minus(f.count + f.credit, l.position.count)]
                        ELSE [count |-> f.count, credit |-> l.position.credit]

\* What a flow of the link leaves of it.
LEMMA FlowShape ==
    ASSUME NEW p \in Peers, NEW l, LinkShape(l, p), NEW f, IsLinkFlow(f, Other(p))
    PROVE  FlowHeard(LinkAfterFlow(Id(p), l, f), l, p, f)
  <1>1. /\ IsLink(l) /\ l.transactions = Unset /\ l.nextDeliveryId \in Nat
        /\ IsEnd(l.local) /\ IsEnd(l.remote)
        /\ l.position \in Optional(Positions) /\ l.delivery \in Optional(Deliveries)
        /\ l.local.life = "attached" => l.position # Unset
        /\ p = "server" /\ l.local.life # "attached" => l.position = Unset
    BY DEF LinkShape
  <1>2. CountOf(f) = f.count /\ f.count \in Nat
    BY SessionAssumption DEF CountOf, CountSet, IsLinkFlow
  <1>3. Id(p).role = Role(p)
    BY DEF Id
  <1> DEFINE m == LinkAfterFlow(Id(p), l, f)
  <1>4. CASE p = "client"
    <2>1. Id(p).role = "sender" /\ f.credit \in Nat
      BY <1>3, <1>4, Sides DEF IsLinkFlow
    <2>2. Given(f.credit, 0) = f.credit
      BY <2>1, NotUnset DEF Given
    <2> DEFINE position == IF l.position = Unset THEN Unset
                           ELSE [count |-> l.position.count,
                                 credit |-> Minus(f.count + f.credit, l.position.count)]
    <2>3. position = IF l.position = Unset THEN l.position
                     ELSE [l.position EXCEPT !.credit =
                              CreditFor(f.count, f.credit, l.position.count)]
      <3>1. l.position # Unset => l.position \in Positions
        BY <1>1 DEF Optional
      <3>2. l.position # Unset =>
                [l.position EXCEPT !.credit = CreditFor(f.count, f.credit, l.position.count)]
                = [count |-> l.position.count,
                   credit |-> CreditFor(f.count, f.credit, l.position.count)]
        BY <3>1 DEF Positions
      <3> QED
        BY <3>2 DEF CreditFor
    <2>4. m = [l EXCEPT !.position = position, !.peerCount = f.count, !.peerCredit = f.credit]
      <3>1. m = [l EXCEPT !.position = IF l.position = Unset THEN l.position
                                       ELSE [l.position EXCEPT !.credit =
                                                CreditFor(f.count, f.credit, l.position.count)],
                          !.peerCount = f.count, !.peerCredit = f.credit]
        BY <1>1, <1>2, <2>1, <2>2 DEF LinkAfterFlow, IsLink
      <3> QED
        BY <2>3, <3>1
    <2>5. position \in Optional(Positions) /\ (position = Unset <=> l.position = Unset)
      BY <1>1, <1>2, <2>1, NotUnset DEF Optional, Positions, Minus
    <2> HIDE DEF m, position
    <2>6. /\ IsLink(m) /\ m.local = l.local /\ m.remote = l.remote /\ m.position = position
          /\ m.transactions = l.transactions /\ m.nextDeliveryId = l.nextDeliveryId
          /\ m.delivery = l.delivery
      BY <1>1, <2>4 DEF IsLink
    <2>7. Table(m) = Table(l)
      BY <1>1, <2>4 DEF IsLink, Table
    <2>8. LinkShape(m, p)
      BY <1>1, <1>4, <2>5, <2>6 DEF LinkShape
    <2> QED
      BY <1>4, <2>6, <2>7, <2>8 DEF FlowHeard, m, position
  <1>5. CASE p = "server" /\ l.position = Unset
    <2>1. m = l
      BY <1>3, <1>5, Sides DEF LinkAfterFlow
    <2> QED
      BY <1>5, <2>1 DEF FlowHeard
  <1>6. CASE p = "server" /\ l.position # Unset
    <2>1. m = [l EXCEPT !.position = [l.position EXCEPT !.count = f.count],
                        !.peerCredit = Given(f.credit, 0)]
      BY <1>1, <1>2, <1>3, <1>6, Sides DEF LinkAfterFlow, IsLink
    <2> DEFINE position == [count |-> f.count, credit |-> l.position.credit]
    <2>2. [l.position EXCEPT !.count = f.count] = position
      BY <1>1, <1>6 DEF Optional, Positions
    <2>3. m = [l EXCEPT !.position = position, !.peerCredit = Given(f.credit, 0)]
      BY <2>1, <2>2
    <2>4. position \in Positions
      BY <1>1, <1>2, <1>6 DEF Optional, Positions
    <2> HIDE DEF m, position
    <2>6. /\ IsLink(m) /\ m.local = l.local /\ m.remote = l.remote /\ m.position = position
          /\ m.transactions = l.transactions /\ m.nextDeliveryId = l.nextDeliveryId
          /\ m.delivery = l.delivery
      BY <1>1, <2>3 DEF IsLink
    <2>7. Table(m) = Table(l)
      BY <1>1, <2>3 DEF IsLink, Table
    <2>8. LinkShape(m, p)
      BY <1>1, <1>6, <2>4, <2>6, NotUnset DEF LinkShape, Optional
    <2> QED
      BY <1>6, <2>6, <2>7, <2>8 DEF FlowHeard, m, position
  <1> QED
    BY <1>4, <1>5, <1>6 DEF Peers

-----------------------------------------------------------------------------
(* Transfers, as a table takes them. *)

\* What the receiver asks of a transfer; the sender asks it too.
Accepts(a, f) ==
    /\ ModesAllow(a, f)
    /\ Identified(a, f)
    /\ a.settledMode /\ ~f.aborted /\ ~f.more => DeliveryAfter(a, f).settled
    /\ ~Continued(a) => TagFree(a, f)

\* What a transfer does to a table.
Transferred(a, f) ==
    LET moved == [a EXCEPT !.unsettled = UnsettledAfter(a, f)]
    IN  IF ~(f.more /\ ~f.aborted) THEN NoDelivery(moved)
        ELSE [moved EXCEPT !.delivery = DeliveryAfter(a, f),
                           !.tag      = Tag(a, f),
                           !.format   = IF Continued(a) THEN @ ELSE f.format]

\* A table has the fields of its link.
LEMMA TableFields ==
    ASSUME NEW l
    PROVE  /\ Table(l).delivery = l.delivery /\ Table(l).tag = l.tag /\ Table(l).format = l.format
           /\ Table(l).unsettled = l.unsettled /\ Table(l).settledMode = l.settledMode
           /\ Table(l).unsettledMode = l.unsettledMode
  BY DEF Table

\* A table, when the delivery in progress is another.
LEMMA TableExcept ==
    ASSUME NEW t, t = [delivery |-> t.delivery, tag |-> t.tag, format |-> t.format,
                       unsettled |-> t.unsettled, settledMode |-> t.settledMode,
                       unsettledMode |-> t.unsettledMode],
           NEW x, NEW y, NEW z, NEW s, s = [t EXCEPT !.delivery = x, !.tag = y, !.format = z]
    PROVE  s = [delivery |-> x, tag |-> y, format |-> z, unsettled |-> t.unsettled,
                settledMode |-> t.settledMode, unsettledMode |-> t.unsettledMode]
  <1>1. s = [delivery |-> s.delivery, tag |-> s.tag, format |-> s.format,
             unsettled |-> s.unsettled, settledMode |-> s.settledMode,
             unsettledMode |-> s.unsettledMode]
    OBVIOUS
  <1>2. /\ s.delivery = x /\ s.tag = y /\ s.format = z /\ s.unsettled = t.unsettled
        /\ s.settledMode = t.settledMode /\ s.unsettledMode = t.unsettledMode
    OBVIOUS
  <1> QED
    BY <1>1, <1>2

\* The transfer's operators read the table, and the link they are applied to
\* has its fields.
LEMMA TableReads ==
    ASSUME NEW l, NEW f
    PROVE  /\ Continued(Table(l)) <=> Continued(l)
           /\ Tag(Table(l), f) = Tag(l, f)
           /\ DeliveryId(Table(l), f) = DeliveryId(l, f)
           /\ DeliveryAfter(Table(l), f) = DeliveryAfter(l, f)
           /\ UnsettledAfter(Table(l), f) = UnsettledAfter(l, f)
           /\ Identified(Table(l), f) <=> Identified(l, f)
           /\ TagFree(Table(l), f) <=> TagFree(l, f)
           /\ ~f.second => (ModesAllow(Table(l), f) <=> ModesAllow(l, f))
  <1> DEFINE a == Table(l)
  <1>1. /\ a.delivery = l.delivery /\ a.tag = l.tag /\ a.format = l.format
        /\ a.unsettled = l.unsettled /\ a.unsettledMode = l.unsettledMode
    BY TableFields
  <1> HIDE DEF a
  <1>2. Continued(a) <=> Continued(l)
    BY <1>1 DEF Continued
  <1>3. Tag(a, f) = Tag(l, f)
    BY <1>1, <1>2 DEF Tag
  <1>4. DeliveryId(a, f) = DeliveryId(l, f)
    BY <1>1 DEF DeliveryId
  <1>5. DeliveryAfter(a, f) = DeliveryAfter(l, f)
    BY <1>1, <1>2, <1>4 DEF DeliveryAfter
  <1>6. UnsettledAfter(a, f) = UnsettledAfter(l, f)
    BY <1>1, <1>3, <1>4 DEF UnsettledAfter
  <1>7. Identified(a, f) <=> Identified(l, f)
    BY <1>1, <1>2 DEF Identified
  <1>8. TagFree(a, f) <=> TagFree(l, f)
    BY <1>1, <1>4 DEF TagFree
  <1>9. MeansSettled(a, f) = MeansSettled(l, f)
    BY <1>1, <1>2 DEF MeansSettled
  <1>10. ~f.second => (ModesAllow(a, f) <=> ModesAllow(l, f))
    BY <1>1, <1>9 DEF ModesAllow
  <1> QED
    BY <1>2, <1>3, <1>4, <1>5, <1>6, <1>7, <1>8, <1>10 DEF a

\* What either end asks of a transfer that resumes nothing.
LEMMA TransferAsks ==
    ASSUME NEW p \in Peers, NEW l, LinkShape(l, p), NEW out \in BOOLEAN, NEW f, IsTransfer(f)
    PROVE  /\ ~Ignored(l, out, f)
           /\ PayloadAdmits(l, out, f)
           /\ (ModesAllow(l, f) /\ TransferAdmits(l, out, f)) <=>
                  /\ Accepts(Table(l), f)
                  /\ out /\ ~Continued(l) => HasCredit(l)
  <1>1. ~f.resume /\ ~f.second /\ ~l.remote.incomplete /\ ~l.local.incomplete
        /\ l.transactions = Unset
    BY DEF IsTransfer, LinkShape, IsEnd
  <1>2. ~ResumesUnheld(l, f)
    BY <1>1 DEF ResumesUnheld
  <1>3. ~Ignored(l, out, f)
    BY <1>2 DEF Ignored
  <1>4. PayloadAdmits(l, out, f)
    BY <1>1 DEF PayloadAdmits
  <1>5. /\ ModesAllow(Table(l), f) <=> ModesAllow(l, f)
        /\ Identified(Table(l), f) <=> Identified(l, f)
        /\ TagFree(Table(l), f) <=> TagFree(l, f)
        /\ Continued(Table(l)) <=> Continued(l)
        /\ DeliveryAfter(Table(l), f) = DeliveryAfter(l, f)
        /\ Table(l).settledMode = l.settledMode
    BY <1>1, TableReads, TableFields
  <1>6. TransferAdmits(l, out, f) <=>
            /\ Identified(l, f)
            /\ l.settledMode /\ ~f.aborted /\ ~f.more => DeliveryAfter(l, f).settled
            /\ ~Continued(l) => /\ out => HasCredit(l)
                                /\ TagFree(l, f)
    BY <1>1, <1>2 DEF TransferAdmits
  <1> QED
    BY <1>3, <1>4, <1>5, <1>6 DEF Accepts

\* A transfer moves the position, the table and the next id.
Moved(m, l, p, out, f) ==
    /\ LinkShape(m, p)
    /\ m.local = l.local /\ m.remote = l.remote
    /\ m.position = PositionAfter(l, out)
    /\ Table(m) = Transferred(Table(l), f)

\* A transfer leaves a position a position.
LEMMA PositionMoves ==
    ASSUME NEW l, l.position \in Optional(Positions), NEW out
    PROVE  /\ PositionAfter(l, out) \in Optional(Positions)
           /\ PositionAfter(l, out) = Unset <=> l.position = Unset
  BY NotUnset DEF PositionAfter, Optional, Positions, Minus

\* A transfer leaves a delivery in progress, with an id if it names one.
LEMMA DeliveryMoves ==
    ASSUME NEW l, l.delivery \in Optional(Deliveries), NEW f, IsTransfer(f),
           Continued(l) \/ f.deliveryId # Unset
    PROVE  /\ DeliveryAfter(l, f) \in Deliveries
           /\ ~Continued(l) => DeliveryId(l, f) \in Nat
  <1>1. SaysSettled(f) \in BOOLEAN
    BY DEF SaysSettled, Given, IsTransfer
  <1>2. CASE Continued(l)
    <2>1. l.delivery \in Deliveries
      BY <1>2 DEF Continued, Optional
    <2>2. (l.delivery.settled \/ SaysSettled(f)) \in BOOLEAN
      OBVIOUS
    <2>3. DeliveryAfter(l, f) = [l.delivery EXCEPT !.settled = @ \/ SaysSettled(f)]
      BY <1>2 DEF DeliveryAfter
    <2>4. DeliveryAfter(l, f) = [l.delivery EXCEPT !.settled = l.delivery.settled \/ SaysSettled(f)]
      BY <2>1, <2>3 DEF Deliveries
    <2>5. DeliveryAfter(l, f) \in Deliveries
      BY <2>1, <2>2, <2>4 DEF Deliveries
    <2> QED
      BY <1>2, <2>5
  <1>3. CASE ~Continued(l)
    <2>1. DeliveryId(l, f) \in Nat
      BY <1>3 DEF DeliveryId, IsTransfer, Optional
    <2>2. f.resume \in BOOLEAN
      BY DEF IsTransfer
    <2>3. DeliveryAfter(l, f) \in Deliveries
      BY <1>1, <1>3, <2>1, <2>2 DEF DeliveryAfter, Deliveries
    <2> QED
      BY <2>1, <2>3
  <1> QED
    BY <1>2, <1>3

\* What a transfer leaves of the link, at either end: its table moves alike
\* at both.
LEMMA TransferShape ==
    ASSUME NEW p \in Peers, NEW l, LinkShape(l, p), NEW out \in BOOLEAN, NEW f, IsTransfer(f),
           Continued(l) \/ f.deliveryId # Unset
    PROVE  Moved(LinkAfterTransfer(l, out, f), l, p, out, f)
  <1>1. /\ IsLink(l) /\ l.transactions = Unset /\ l.nextDeliveryId \in Nat
        /\ IsEnd(l.local) /\ IsEnd(l.remote)
        /\ l.position \in Optional(Positions) /\ l.delivery \in Optional(Deliveries)
        /\ l.local.life = "attached" => l.position # Unset
        /\ p = "server" /\ l.local.life # "attached" => l.position = Unset
    BY DEF LinkShape
  <1> DEFINE next == IF out /\ ~Continued(l) THEN DeliveryId(l, f) + 1 ELSE l.nextDeliveryId
             position == PositionAfter(l, out)
             unsettled == UnsettledAfter(l, f)
             delivery == DeliveryAfter(l, f)
             format == IF Continued(l) THEN l.format ELSE f.format
             moved == [l EXCEPT !.position = position, !.unsettled = unsettled,
                                !.nextDeliveryId = next]
             after == [Table(l) EXCEPT !.unsettled = unsettled]
             m == LinkAfterTransfer(l, out, f)
  <1>2. next \in Nat /\ delivery \in Deliveries
    BY <1>1, DeliveryMoves
  <1>3. position \in Optional(Positions) /\ (position = Unset <=> l.position = Unset)
    BY <1>1, PositionMoves
  <1>4. m = IF ~(f.more /\ ~f.aborted) THEN NoDelivery(moved)
            ELSE [moved EXCEPT !.delivery = delivery, !.tag = Tag(l, f),
                               !.format = IF Continued(l) THEN @ ELSE f.format]
    BY <1>1 DEF LinkAfterTransfer, IsLink
  <1>5. Transferred(Table(l), f) =
            IF ~(f.more /\ ~f.aborted) THEN NoDelivery(after)
            ELSE [after EXCEPT !.delivery = delivery, !.tag = Tag(l, f),
                               !.format = IF Continued(l) THEN @ ELSE f.format]
    BY TableReads DEF Transferred
  <1> HIDE DEF m, position, unsettled, next, delivery
  <1>11. moved = [l EXCEPT !.position = position, !.unsettled = unsettled,
                          !.nextDeliveryId = next]
    OBVIOUS
  <1>12. after = [Table(l) EXCEPT !.unsettled = unsettled]
    OBVIOUS
  <1> HIDE DEF moved, after
  <1>6. /\ IsLink(moved) /\ moved.local = l.local /\ moved.remote = l.remote
        /\ moved.position = position /\ moved.transactions = Unset /\ moved.nextDeliveryId = next
        /\ moved.format = l.format
    BY <1>11, <1>1 DEF IsLink
  <1>7. Table(moved) = after
    BY <1>11, <1>12, <1>1 DEF IsLink, Table
  <1>8. /\ IsLink(m) /\ m.local = l.local /\ m.remote = l.remote /\ m.position = position
        /\ m.transactions = Unset /\ m.nextDeliveryId = next
        /\ m.delivery \in Optional(Deliveries)
        /\ Table(m) = Transferred(Table(l), f)
    <2>1. CASE ~(f.more /\ ~f.aborted)
      <3>1. m = NoDelivery(moved) /\ Transferred(Table(l), f) = NoDelivery(after)
        BY <1>4, <1>5, <2>1
      <3>2. KeepsRest(m, moved) /\ m.delivery = Unset /\ Table(m) = NoDelivery(Table(moved))
        BY <1>6, <3>1, NoDeliveryKeeps
      <3> QED
        BY <1>6, <1>7, <3>1, <3>2 DEF KeepsRest, Optional
    <2>2. CASE f.more /\ ~f.aborted
      <3>1. m = [moved EXCEPT !.delivery = delivery, !.tag = Tag(l, f),
                              !.format = IF Continued(l) THEN @ ELSE f.format]
        BY <1>4, <2>2
      <3>2. m = [moved EXCEPT !.delivery = delivery, !.tag = Tag(l, f), !.format = format]
        BY <1>6, <3>1 DEF IsLink
      <3>3. after.format = l.format
        BY <1>12 DEF Table
      <3>4. Transferred(Table(l), f) =
                [after EXCEPT !.delivery = delivery, !.tag = Tag(l, f),
                              !.format = IF Continued(l) THEN @ ELSE f.format]
        BY <1>5, <2>2
      <3>5. Transferred(Table(l), f) =
                [after EXCEPT !.delivery = delivery, !.tag = Tag(l, f), !.format = format]
        BY <1>12, <3>3, <3>4 DEF Table
      <3> HIDE DEF format
      <3>6. /\ IsLink(m) /\ m.local = l.local /\ m.remote = l.remote /\ m.position = position
            /\ m.transactions = Unset /\ m.nextDeliveryId = next /\ m.delivery = delivery
        BY <1>6, <3>2 DEF IsLink
      <3>7. Table(m) = [Table(moved) EXCEPT !.delivery = delivery, !.tag = Tag(l, f),
                                            !.format = format]
        <4> DEFINE t == Table(moved)
        <4>1. /\ t.unsettled = moved.unsettled /\ t.settledMode = moved.settledMode
              /\ t.unsettledMode = moved.unsettledMode
              /\ t = [delivery |-> t.delivery, tag |-> t.tag, format |-> t.format,
                      unsettled |-> t.unsettled, settledMode |-> t.settledMode,
                      unsettledMode |-> t.unsettledMode]
          BY DEF Table
        <4> HIDE DEF t
        <4>2. /\ m.delivery = delivery /\ m.tag = Tag(l, f) /\ m.format = format
              /\ m.unsettled = moved.unsettled /\ m.settledMode = moved.settledMode
              /\ m.unsettledMode = moved.unsettledMode
          BY <1>6, <3>2 DEF IsLink
        <4>3. Table(m) = [delivery |-> delivery, tag |-> Tag(l, f), format |-> format,
                          unsettled |-> moved.unsettled, settledMode |-> moved.settledMode,
                          unsettledMode |-> moved.unsettledMode]
          BY <4>2 DEF Table
        <4> DEFINE s == [t EXCEPT !.delivery = delivery, !.tag = Tag(l, f), !.format = format]
        <4>4. s = [t EXCEPT !.delivery = delivery, !.tag = Tag(l, f), !.format = format]
          OBVIOUS
        <4> HIDE DEF s
        <4>5. s = [delivery |-> delivery, tag |-> Tag(l, f), format |-> format,
                   unsettled |-> t.unsettled, settledMode |-> t.settledMode,
                   unsettledMode |-> t.unsettledMode]
          BY <4>1, <4>4, TableExcept
        <4> QED
          BY <4>1, <4>3, <4>5 DEF t, s
      <3> QED
        BY <1>2, <1>7, <3>5, <3>6, <3>7 DEF Optional
    <2> QED
      BY <2>1, <2>2
  <1>9. LinkShape(m, p)
    BY <1>1, <1>2, <1>3, <1>8 DEF LinkShape
  <1> QED
    BY <1>8, <1>9 DEF Moved, m, position

-----------------------------------------------------------------------------
(* The session, after each frame. *)

\* Who says a frame that p sends, or is sent.
Speaker(p, out) == IF out THEN p ELSE Other(p)

\* A handle is bound to the one link, or free.
LEMMA Binding ==
    ASSUME NEW handles, NEW h, NEW bound \in BOOLEAN, NEW id, Binds(handles, h, bound, id)
    PROVE  /\ Binds(Associate(handles, h, id), h, TRUE, id)
           /\ Binds(Release(handles, id), h, FALSE, id)
           /\ h \in DOMAIN handles => handles[h] = id
  <1>1. {g \in DOMAIN handles : handles[g] # id} = {}
    BY DEF Binds
  <1>2. Binds(Associate(handles, h, id), h, TRUE, id)
    BY <1>1 DEF Binds, Associate
  <1>3. Binds(Release(handles, id), h, FALSE, id)
    BY <1>1 DEF Binds, Release
  <1> QED
    BY <1>2, <1>3 DEF Binds

\* An attach from either end is of the one link.
LEMMA Naming ==
    ASSUME NEW p \in Peers, NEW out \in BOOLEAN, NEW f, IsAttach(f, Speaker(p, out))
    PROVE  AttachId(out, f) = Id(p)
  BY Sides DEF AttachId, Id, IsAttach, Speaker

\* Who has attached and detached, and to whom.
AttachEnds(m, l, p, out, f) ==
    IF out THEN AttachSent(m, l, p, f) ELSE AttachHeard(m, l, p, f)

\* What an attach does to a session; and so of the other frames.
AttachMoves(x, y, p, out, f) ==
    /\ SessionShape(y, p) /\ SameStage(x, y) /\ y.windows = x.windows
    /\ AttachEnds(LinkIn(y, p), LinkIn(x, p), p, out, f)

\* The session after an attach.
LEMMA SessionAttaches ==
    ASSUME NEW p \in Peers, NEW x, SessionShape(x, p), NEW out \in BOOLEAN,
           NEW f, IsAttach(f, Speaker(p, out)), NEW y, y = AfterAttach(x, out, f)
    PROVE  AttachMoves(x, y, p, out, f)
  <1> DEFINE base == LinkIn(x, p)
             l == IF out THEN AfterSentAttach(base, f) ELSE AfterReceivedAttach(base, f)
             handles == Associate(Handles(x, out), f.handle, Id(p))
             z == WithHandles(x, out, handles)
  <1>1. LinkShape(base, p) /\ IsSession(x)
    BY DEF SessionShape
  <1>2. AttachEnds(l, base, p, out, f)
    BY <1>1, SentAttachShape, ReceivedAttachShape DEF AttachEnds, Speaker
  <1>3. LinkShape(l, p)
    BY <1>2 DEF AttachEnds, AttachSent, AttachHeard
  <1>4. y = PutLink(z, Id(p), l)
    <2>1. f.coordinator = Unset
      BY DEF IsAttach
    <2>2. WithControlLink(l, out, f) = l
      BY <2>1 DEF WithControlLink
    <2> HIDE DEF z
    <2> QED
      BY <2>2, Naming DEF AfterAttach, LinkIn, z
  <1>5. Binds(handles, f.handle, TRUE, Id(p))
    BY Binding DEF SessionShape, Handles, IsAttach, Speaker, Up, Seen
  <1> HIDE DEF l, handles
  <1>6. /\ IsSession(z) /\ SameStage(x, z) /\ z.windows = x.windows /\ z.links = x.links
        /\ z.handleMax = x.handleMax /\ z.peerHandleMax = x.peerHandleMax
        /\ z.localHandles = IF out THEN handles ELSE x.localHandles
        /\ z.remoteHandles = IF out THEN x.remoteHandles ELSE handles
    BY <1>1 DEF WithHandles, IsSession, SameStage
  <1> HIDE DEF z
  <1>7. /\ IsSession(y) /\ SameStage(x, y) /\ y.windows = x.windows
        /\ y.links = [k \in DOMAIN x.links \cup {Id(p)} |-> IF k = Id(p) THEN l ELSE x.links[k]]
        /\ y.handleMax = x.handleMax /\ y.peerHandleMax = x.peerHandleMax
        /\ y.localHandles = z.localHandles /\ y.remoteHandles = z.remoteHandles
    BY <1>4, <1>6 DEF PutLink, IsSession, SameStage
  <1>8. /\ Binds(y.localHandles, Handle(p), l.local.life = "attached", Id(p))
        /\ Binds(y.remoteHandles, Handle(Other(p)), l.remote.life = "attached", Id(p))
    <2>1. CASE out
      <3>1. l.local.life = "attached" /\ l.remote = base.remote /\ f.handle = Handle(p)
        BY <1>2, <2>1 DEF AttachEnds, AttachSent, IsAttach, Speaker
      <3> QED
        BY <1>5, <1>6, <1>7, <2>1, <3>1 DEF SessionShape, Seen
    <2>2. CASE ~out
      <3>1. l.remote.life = "attached" /\ l.local = base.local /\ f.handle = Handle(Other(p))
        BY <1>2, <2>2 DEF AttachEnds, AttachHeard, IsAttach, Speaker
      <3> QED
        BY <1>5, <1>6, <1>7, <2>2, <3>1 DEF SessionShape, Up
    <2> QED
      BY <2>1, <2>2
  <1>9. SessionShape(y, p) /\ LinkIn(y, p) = l
    <2>1. /\ x.handleMax = DefaultHandleMax /\ x.peerHandleMax = DefaultHandleMax
          /\ x.windows \in Windows
      BY DEF SessionShape
    <2> QED
      BY <1>3, <1>7, <1>8, <2>1, Rebuilt
  <1> QED
    BY <1>2, <1>7, <1>9 DEF AttachMoves

\* A detach of the handle the link is bound to.
DetachMoves(x, y, p, out, f) ==
    /\ SessionShape(y, p) /\ SameStage(x, y) /\ y.windows = x.windows
    /\ Detached(LinkIn(y, p), LinkIn(x, p), p, out, f)

\* The session after a detach.
LEMMA SessionDetaches ==
    ASSUME NEW p \in Peers, NEW x, SessionShape(x, p), NEW out \in BOOLEAN,
           IF out THEN Up(x, p) ELSE Seen(x, p),
           NEW f, IsDetach(f, Speaker(p, out)), NEW y, y = AfterDetach(x, out, f)
    PROVE  DetachMoves(x, y, p, out, f)
  <1> DEFINE base == LinkIn(x, p)
             l == AfterDetachOf(base, out, f)
             handles == Release(Handles(x, out), Id(p))
             z == WithHandles(x, out, handles)
  <1>1. LinkShape(base, p) /\ IsSession(x)
    BY DEF SessionShape
  <1>2. Detached(l, base, p, out, f)
    BY <1>1, DetachShape DEF IsDetach
  <1>3. LinkShape(l, p)
    BY <1>2 DEF Detached
  <1>4. y = PutLink(z, Id(p), l)
    <2>1. /\ Resolves(x, out, f.handle) /\ IdOf(x, out, f.handle) = Id(p)
          /\ x.links[Id(p)] = base
      BY Resolving DEF IsDetach, Speaker
    <2> HIDE DEF z
    <2> QED
      BY <2>1 DEF AfterDetach, z
  <1>5. Binds(handles, f.handle, FALSE, Id(p))
    BY Binding DEF SessionShape, Handles, IsDetach, Speaker, Up, Seen
  <1> HIDE DEF l, handles
  <1>6. /\ IsSession(z) /\ SameStage(x, z) /\ z.windows = x.windows /\ z.links = x.links
        /\ z.handleMax = x.handleMax /\ z.peerHandleMax = x.peerHandleMax
        /\ z.localHandles = IF out THEN handles ELSE x.localHandles
        /\ z.remoteHandles = IF out THEN x.remoteHandles ELSE handles
    BY <1>1 DEF WithHandles, IsSession, SameStage
  <1> HIDE DEF z
  <1>7. /\ IsSession(y) /\ SameStage(x, y) /\ y.windows = x.windows
        /\ y.links = [k \in DOMAIN x.links \cup {Id(p)} |-> IF k = Id(p) THEN l ELSE x.links[k]]
        /\ y.handleMax = x.handleMax /\ y.peerHandleMax = x.peerHandleMax
        /\ y.localHandles = z.localHandles /\ y.remoteHandles = z.remoteHandles
    BY <1>4, <1>6 DEF PutLink, IsSession, SameStage
  <1>8. /\ Binds(y.localHandles, Handle(p), l.local.life = "attached", Id(p))
        /\ Binds(y.remoteHandles, Handle(Other(p)), l.remote.life = "attached", Id(p))
    <2>1. CASE out
      <3>1. l.local.life = "detached" /\ l.remote = base.remote /\ f.handle = Handle(p)
        BY <1>2, <2>1 DEF Detached, IsDetach, Speaker
      <3> QED
        BY <1>5, <1>6, <1>7, <2>1, <3>1 DEF SessionShape, Seen
    <2>2. CASE ~out
      <3>1. l.remote.life = "detached" /\ l.local = base.local /\ f.handle = Handle(Other(p))
        BY <1>2, <2>2 DEF Detached, IsDetach, Speaker
      <3> QED
        BY <1>5, <1>6, <1>7, <2>2, <3>1 DEF SessionShape, Up
    <2> QED
      BY <2>1, <2>2
  <1>9. SessionShape(y, p) /\ LinkIn(y, p) = l
    <2>1. /\ x.handleMax = DefaultHandleMax /\ x.peerHandleMax = DefaultHandleMax
          /\ x.windows \in Windows
      BY DEF SessionShape
    <2> QED
      BY <1>3, <1>7, <1>8, <2>1, Rebuilt
  <1> QED
    BY <1>2, <1>7, <1>9 DEF DetachMoves

\* The windows stay numbers.
LEMMA WindowsTyped ==
    ASSUME NEW w \in Windows, NEW f
    PROVE  /\ AfterSendingTransfer(w) \in Windows /\ AfterReceivingTransfer(w) \in Windows
           /\ {f.nextOutgoing, f.incoming, f.outgoing} \subseteq Nat =>
                  /\ AfterSendingBegin(w, f) \in Windows
                  /\ AfterReceivingBegin(w, f) \in Windows
                  /\ f.nextIncoming \in Nat => AfterReceivingFlow(w, f) \in Windows
  <1>1. \A n \in Nat : n % SerialModulus \in Nat
    BY SessionAssumption
  <1>2. \A from, window \in Nat : RemoteIncoming(w, from, window) \in Nat
    BY <1>1 DEF RemoteIncoming, Minus, Windows
  <1>3. (w.nextOutgoing + 1) % SerialModulus \in Nat /\ (w.nextIncoming + 1) % SerialModulus \in Nat
    BY <1>1 DEF Windows
  <1>4. \A n \in Nat : Minus(n, 1) \in Nat
    BY DEF Minus
  <1>5. AfterSendingTransfer(w) \in Windows /\ AfterReceivingTransfer(w) \in Windows
    BY <1>3, <1>4 DEF AfterSendingTransfer, AfterReceivingTransfer, Windows
  <1>6. ASSUME {f.nextOutgoing, f.incoming, f.outgoing} \subseteq Nat
        PROVE  /\ AfterSendingBegin(w, f) \in Windows
               /\ AfterReceivingBegin(w, f) \in Windows
               /\ f.nextIncoming \in Nat => AfterReceivingFlow(w, f) \in Windows
    BY <1>1, <1>2, <1>6
    DEF AfterSendingBegin, AfterReceivingBegin, AfterReceivingFlow, Windows, Given
  <1> QED
    BY <1>5, <1>6

\* A session whose link and windows move.
Reset(x, p, l, w) == [PutLink(x, Id(p), l) EXCEPT !.windows = w]

\* The session, when its link and its windows are others.
LEMMA Put ==
    ASSUME NEW p \in Peers, NEW x, SessionShape(x, p),
           NEW l, LinkShape(l, p), l.local = LinkIn(x, p).local, l.remote = LinkIn(x, p).remote,
           NEW w \in Windows, NEW y, y = Reset(x, p, l, w)
    PROVE  SessionShape(y, p) /\ SameStage(x, y) /\ y.windows = w /\ LinkIn(y, p) = l
  <1>1. /\ IsSession(x)
        /\ x.handleMax = DefaultHandleMax /\ x.peerHandleMax = DefaultHandleMax
    BY DEF SessionShape
  <1> DEFINE z == PutLink(x, Id(p), l)
  <1>2. /\ IsSession(z) /\ SameStage(x, z) /\ z.windows = x.windows
        /\ z.links = [k \in DOMAIN x.links \cup {Id(p)} |-> IF k = Id(p) THEN l ELSE x.links[k]]
        /\ z.handleMax = x.handleMax /\ z.peerHandleMax = x.peerHandleMax
        /\ z.localHandles = x.localHandles /\ z.remoteHandles = x.remoteHandles
    BY <1>1 DEF PutLink, IsSession, SameStage
  <1> HIDE DEF z
  <1>3. /\ IsSession(y) /\ SameStage(x, y) /\ y.windows = w
        /\ y.links = z.links
        /\ y.handleMax = x.handleMax /\ y.peerHandleMax = x.peerHandleMax
        /\ y.localHandles = x.localHandles /\ y.remoteHandles = x.remoteHandles
    BY <1>2 DEF z, Reset, IsSession, SameStage
  <1>4. /\ Binds(y.localHandles, Handle(p), l.local.life = "attached", Id(p))
        /\ Binds(y.remoteHandles, Handle(Other(p)), l.remote.life = "attached", Id(p))
    BY <1>3 DEF SessionShape, Up, Seen
  <1>5. y.links = [k \in DOMAIN x.links \cup {Id(p)} |-> IF k = Id(p) THEN l ELSE x.links[k]]
    BY <1>2, <1>3
  <1>6. DOMAIN y.links = {Id(p)} /\ y.links[Id(p)] = l
    BY <1>5 DEF SessionShape
  <1>7. LinkIn(y, p) = l
    BY <1>6 DEF LinkIn, LinkOrBlank
  <1>8. SessionShape(y, p)
    BY <1>1, <1>3, <1>4, <1>6, <1>7 DEF SessionShape, Up, Seen
  <1> QED
    BY <1>3, <1>7, <1>8

\* What a flow of the partner's does to the link.
FlowEnds(m, l, p, f) ==
    IF f.handle = Unset THEN m = l ELSE FlowHeard(m, l, p, f)

\* What a flow of the pair carries.
IsFlow(f, q) ==
    /\ {f.nextIncoming, f.nextOutgoing, f.incoming, f.outgoing} \subseteq Nat
    /\ ~f.linkFields
    /\ IF f.handle = Unset THEN f.count = Unset /\ f.credit = Unset ELSE IsLinkFlow(f, q)

FlowMoves(x, y, p, f) ==
    /\ SessionShape(y, p) /\ SameStage(x, y)
    /\ y.windows = AfterReceivingFlow(x.windows, f)
    /\ FlowEnds(LinkIn(y, p), LinkIn(x, p), p, f)

\* The session after a flow it hears.
LEMMA SessionFlows ==
    ASSUME NEW p \in Peers, NEW x, SessionShape(x, p), NEW f,
           IsFlow(f, Other(p)), f.handle # Unset => Seen(x, p),
           NEW y, y = AfterFlow(x, FALSE, f)
    PROVE  FlowMoves(x, y, p, f)
  <1>1. /\ IsSession(x) /\ x.windows \in Windows /\ LinkShape(LinkIn(x, p), p)
        /\ x.handleMax = DefaultHandleMax /\ x.peerHandleMax = DefaultHandleMax
    BY DEF SessionShape
  <1>2. PICK w \in Windows : w = AfterReceivingFlow(x.windows, f)
    BY <1>1, WindowsTyped DEF IsFlow
  <1>3. CASE f.handle = Unset
    <2>1. y = [x EXCEPT !.windows = w]
      BY <1>1, <1>2, <1>3 DEF AfterFlow, IsSession
    <2>2. /\ IsSession(y) /\ SameStage(x, y) /\ y.windows = w /\ y.links = x.links
          /\ y.handleMax = x.handleMax /\ y.peerHandleMax = x.peerHandleMax
          /\ y.localHandles = x.localHandles /\ y.remoteHandles = x.remoteHandles
      BY <1>1, <2>1 DEF IsSession, SameStage
    <2>3. SessionShape(y, p) /\ LinkIn(y, p) = LinkIn(x, p)
      BY <1>1, <1>2, <2>2, Restaged
    <2> QED
      BY <1>2, <1>3, <2>2, <2>3 DEF FlowEnds, FlowMoves
  <1>4. CASE f.handle # Unset
    <2>0. PICK l : l = LinkAfterFlow(Id(p), LinkIn(x, p), f)
      OBVIOUS
    <2>1. FlowHeard(l, LinkIn(x, p), p, f)
      BY <1>1, <1>4, <2>0, FlowShape DEF IsFlow
    <2>2. LinkShape(l, p) /\ l.local = LinkIn(x, p).local /\ l.remote = LinkIn(x, p).remote
      BY <2>1 DEF FlowHeard
    <2>3. /\ IdOf(x, FALSE, f.handle) = Id(p) /\ x.links[Id(p)] = LinkIn(x, p)
      BY <1>4, Resolving DEF IsLinkFlow, IsFlow
    <2> DEFINE z == PutLink(x, Id(p), l)
    <2>4. y = [z EXCEPT !.windows = AfterReceivingFlow(@, f)]
      BY <1>4, <2>0, <2>3 DEF AfterFlow
    <2>5. y = [z EXCEPT !.windows = w]
      BY <1>1, <1>2, <2>4 DEF PutLink, IsSession
    <2>6. y = Reset(x, p, l, w)
      BY <2>5 DEF Reset
    <2> HIDE DEF z
    <2> DEFINE r == Reset(x, p, l, w)
    <2>7. r = Reset(x, p, l, w)
      OBVIOUS
    <2> HIDE DEF r
    <2>8. SessionShape(r, p) /\ SameStage(x, r) /\ r.windows = w /\ LinkIn(r, p) = l
      BY <1>2, <2>2, <2>7, Put
    <2>9. y = r
      BY <2>6, <2>7
    <2> QED
      BY <1>2, <1>4, <2>1, <2>8, <2>9 DEF FlowEnds, FlowMoves
  <1> QED
    BY <1>3, <1>4

\* A transfer over the link.
TransferMoves(x, y, p, out, f) ==
    /\ SessionShape(y, p) /\ SameStage(x, y)
    /\ out => y.windows = AfterSendingTransfer(x.windows)
    /\ ~out => y.windows = AfterReceivingTransfer(x.windows)
    /\ Moved(LinkIn(y, p), LinkIn(x, p), p, out, f)

\* The session after a transfer.
LEMMA SessionTransfers ==
    ASSUME NEW p \in Peers, NEW x, SessionShape(x, p), NEW out \in BOOLEAN,
           Speaker(p, out) = "client", IF out THEN Up(x, p) ELSE Seen(x, p),
           NEW f, IsTransfer(f), Continued(LinkIn(x, p)) \/ f.deliveryId # Unset,
           NEW y, y = AfterTransfer(x, out, f)
    PROVE  TransferMoves(x, y, p, out, f)
  <1>1. /\ IsSession(x) /\ x.windows \in Windows /\ LinkShape(LinkIn(x, p), p)
        /\ x.handleMax = DefaultHandleMax /\ x.peerHandleMax = DefaultHandleMax
    BY DEF SessionShape
  <1> DEFINE w == IF out THEN AfterSendingTransfer(x.windows)
                         ELSE AfterReceivingTransfer(x.windows)
             l == LinkAfterTransfer(LinkIn(x, p), out, f)
  <1>2. w \in Windows
    BY <1>1, WindowsTyped
  <1>3. Moved(l, LinkIn(x, p), p, out, f)
    BY <1>1, TransferShape
  <1>4. LinkShape(l, p) /\ l.local = LinkIn(x, p).local /\ l.remote = LinkIn(x, p).remote
    BY <1>3 DEF Moved
  <1>5. f.handle = Handle(Speaker(p, out))
    BY DEF IsTransfer
  <1>6. IdOf(x, out, f.handle) = Id(p) /\ x.links[Id(p)] = LinkIn(x, p)
    BY <1>5, Resolving DEF Speaker
  <1> DEFINE z == PutLink(x, Id(p), l)
  <1>7. y = [z EXCEPT !.windows = IF out THEN AfterSendingTransfer(@) ELSE AfterReceivingTransfer(@)]
    <2>1. WithTransaction(l, out, f.value) = l
      BY <1>4 DEF WithTransaction, LinkShape
    <2>2. ~Ignored(LinkIn(x, p), out, f)
      BY <1>1, TransferAsks
    <2> HIDE DEF l
    <2> QED
      BY <1>6, <2>1, <2>2 DEF AfterTransfer, l
  <1> HIDE DEF l, w
  <1>8. /\ IsSession(z) /\ SameStage(x, z) /\ z.windows = x.windows
        /\ z.links = [k \in DOMAIN x.links \cup {Id(p)} |-> IF k = Id(p) THEN l ELSE x.links[k]]
        /\ z.handleMax = x.handleMax /\ z.peerHandleMax = x.peerHandleMax
        /\ z.localHandles = x.localHandles /\ z.remoteHandles = x.remoteHandles
    BY <1>1 DEF PutLink, IsSession, SameStage
  <1> HIDE DEF z
  <1>9. y = [z EXCEPT !.windows = w]
    BY <1>7, <1>8 DEF w, IsSession
  <1>10. /\ IsSession(y) /\ SameStage(x, y) /\ y.windows = w
         /\ y.links = z.links
         /\ y.handleMax = x.handleMax /\ y.peerHandleMax = x.peerHandleMax
         /\ y.localHandles = x.localHandles /\ y.remoteHandles = x.remoteHandles
    BY <1>8, <1>9 DEF IsSession, SameStage
  <1>11. /\ Binds(y.localHandles, Handle(p), l.local.life = "attached", Id(p))
         /\ Binds(y.remoteHandles, Handle(Other(p)), l.remote.life = "attached", Id(p))
    BY <1>4, <1>10 DEF SessionShape, Up, Seen
  <1>12. SessionShape(y, p) /\ LinkIn(y, p) = l
    BY <1>1, <1>2, <1>4, <1>8, <1>10, <1>11, Rebuilt
  <1> QED
    BY <1>3, <1>10, <1>12 DEF w, TransferMoves

\* What a begin of the pair carries.
IsBegin(f) == /\ f.nextOutgoing = FirstId /\ f.incoming = Window /\ f.outgoing = 2 * Window
              /\ f.handleMax = Unset

BeginMoves(x, y, p, out, f) ==
    /\ SessionShape(y, p) /\ LinkIn(y, p) = LinkIn(x, p)
    /\ out => /\ y.windows = AfterSendingBegin(x.windows, f)
              /\ y.outgoing = f.channel /\ y.incoming = x.incoming
              /\ y.peerBegun = x.peerBegun
    /\ ~out => /\ y.windows = AfterReceivingBegin(x.windows, f)
               /\ y.outgoing = x.outgoing /\ y.incoming = f.channel
               /\ y.peerBegun = TRUE
    /\ x.state # "UNMAPPED" => y.state = "MAPPED"
    /\ x.state = "UNMAPPED" /\ out => y.state = "BEGIN_SENT"
    /\ x.state = "UNMAPPED" /\ ~out => y.state = "BEGIN_RCVD"

\* The session after a begin.
LEMMA SessionBegins ==
    ASSUME NEW p \in Peers, NEW x, SessionShape(x, p), NEW out \in BOOLEAN,
           NEW f, IsBegin(f), NEW y, y = AfterBegin(x, out, f)
    PROVE  BeginMoves(x, y, p, out, f)
  <1>1. /\ IsSession(x) /\ x.windows \in Windows
        /\ x.handleMax = DefaultHandleMax /\ x.peerHandleMax = DefaultHandleMax
    BY DEF SessionShape
  <1>2. {f.nextOutgoing, f.incoming, f.outgoing} \subseteq Nat
    BY PairAssumption DEF IsBegin
  <1>3. Given(f.handleMax, DefaultHandleMax) = DefaultHandleMax
    BY DEF Given, IsBegin
  <1>4. CASE out
    <2> DEFINE w == AfterSendingBegin(x.windows, f)
    <2>1. w \in Windows
      BY <1>1, <1>2, WindowsTyped
    <2>2. y = [x EXCEPT !.state = IF @ = "UNMAPPED" THEN "BEGIN_SENT" ELSE "MAPPED",
                        !.outgoing = f.channel, !.windows = w, !.handleMax = DefaultHandleMax]
      BY <1>1, <1>3, <1>4 DEF AfterBegin, IsSession
    <2> HIDE DEF w
    <2>3. /\ IsSession(y) /\ y.windows = w /\ y.links = x.links
          /\ y.handleMax = DefaultHandleMax /\ y.peerHandleMax = x.peerHandleMax
          /\ y.localHandles = x.localHandles /\ y.remoteHandles = x.remoteHandles
          /\ y.outgoing = f.channel /\ y.incoming = x.incoming /\ y.peerBegun = x.peerBegun
          /\ y.state = IF x.state = "UNMAPPED" THEN "BEGIN_SENT" ELSE "MAPPED"
      BY <1>1, <2>2 DEF IsSession
    <2>4. SessionShape(y, p) /\ LinkIn(y, p) = LinkIn(x, p)
      BY <1>1, <2>1, <2>3, Restaged
    <2> QED
      BY <1>4, <2>3, <2>4 DEF w, BeginMoves
  <1>5. CASE ~out
    <2> DEFINE w == AfterReceivingBegin(x.windows, f)
    <2>1. w \in Windows
      BY <1>1, <1>2, WindowsTyped
    <2>2. y = [x EXCEPT !.state = IF @ = "UNMAPPED" THEN "BEGIN_RCVD" ELSE "MAPPED",
                        !.incoming = f.channel, !.peerBegun = TRUE, !.windows = w,
                        !.peerHandleMax = DefaultHandleMax]
      BY <1>1, <1>3, <1>5 DEF AfterBegin, IsSession
    <2> HIDE DEF w
    <2>3. /\ IsSession(y) /\ y.windows = w /\ y.links = x.links
          /\ y.handleMax = x.handleMax /\ y.peerHandleMax = DefaultHandleMax
          /\ y.localHandles = x.localHandles /\ y.remoteHandles = x.remoteHandles
          /\ y.outgoing = x.outgoing /\ y.incoming = f.channel /\ y.peerBegun = TRUE
          /\ y.state = IF x.state = "UNMAPPED" THEN "BEGIN_RCVD" ELSE "MAPPED"
      BY <1>1, <2>2 DEF IsSession
    <2>4. SessionShape(y, p) /\ LinkIn(y, p) = LinkIn(x, p)
      BY <1>1, <2>1, <2>3, Restaged
    <2> QED
      BY <1>5, <2>3, <2>4 DEF w, BeginMoves
  <1> QED
    BY <1>4, <1>5

\* An end releases the channels.
EndMoves(x, y, p, out, f) ==
    /\ SessionShape(y, p) /\ LinkIn(y, p) = LinkIn(x, p) /\ y.windows = x.windows
    /\ x.state # "MAPPED" => /\ y.state = "UNMAPPED" /\ y.outgoing = Unset
                             /\ y.incoming = Unset /\ ~y.peerBegun
    /\ x.state = "MAPPED" /\ out =>
           /\ f.error => y.state = "DISCARDING"
           /\ ~f.error => y.state = "END_SENT"
           /\ y.outgoing = Unset /\ y.incoming = x.incoming /\ y.peerBegun = x.peerBegun
    /\ x.state = "MAPPED" /\ ~out =>
           /\ y.state = "END_RCVD" /\ y.incoming = Unset
           /\ y.outgoing = x.outgoing /\ y.peerBegun

\* The session after an end.
LEMMA SessionEnds ==
    ASSUME NEW p \in Peers, NEW x, SessionShape(x, p), NEW out \in BOOLEAN,
           NEW f, NEW y, y = AfterEnd(x, out, f),
           IF out THEN x.state \in {"MAPPED", "END_RCVD"} ELSE x.state \in {"MAPPED", "END_SENT"}
    PROVE  EndMoves(x, y, p, out, f)
  <1>1. /\ IsSession(x) /\ x.windows \in Windows
        /\ x.handleMax = DefaultHandleMax /\ x.peerHandleMax = DefaultHandleMax
    BY DEF SessionShape
  <1>2. /\ IsSession(y) /\ y.windows = x.windows /\ y.links = x.links
        /\ y.handleMax = x.handleMax /\ y.peerHandleMax = x.peerHandleMax
        /\ y.localHandles = x.localHandles /\ y.remoteHandles = x.remoteHandles
    BY <1>1 DEF AfterEnd, Unmapped, IsSession
  <1>3. SessionShape(y, p) /\ LinkIn(y, p) = LinkIn(x, p)
    BY <1>1, <1>2, Restaged
  <1>4. /\ x.state # "MAPPED" => /\ y.state = "UNMAPPED" /\ y.outgoing = Unset
                                 /\ y.incoming = Unset /\ y.peerBegun = FALSE
        /\ x.state = "MAPPED" /\ out =>
                  /\ y.state = IF f.error THEN "DISCARDING" ELSE "END_SENT"
                  /\ y.outgoing = Unset /\ y.incoming = x.incoming /\ y.peerBegun = x.peerBegun
        /\ x.state = "MAPPED" /\ ~out =>
                  /\ y.state = "END_RCVD" /\ y.incoming = Unset
                  /\ y.outgoing = x.outgoing /\ y.peerBegun = TRUE
    BY <1>1 DEF AfterEnd, Unmapped, IsSession
  <1> QED
    BY <1>2, <1>3, <1>4 DEF EndMoves

-----------------------------------------------------------------------------
(* The session's step, a frame at a time. *)

\* A frame that is sent, and one that is heard and taken.
Sends(x, f, y) == SessionStep(x, TRUE, f).ok /\ y = SessionStep(x, TRUE, f).session
Hears(x, f, y) == SessionStep(x, FALSE, f) = Admitted(y)

\* What a frame had to pass to be sent, and what it made of the session.
LEMMA StepSends ==
    ASSUME NEW x, NEW f, NEW y, Sends(x, f, y)
    PROVE  /\ f.complete
           /\ f.body # "begin" => x.outgoing = f.channel /\ x.state \in MaySend
           /\ f.body = "begin" => BeginAdmits(x, TRUE, f) /\ y = AfterBegin(x, TRUE, f)
           /\ f.body = "end" => y = AfterEnd(x, TRUE, f)
           /\ f.body = "attach" => HandleFree(x, TRUE, f) /\ y = AfterAttach(x, TRUE, f)
           /\ f.body = "detach" => y = AfterDetach(x, TRUE, f)
           /\ f.body = "flow" => y = x
           /\ f.body = "transfer" => TransferTaken(x, TRUE, f) /\ y = AfterTransfer(x, TRUE, f)
  <1> DEFINE r == SessionStep(x, TRUE, f)
  <1>1. /\ \A s : ~Declined(s).ok /\ ~Placed(s, TRUE).ok /\ ~Closing(s).ok
        /\ \A s : Admitted(s).session = s
    BY DEF Declined, Placed, Closing, Admitted
  <1>2. ~FrameDiscarded(x, TRUE, f)
    BY DEF FrameDiscarded
  <1>3. OnChannel(x, TRUE, f) /\ Permitted(x, TRUE, f) /\ f.complete
    BY <1>1, <1>2 DEF SessionStep, Sends
  <1>4. f.body # "begin" => x.outgoing = f.channel /\ x.state \in MaySend
    BY <1>3 DEF OnChannel, Permitted
  <1>5. f.body = "begin" => r = BeginStep(x, TRUE, f)
    BY <1>2, <1>3 DEF SessionStep
  <1>6. f.body = "end" => r = Admitted(AfterEnd(x, TRUE, f))
    BY <1>2, <1>3 DEF SessionStep
  <1>7. f.body = "attach" => r = AttachStep(x, TRUE, f)
    BY <1>2, <1>3 DEF SessionStep
  <1>8. f.body = "detach" => r = Admitted(AfterDetach(x, TRUE, f))
    BY <1>2, <1>3 DEF SessionStep
  <1>9. f.body = "flow" => r = Judged(x, TRUE, FlowAdmits(x, TRUE, f), AfterFlow(x, TRUE, f))
    BY <1>2, <1>3 DEF SessionStep
  <1>10. f.body = "transfer" =>
             r = Judged(x, TRUE, TransferTaken(x, TRUE, f), AfterTransfer(x, TRUE, f))
    BY <1>2, <1>3 DEF SessionStep
  <1>11. r.ok /\ y = r.session
    BY DEF Sends
  <1> HIDE DEF r
  <1>12. f.body = "begin" => BeginAdmits(x, TRUE, f) /\ r.session = AfterBegin(x, TRUE, f)
    BY <1>1, <1>5, <1>11 DEF BeginStep
  <1>13. f.body = "attach" => HandleFree(x, TRUE, f) /\ r.session = AfterAttach(x, TRUE, f)
    BY <1>1, <1>7, <1>11 DEF AttachStep
  <1>14. f.body = "flow" => r.session = x
    <2>1. AfterFlow(x, TRUE, f) = x
      BY DEF AfterFlow
    <2> QED
      BY <1>1, <1>9, <1>11, <2>1 DEF Judged
  <1>15. f.body = "transfer" =>
             TransferTaken(x, TRUE, f) /\ r.session = AfterTransfer(x, TRUE, f)
    BY <1>1, <1>10, <1>11 DEF Judged
  <1>16. /\ f.body = "end" => r.session = AfterEnd(x, TRUE, f)
         /\ f.body = "detach" => r.session = AfterDetach(x, TRUE, f)
    BY <1>1, <1>6, <1>8
  <1> QED
    BY <1>3, <1>4, <1>11, <1>12, <1>13, <1>14, <1>15, <1>16

\* What a session hears, past the gate, is its exchange's answer.
LEMMA StepHears ==
    ASSUME NEW x, x.state # "DISCARDING", NEW f, f.complete,
           f.body # "begin" => x.incoming = f.channel /\ x.state \in MayReceive
    PROVE  /\ f.body = "begin" /\ BeginAdmits(x, FALSE, f) => Hears(x, f, AfterBegin(x, FALSE, f))
           /\ f.body = "end" => Hears(x, f, AfterEnd(x, FALSE, f))
           /\ f.body = "attach" /\ HandleFree(x, FALSE, f) /\ AttachAdmits(x, FALSE, f) =>
                  Hears(x, f, AfterAttach(x, FALSE, f))
           /\ f.body = "detach" => Hears(x, f, AfterDetach(x, FALSE, f))
           /\ f.body = "flow" /\ FlowAdmits(x, FALSE, f) => Hears(x, f, AfterFlow(x, FALSE, f))
           /\ f.body = "transfer" /\ TransferTaken(x, FALSE, f) =>
                  Hears(x, f, AfterTransfer(x, FALSE, f))
  <1>1. ~FrameDiscarded(x, FALSE, f) /\ OnChannel(x, FALSE, f) /\ Permitted(x, FALSE, f)
    BY DEF FrameDiscarded, OnChannel, Permitted
  <1>2. f.body = "begin" => SessionStep(x, FALSE, f) = BeginStep(x, FALSE, f)
    BY <1>1 DEF SessionStep
  <1>3. f.body = "end" => SessionStep(x, FALSE, f) = Admitted(AfterEnd(x, FALSE, f))
    BY <1>1 DEF SessionStep
  <1>4. f.body = "attach" => SessionStep(x, FALSE, f) = AttachStep(x, FALSE, f)
    BY <1>1 DEF SessionStep
  <1>5. f.body = "detach" => SessionStep(x, FALSE, f) = Admitted(AfterDetach(x, FALSE, f))
    BY <1>1 DEF SessionStep
  <1>6. f.body = "flow" => SessionStep(x, FALSE, f)
            = Judged(x, FALSE, FlowAdmits(x, FALSE, f), AfterFlow(x, FALSE, f))
    BY <1>1 DEF SessionStep
  <1>7. f.body = "transfer" => SessionStep(x, FALSE, f)
            = Judged(x, FALSE, TransferTaken(x, FALSE, f), AfterTransfer(x, FALSE, f))
    BY <1>1 DEF SessionStep
  <1>8. f.body = "begin" /\ BeginAdmits(x, FALSE, f) => Hears(x, f, AfterBegin(x, FALSE, f))
    BY <1>2 DEF BeginStep, Hears
  <1>9. f.body = "attach" /\ HandleFree(x, FALSE, f) /\ AttachAdmits(x, FALSE, f) =>
            Hears(x, f, AfterAttach(x, FALSE, f))
    BY <1>4 DEF AttachStep, Hears
  <1>10. f.body = "flow" /\ FlowAdmits(x, FALSE, f) => Hears(x, f, AfterFlow(x, FALSE, f))
    BY <1>6 DEF Judged, Hears
  <1>11. f.body = "transfer" /\ TransferTaken(x, FALSE, f) =>
             Hears(x, f, AfterTransfer(x, FALSE, f))
    BY <1>7 DEF Judged, Hears
  <1> QED
    BY <1>3, <1>5, <1>8, <1>9, <1>10, <1>11 DEF Hears

-----------------------------------------------------------------------------
(* How much was said, and how much heard. *)

\* The begins and ends that the session x has said, and has heard; b begins were
\* said of it (Sessions).
SaidIn(x, b) ==
    CASE x.state = "UNMAPPED" -> IF b = 1 THEN 2 ELSE 0
      [] x.state = "BEGIN_RCVD" -> 0
      [] x.state \in {"BEGIN_SENT", "MAPPED", "END_RCVD"} -> 1
      [] OTHER -> 2

HeardIn(x, b) ==
    CASE x.state = "UNMAPPED" -> IF b = 1 THEN 2 ELSE 0
      [] x.state = "BEGIN_SENT" -> 0
      [] x.state \in {"BEGIN_RCVD", "MAPPED", "END_SENT", "DISCARDING"} -> 1
      [] OTHER -> 2

\* An attach leaves no delivery in progress; a detach starts none.
LEMMA RenewedLeaves ==
    ASSUME NEW m, NEW l, NEW f
    PROVE  /\ Table(m) = Renewed(Table(l), f) => m.delivery = Unset
           /\ Table(m) = Cleared(Table(l)) => m.delivery = Unset
           /\ Table(m) = Table(l) => m.delivery = l.delivery
  <1> DEFINE a == IF f.role = "sender" THEN WithModes(Table(l), f) ELSE Table(l)
  <1>1. Renewed(Table(l), f) = [a EXCEPT !.delivery = Unset, !.tag = Unset, !.format = Unset]
    BY DEF Renewed, NoDelivery
  <1>2. "delivery" \in DOMAIN a
    BY DEF WithModes, Table
  <1> HIDE DEF a
  <1>3. Renewed(Table(l), f).delivery = Unset
    BY <1>1, <1>2
  <1>4. Cleared(Table(l)).delivery = Unset
    BY DEF Cleared, NoDelivery, Table
  <1> QED
    BY <1>3, <1>4, TableFields

\* A session that has not heard the partner's begin has a link no more than
\* attached.
Untold(l) ==
    /\ l.remote.life = "suspended"
    /\ l.position # Unset => l.position.credit = 0
    /\ l.delivery = Unset

\* What the state's name, the channels and begun say of each other, in a session
\* that is not discarding.
StageShape(x, p, b) ==
    /\ x.state \in SessionStates \ {"DISCARDING"}
    /\ b \in 0 .. 1 /\ (b = 0 <=> SaidIn(x, b) = 0)
    /\ x.outgoing = IF SaidIn(x, b) = 1 THEN Channel(p) ELSE Unset
    /\ x.incoming = IF HeardIn(x, b) = 1 THEN Channel(Other(p)) ELSE Unset
    /\ x.peerBegun <=> (HeardIn(x, b) # 0 /\ x.state # "UNMAPPED")
    /\ HeardIn(x, b) = 0 => Untold(LinkIn(x, p))

\* How far each of the stages a state's name stands for is.
LEMMA Stages ==
    ASSUME NEW x, NEW p, NEW b, StageShape(x, p, b)
    PROVE  /\ SaidIn(x, b) \in 0 .. 2 /\ HeardIn(x, b) \in 0 .. 2
           /\ x.state = "UNMAPPED"   => SaidIn(x, b) = HeardIn(x, b) /\ SaidIn(x, b) = IF b = 1 THEN 2 ELSE 0
           /\ x.state = "BEGIN_SENT" <=> SaidIn(x, b) = 1 /\ HeardIn(x, b) = 0
           /\ x.state = "BEGIN_RCVD" <=> SaidIn(x, b) = 0 /\ HeardIn(x, b) = 1
           /\ x.state = "MAPPED"     <=> SaidIn(x, b) = 1 /\ HeardIn(x, b) = 1
           /\ x.state = "END_RCVD"   <=> SaidIn(x, b) = 1 /\ HeardIn(x, b) = 2
           /\ x.state = "END_SENT"   <=> SaidIn(x, b) = 2 /\ HeardIn(x, b) = 1
           /\ x.state = "UNMAPPED"   <=> SaidIn(x, b) = HeardIn(x, b) /\ SaidIn(x, b) # 1
  <1> DEFINE a == SaidIn(x, b)
             h == HeardIn(x, b)
  <1>1. /\ x.state = "UNMAPPED"   => IF b = 1 THEN a = 2 /\ h = 2 ELSE a = 0 /\ h = 0
        /\ x.state = "BEGIN_SENT" => a = 1 /\ h = 0
        /\ x.state = "BEGIN_RCVD" => a = 0 /\ h = 1
        /\ x.state = "MAPPED"     => a = 1 /\ h = 1
        /\ x.state = "END_RCVD"   => a = 1 /\ h = 2
        /\ x.state = "END_SENT"   => a = 2 /\ h = 1
    BY DEF SaidIn, HeardIn
  <1>2. x.state \in {"UNMAPPED", "BEGIN_SENT", "BEGIN_RCVD", "MAPPED", "END_RCVD", "END_SENT"}
    BY DEF StageShape, SessionStates
  <1> HIDE DEF a, h
  <1>3. a \in 0 .. 2 /\ h \in 0 .. 2
    BY <1>1, <1>2
  <1>4. /\ x.state = "UNMAPPED"   => a = h /\ a = IF b = 1 THEN 2 ELSE 0
        /\ x.state = "BEGIN_SENT" <=> a = 1 /\ h = 0
        /\ x.state = "BEGIN_RCVD" <=> a = 0 /\ h = 1
        /\ x.state = "MAPPED"     <=> a = 1 /\ h = 1
        /\ x.state = "END_RCVD"   <=> a = 1 /\ h = 2
        /\ x.state = "END_SENT"   <=> a = 2 /\ h = 1
        /\ x.state = "UNMAPPED"   <=> a = h /\ a # 1
    BY <1>1, <1>2
  <1> QED
    BY <1>3, <1>4 DEF a, h

\* A frame that is neither a begin nor an end.
LEMMA StageStays ==
    ASSUME NEW x, NEW p, NEW b, StageShape(x, p, b), NEW y, SameStage(x, y),
           HeardIn(x, b) = 0 => Untold(LinkIn(y, p))
    PROVE  /\ StageShape(y, p, b)
           /\ SaidIn(y, b) = SaidIn(x, b) /\ HeardIn(y, b) = HeardIn(x, b)
  <1>1. y.state = x.state /\ y.outgoing = x.outgoing /\ y.incoming = x.incoming
        /\ y.peerBegun = x.peerBegun
    BY DEF SameStage
  <1>2. SaidIn(y, b) = SaidIn(x, b) /\ HeardIn(y, b) = HeardIn(x, b)
    BY <1>1 DEF SaidIn, HeardIn
  <1> QED
    BY <1>1, <1>2 DEF StageShape

-----------------------------------------------------------------------------
(* Each frame, sent and heard. *)

\* A session a frame has moved, neither begun nor ended by it.
Follows(x, y, p, b) ==
    /\ SessionShape(y, p) /\ StageShape(y, p, b)
    /\ SaidIn(y, b) = SaidIn(x, b) /\ HeardIn(y, b) = HeardIn(x, b)

\* A session that has begun, and one that is ending.
LEMMA SaysBegin ==
    ASSUME NEW p \in Peers, NEW x, SessionShape(x, p), NEW b, StageShape(x, p, b), b = 0,
           NEW f, f.body = "begin", IsBegin(f), f.channel = Channel(p), NEW y, Sends(x, f, y)
    PROVE  /\ SessionShape(y, p) /\ StageShape(y, p, 1)
           /\ SaidIn(x, b) = 0 /\ SaidIn(y, 1) = 1
           /\ HeardIn(y, 1) = HeardIn(x, b) /\ HeardIn(x, b) \in 0 .. 1
           /\ LinkIn(y, p) = LinkIn(x, p) /\ y.windows = AfterSendingBegin(x.windows, f)
  <1>1. BeginAdmits(x, TRUE, f) /\ y = AfterBegin(x, TRUE, f)
    BY StepSends
  <1> DEFINE z == AfterBegin(x, TRUE, f)
  <1>a. BeginMoves(x, z, p, TRUE, f)
    BY SessionBegins
  <1> HIDE DEF z
  <1>2. /\ SessionShape(y, p) /\ LinkIn(y, p) = LinkIn(x, p)
        /\ y.windows = AfterSendingBegin(x.windows, f)
        /\ y.outgoing = f.channel /\ y.incoming = x.incoming /\ y.peerBegun = x.peerBegun
        /\ x.state = "UNMAPPED" => y.state = "BEGIN_SENT"
        /\ x.state # "UNMAPPED" => y.state = "MAPPED"
    BY <1>1, <1>a DEF BeginMoves, z
  <1>3. x.state \in {"UNMAPPED", "BEGIN_RCVD"}
    BY <1>1 DEF BeginAdmits
  <1>4. /\ SaidIn(x, b) = 0
        /\ x.state = "UNMAPPED" => HeardIn(x, b) = 0
        /\ x.state = "BEGIN_RCVD" => HeardIn(x, b) = 1
    BY <1>3 DEF SaidIn, HeardIn
  <1>5. /\ SaidIn(y, 1) = 1
        /\ x.state = "UNMAPPED" => HeardIn(y, 1) = 0
        /\ x.state = "BEGIN_RCVD" => HeardIn(y, 1) = 1
    BY <1>2, <1>3 DEF SaidIn, HeardIn
  <1>6. HeardIn(y, 1) = HeardIn(x, b) /\ HeardIn(x, b) \in 0 .. 1
    BY <1>3, <1>4, <1>5
  <1>7. x.incoming = (IF HeardIn(x, b) = 1 THEN Channel(Other(p)) ELSE Unset)
        /\ (x.peerBegun <=> (HeardIn(x, b) # 0 /\ x.state # "UNMAPPED"))
        /\ (HeardIn(x, b) = 0 => Untold(LinkIn(x, p)))
    BY DEF StageShape
  <1>8. y.state \in SessionStates \ {"DISCARDING"} /\ y.state # "UNMAPPED"
    BY <1>2, <1>3 DEF SessionStates
  <1>9. CASE x.state = "UNMAPPED"
    BY <1>2, <1>4, <1>5, <1>7, <1>8, <1>9 DEF StageShape
  <1>10. CASE x.state = "BEGIN_RCVD"
    BY <1>2, <1>4, <1>5, <1>7, <1>8, <1>10 DEF StageShape
  <1>12. StageShape(y, p, 1)
    BY <1>3, <1>9, <1>10
  <1> QED
    BY <1>2, <1>4, <1>5, <1>6, <1>12

\* A begin is heard by a session that has heard none.
LEMMA HearsBegin ==
    ASSUME NEW p \in Peers, NEW x, SessionShape(x, p), NEW b, StageShape(x, p, b),
           HeardIn(x, b) = 0, NEW f, f.body = "begin", IsBegin(f), f.complete,
           f.channel = Channel(Other(p))
    PROVE  \E y : /\ Hears(x, f, y) /\ SessionShape(y, p) /\ StageShape(y, p, b)
                  /\ SaidIn(y, b) = SaidIn(x, b) /\ HeardIn(y, b) = 1
                  /\ LinkIn(y, p) = LinkIn(x, p) /\ y.windows = AfterReceivingBegin(x.windows, f)
  <1>1. x.state = "BEGIN_SENT" \/ (x.state = "UNMAPPED" /\ SaidIn(x, b) = 0)
    BY DEF StageShape, SaidIn, HeardIn, SessionStates
  <1>2. x.state \in {"UNMAPPED", "BEGIN_SENT"}
    BY <1>1
  <1> DEFINE y == AfterBegin(x, FALSE, f)
  <1>3. Hears(x, f, y)
    BY <1>2, StepHears DEF BeginAdmits
  <1>a. BeginMoves(x, y, p, FALSE, f)
    BY SessionBegins
  <1> HIDE DEF y
  <1>4. /\ SessionShape(y, p) /\ LinkIn(y, p) = LinkIn(x, p)
        /\ y.windows = AfterReceivingBegin(x.windows, f)
        /\ y.outgoing = x.outgoing /\ y.incoming = f.channel /\ y.peerBegun = TRUE
        /\ x.state = "UNMAPPED" => y.state = "BEGIN_RCVD"
        /\ x.state # "UNMAPPED" => y.state = "MAPPED"
    BY <1>a DEF BeginMoves
  <1>5. SaidIn(x, b) = (IF x.state = "UNMAPPED" THEN 0 ELSE 1)
    BY <1>1 DEF SaidIn
  <1>6. SaidIn(y, b) = (IF x.state = "UNMAPPED" THEN 0 ELSE 1) /\ HeardIn(y, b) = 1
    BY <1>2, <1>4 DEF SaidIn, HeardIn
  <1>7. StageShape(y, p, b)
    BY <1>2, <1>4, <1>5, <1>6 DEF StageShape, SessionStates
  <1> QED
    BY <1>3, <1>4, <1>5, <1>6, <1>7

\* An end that says nothing of an error.
PlainEnd == [error |-> FALSE]

\* The session that has ended without an error.
EndsPlainly(x, y) == y = AfterEnd(x, TRUE, PlainEnd)

\* An end without an error, said by a mapped session or in answer.
LEMMA SaysEnd ==
    ASSUME NEW p \in Peers, NEW x, SessionShape(x, p), NEW b, StageShape(x, p, b),
           x.state \in {"MAPPED", "END_RCVD"}, NEW y, EndsPlainly(x, y)
    PROVE  /\ SessionShape(y, p) /\ StageShape(y, p, b)
           /\ SaidIn(x, b) = 1 /\ SaidIn(y, b) = 2
           /\ HeardIn(y, b) = HeardIn(x, b) /\ HeardIn(x, b) \in 1 .. 2
           /\ LinkIn(y, p) = LinkIn(x, p) /\ y.windows = x.windows
  <1> DEFINE z == AfterEnd(x, TRUE, PlainEnd)
  <1>a. EndMoves(x, z, p, TRUE, PlainEnd)
    BY SessionEnds
  <1> HIDE DEF z
  <1>c. y = z
    BY DEF EndsPlainly, z
  <1>b. ~PlainEnd.error
    BY DEF PlainEnd
  <1>1. /\ SessionShape(y, p) /\ LinkIn(y, p) = LinkIn(x, p) /\ y.windows = x.windows
        /\ x.state # "MAPPED" => /\ y.state = "UNMAPPED" /\ y.outgoing = Unset
                                 /\ y.incoming = Unset /\ ~y.peerBegun
        /\ x.state = "MAPPED" =>
               /\ y.state = "END_SENT"
               /\ y.outgoing = Unset /\ y.incoming = x.incoming /\ y.peerBegun = x.peerBegun
    BY <1>a, <1>b, <1>c DEF EndMoves
  <1>2. /\ SaidIn(x, b) = 1
        /\ x.state = "MAPPED" => HeardIn(x, b) = 1
        /\ x.state = "END_RCVD" => HeardIn(x, b) = 2
    BY DEF SaidIn, HeardIn
  <1>3. b = 1
    BY <1>2 DEF StageShape
  <1>4. /\ x.state = "MAPPED" => y.state = "END_SENT"
        /\ x.state = "END_RCVD" => y.state = "UNMAPPED"
    BY <1>1
  <1>5. /\ SaidIn(y, b) = 2
        /\ x.state = "MAPPED" => HeardIn(y, b) = 1
        /\ x.state = "END_RCVD" => HeardIn(y, b) = 2
    BY <1>3, <1>4 DEF SaidIn, HeardIn
  <1>6. HeardIn(y, b) = HeardIn(x, b) /\ HeardIn(x, b) \in 1 .. 2
    BY <1>2, <1>5
  <1>7. /\ x.incoming = (IF HeardIn(x, b) = 1 THEN Channel(Other(p)) ELSE Unset)
        /\ x.peerBegun
    BY <1>6 DEF StageShape
  <1>8. y.state \in SessionStates \ {"DISCARDING"}
    BY <1>4 DEF SessionStates
  <1>9. ASSUME x.state = "MAPPED"
        PROVE  StageShape(y, p, b)
    <2>1. /\ y.state \in SessionStates \ {"DISCARDING"} /\ y.state # "UNMAPPED"
          /\ SaidIn(y, b) = 2 /\ HeardIn(y, b) = 1 /\ HeardIn(x, b) = 1
      BY <1>2, <1>4, <1>5, <1>8, <1>9
    <2>2. y.outgoing = Unset /\ y.incoming = Channel(Other(p)) /\ y.peerBegun
      BY <1>1, <1>7, <1>9, <2>1
    <2> QED
      BY <1>3, <2>1, <2>2 DEF StageShape
  <1>10. x.state = "END_RCVD" => StageShape(y, p, b)
    BY <1>1, <1>2, <1>3, <1>4, <1>5, <1>7, <1>8 DEF StageShape
  <1>12. StageShape(y, p, b)
    BY <1>9, <1>10
  <1> QED
    BY <1>1, <1>2, <1>5, <1>6, <1>12

\* A session that has heard the partner's begin and not its end reads what the
\* partner sends.
LEMMA Reads ==
    ASSUME NEW p, NEW x, NEW b, StageShape(x, p, b), HeardIn(x, b) = 1
    PROVE  /\ x.state \in MayReceive /\ x.state # "DISCARDING"
           /\ x.incoming = Channel(Other(p)) /\ x.peerBegun
  <1>1. x.state \in {"BEGIN_RCVD", "MAPPED", "END_SENT"}
    BY DEF StageShape, HeardIn, SessionStates
  <1> QED
    BY <1>1 DEF StageShape, MayReceive

\* An end is heard by a session that is mapped, or has said its own.
LEMMA HearsEnd ==
    ASSUME NEW p \in Peers, NEW x, SessionShape(x, p), NEW b, StageShape(x, p, b),
           HeardIn(x, b) = 1, SaidIn(x, b) # 0,
           NEW f, f.body = "end", f.complete, f.channel = Channel(Other(p))
    PROVE  \E y : /\ Hears(x, f, y) /\ SessionShape(y, p) /\ StageShape(y, p, b)
                  /\ SaidIn(y, b) = SaidIn(x, b) /\ HeardIn(y, b) = 2
                  /\ LinkIn(y, p) = LinkIn(x, p) /\ y.windows = x.windows
  <1>1. x.state \in {"MAPPED", "END_SENT"}
    BY DEF StageShape, SaidIn, HeardIn, SessionStates
  <1> DEFINE y == AfterEnd(x, FALSE, f)
  <1>2. Hears(x, f, y)
    BY Reads, StepHears
  <1>a. EndMoves(x, y, p, FALSE, f)
    BY <1>1, SessionEnds
  <1> HIDE DEF y
  <1>3. /\ SessionShape(y, p) /\ LinkIn(y, p) = LinkIn(x, p) /\ y.windows = x.windows
        /\ x.state # "MAPPED" => /\ y.state = "UNMAPPED" /\ y.outgoing = Unset
                                 /\ y.incoming = Unset /\ ~y.peerBegun
        /\ x.state = "MAPPED" =>
               /\ y.state = "END_RCVD" /\ y.incoming = Unset
               /\ y.outgoing = x.outgoing /\ y.peerBegun
    BY <1>a DEF EndMoves
  <1>4. SaidIn(x, b) = IF x.state = "MAPPED" THEN 1 ELSE 2
    BY <1>1 DEF SaidIn
  <1>5. b = 1
    BY DEF StageShape
  <1>6. y.state = IF x.state = "MAPPED" THEN "END_RCVD" ELSE "UNMAPPED"
    BY <1>1, <1>3
  <1>7. HeardIn(y, b) = 2 /\ SaidIn(y, b) = IF x.state = "MAPPED" THEN 1 ELSE 2
    BY <1>5, <1>6 DEF SaidIn, HeardIn
  <1>b. y.state \in SessionStates \ {"DISCARDING"}
    BY <1>1, <1>6 DEF SessionStates
  <1>c. x.state = "MAPPED" => StageShape(y, p, b)
    BY <1>b, <1>3, <1>4, <1>5, <1>6, <1>7 DEF StageShape
  <1>d. x.state = "END_SENT" => StageShape(y, p, b)
    BY <1>b, <1>3, <1>4, <1>5, <1>6, <1>7 DEF StageShape
  <1>8. StageShape(y, p, b)
    BY <1>1, <1>c, <1>d
  <1> QED
    BY <1>2, <1>3, <1>4, <1>7, <1>8

\* A session may send between its begin and its end.
LEMMA MayTalk ==
    ASSUME NEW p, NEW x, NEW b, StageShape(x, p, b), NEW f, f.body # "begin", NEW y, Sends(x, f, y)
    PROVE  SaidIn(x, b) = 1
  <1>1. x.state \in MaySend
    BY StepSends
  <1> QED
    BY <1>1 DEF SaidIn, MaySend

\* An attach that was taken from the application.
LEMMA SaysAttach ==
    ASSUME NEW p \in Peers, NEW x, SessionShape(x, p), NEW b, StageShape(x, p, b),
           NEW f, f.body = "attach", IsAttach(f, p), NEW y, Sends(x, f, y)
    PROVE  /\ Follows(x, y, p, b) /\ y.windows = x.windows
           /\ AttachSent(LinkIn(y, p), LinkIn(x, p), p, f)
           /\ f.handle <= DefaultHandleMax
  <1>1. HandleFree(x, TRUE, f) /\ y = AfterAttach(x, TRUE, f)
    BY StepSends
  <1>2. Speaker(p, TRUE) = p
    BY DEF Speaker
  <1> DEFINE z == AfterAttach(x, TRUE, f)
  <1>a. AttachMoves(x, z, p, TRUE, f)
    BY <1>2, SessionAttaches
  <1> HIDE DEF z
  <1>3. /\ SessionShape(y, p) /\ SameStage(x, y) /\ y.windows = x.windows
        /\ AttachEnds(LinkIn(y, p), LinkIn(x, p), p, TRUE, f)
    BY <1>1, <1>a DEF AttachMoves, z
  <1>4. AttachSent(LinkIn(y, p), LinkIn(x, p), p, f)
    BY <1>3 DEF AttachEnds
  <1>5. f.handle <= DefaultHandleMax
    BY <1>1 DEF HandleFree, SessionShape
  <1>6. HeardIn(x, b) = 0 => Untold(LinkIn(y, p))
    <2>1. ASSUME Untold(LinkIn(x, p))
          PROVE  Untold(LinkIn(y, p))
      <3> DEFINE m == LinkIn(y, p)
                 l == LinkIn(x, p)
      <3>1. m.remote = l.remote /\ m.position = FreshPosition(f) /\ Table(m) = Renewed(Table(l), f)
        BY <1>4 DEF AttachSent
      <3>2. m.position.credit = 0
        BY <3>1 DEF FreshPosition
      <3>3. m.delivery = Unset
        BY <3>1, RenewedLeaves
      <3> HIDE DEF m
      <3> QED
        BY <2>1, <3>1, <3>2, <3>3 DEF Untold, m
    <2> QED
      BY <2>1 DEF StageShape
  <1> QED
    BY <1>3, <1>4, <1>5, <1>6, StageStays DEF Follows

\* An attach is heard whatever came before it: no link here is destroyed.
LEMMA HearsAttach ==
    ASSUME NEW p \in Peers, NEW x, SessionShape(x, p), NEW b, StageShape(x, p, b),
           HeardIn(x, b) = 1,
           NEW f, f.body = "attach", f.complete, f.channel = Channel(Other(p)),
           IsAttach(f, Other(p)), f.handle <= DefaultHandleMax
    PROVE  \E y : /\ Hears(x, f, y) /\ Follows(x, y, p, b) /\ y.windows = x.windows
                  /\ AttachHeard(LinkIn(y, p), LinkIn(x, p), p, f)
  <1>1. Speaker(p, FALSE) = Other(p)
    BY DEF Speaker
  <1>2. HandleFree(x, FALSE, f)
    <2>1. AttachId(FALSE, f) = Id(p)
      BY <1>1, Naming
    <2>2. x.handleMax = DefaultHandleMax
      BY DEF SessionShape
    <2>3. f.handle \in DOMAIN x.remoteHandles => x.remoteHandles[f.handle] = Id(p)
      BY DEF SessionShape, Binds, IsAttach
    <2> QED
      BY <2>1, <2>2, <2>3 DEF HandleFree, Handles, IdOf
  <1>3. AttachAdmits(x, FALSE, f)
    <2>1. AttachId(FALSE, f) = Id(p)
      BY <1>1, Naming
    <2>2. IsEnd(LinkIn(x, p).remote)
      BY DEF SessionShape, LinkShape
    <2>3. LifeAllows(LinkIn(x, p).remote.life, FALSE, f.map)
      BY <2>2 DEF IsEnd, LifeAllows, IsAttach
    <2>4. f.role = "sender" => f.initialCount # Unset
      <3>1. f.role = "sender" => Other(p) = "client"
        BY Sides DEF IsAttach, Peers
      <3> QED
        BY <3>1, NotUnset DEF IsAttach
    <2> QED
      BY <2>1, <2>3, <2>4 DEF AttachAdmits, IsAttach, EndpointOf, LinkIn
  <1> DEFINE y == AfterAttach(x, FALSE, f)
  <1>4. Hears(x, f, y)
    BY <1>2, <1>3, Reads, StepHears
  <1>a. AttachMoves(x, y, p, FALSE, f)
    BY <1>1, SessionAttaches
  <1> HIDE DEF y
  <1>5. /\ SessionShape(y, p) /\ SameStage(x, y) /\ y.windows = x.windows
        /\ AttachEnds(LinkIn(y, p), LinkIn(x, p), p, FALSE, f)
    BY <1>a DEF AttachMoves
  <1>6. Follows(x, y, p, b)
    BY <1>5, StageStays DEF Follows
  <1> QED
    BY <1>4, <1>5, <1>6 DEF AttachEnds

-----------------------------------------------------------------------------
(* What a frame does to the session that sends it, and to the one that hears   *)
(* it.                                                                         *)

\* What a frame does to the table of the deliveries, at either end.
Effect(a, f) ==
    CASE f.body = "transfer" -> Transferred(a, f)
      [] f.body = "attach"   -> Renewed(a, f)
      [] f.body = "detach"   -> IF f.error THEN Cleared(a) ELSE a
      [] OTHER               -> a

\* A delivery that is opened spends credit and is counted.
Spends(m, l) ==
    /\ l.delivery # Unset => m.position = l.position
    /\ l.delivery = Unset =>
           /\ l.position.credit > 0
           /\ m.position = [count |-> l.position.count + 1, credit |-> l.position.credit - 1]

\* What is so of the link and of the windows of a session that has said f; m and
\* v are after, l and w before.
LinkSaid(m, l, f) ==
    /\ m.remote = l.remote
    /\ f.body = "attach" => m.local.life = "attached" /\ m.position = FreshPosition(f)
    /\ f.body = "detach" => l.local.life = "attached" /\ m.local.life # "attached"
    /\ f.body \notin {"attach", "detach"} => m.local = l.local
    /\ f.body \notin {"attach", "detach", "transfer"} => m.position = l.position
    /\ f.body = "transfer" => /\ l.local.life = "attached" /\ Spends(m, l)
                              /\ Accepts(Table(l), f)
    /\ Table(m) = Effect(Table(l), f)

WindowsSaid(v, w, f) ==
    /\ f.body = "begin" => v = AfterSendingBegin(w, f)
    /\ f.body = "transfer" => v = AfterSendingTransfer(w) /\ w.remoteIncoming > 0
    /\ f.body \notin {"begin", "transfer"} => v = w

\* The session x at p says f, and becomes y.
Saying(x, y, p, f, a, b) ==
    /\ SessionShape(y, p) /\ StageShape(y, p, b)
    /\ HeardIn(y, b) = HeardIn(x, a)
    /\ f.body = "begin" => a = 0 /\ b = 1 /\ SaidIn(x, a) = 0 /\ SaidIn(y, b) = 1
    /\ f.body # "begin" => a = b /\ SaidIn(x, a) = 1
    /\ f.body = "end" => SaidIn(y, b) = 2 /\ HeardIn(x, a) # 0
    /\ f.body \notin {"begin", "end"} => SaidIn(y, b) = 1
    /\ f.body = "transfer" => HeardIn(x, a) # 0
    /\ LinkSaid(LinkIn(y, p), LinkIn(x, p), f)
    /\ WindowsSaid(y.windows, x.windows, f)

\* A delivery that is opened is counted.
Counts(m, l) ==
    /\ l.position = Unset => m.position = Unset
    /\ l.position # Unset =>
           /\ l.delivery # Unset => m.position = l.position
           /\ l.delivery = Unset => m.position.count = l.position.count + 1

\* A grant, as the client hears it.
GrantHeard(m, l, f) ==
    l.position # Unset => /\ m.position.count = l.position.count
                          /\ m.position.credit = Minus(f.count + f.credit, l.position.count)

\* A count, as the server hears it.
CountHeard(m, l, f) ==
    /\ l.position = Unset => m.position = Unset
    /\ l.position # Unset => m.position.count = f.count

\* The same of a session that has heard f.
LinkHeard(m, l, p, f) ==
    /\ m.local = l.local
    /\ f.body = "attach" => /\ m.remote.life = "attached"
                            /\ l.position # Unset => m.position = l.position
                            /\ p = "server" => m.position = l.position
    /\ f.body = "detach" => m.remote.life # "attached" /\ m.position = l.position
    /\ f.body \notin {"attach", "detach"} => m.remote = l.remote
    /\ f.body \in {"begin", "end"} => m.position = l.position
    /\ f.body = "flow" =>
           /\ f.handle = Unset => m.position = l.position
           /\ f.handle # Unset /\ p = "client" => GrantHeard(m, l, f)
           /\ f.handle # Unset /\ p = "server" => CountHeard(m, l, f)
    /\ f.body = "transfer" => Counts(m, l)
    /\ Table(m) = Effect(Table(l), f)

WindowsHeard(v, w, f) ==
    /\ f.body = "begin" => v = AfterReceivingBegin(w, f)
    /\ f.body = "flow" => v = AfterReceivingFlow(w, f)
    /\ f.body = "transfer" => v = AfterReceivingTransfer(w)
    /\ f.body \notin {"begin", "flow", "transfer"} => v = w

\* The session x at p hears f, takes it, and becomes y.
Hearing(x, y, p, f, b) ==
    /\ Hears(x, f, y)
    /\ SessionShape(y, p) /\ StageShape(y, p, b)
    /\ SaidIn(y, b) = SaidIn(x, b)
    /\ f.body = "begin" => HeardIn(x, b) = 0 /\ HeardIn(y, b) = 1
    /\ f.body # "begin" => HeardIn(x, b) = 1
    /\ f.body = "end" => HeardIn(y, b) = 2
    /\ f.body \notin {"begin", "end"} => HeardIn(y, b) = 1
    /\ LinkHeard(LinkIn(y, p), LinkIn(x, p), p, f)
    /\ WindowsHeard(y.windows, x.windows, f)

\* A begin, as it is said.
LEMMA BeginSaid ==
    ASSUME NEW p \in Peers, NEW x, SessionShape(x, p), NEW b, StageShape(x, p, b), b = 0,
           NEW f, f.body = "begin", IsBegin(f), f.channel = Channel(p), NEW y, Sends(x, f, y)
    PROVE  Saying(x, y, p, f, b, 1)
  <1>1. /\ SessionShape(y, p) /\ StageShape(y, p, 1)
        /\ SaidIn(x, b) = 0 /\ SaidIn(y, 1) = 1
        /\ HeardIn(y, 1) = HeardIn(x, b)
        /\ LinkIn(y, p) = LinkIn(x, p) /\ y.windows = AfterSendingBegin(x.windows, f)
    BY SaysBegin
  <1>2. WindowsSaid(y.windows, x.windows, f)
    BY <1>1 DEF WindowsSaid
  <1>3. Effect(Table(LinkIn(x, p)), f) = Table(LinkIn(x, p))
    BY DEF Effect
  <1>4. LinkSaid(LinkIn(y, p), LinkIn(x, p), f)
    BY <1>1, <1>3 DEF LinkSaid
  <1> QED
    BY <1>1, <1>2, <1>4 DEF Saying

\* An end, as it is said.
LEMMA EndSaid ==
    ASSUME NEW p \in Peers, NEW x, SessionShape(x, p), NEW b, StageShape(x, p, b),
           x.state \in {"MAPPED", "END_RCVD"},
           NEW f, f.body = "end", NEW y, EndsPlainly(x, y)
    PROVE  Saying(x, y, p, f, b, b)
  <1>1. /\ SessionShape(y, p) /\ StageShape(y, p, b)
        /\ SaidIn(x, b) = 1 /\ SaidIn(y, b) = 2
        /\ HeardIn(y, b) = HeardIn(x, b) /\ HeardIn(x, b) \in 1 .. 2
        /\ LinkIn(y, p) = LinkIn(x, p) /\ y.windows = x.windows
    BY SaysEnd
  <1>2. WindowsSaid(y.windows, x.windows, f)
    BY <1>1 DEF WindowsSaid
  <1>3. Effect(Table(LinkIn(x, p)), f) = Table(LinkIn(x, p))
    BY DEF Effect
  <1>4. LinkSaid(LinkIn(y, p), LinkIn(x, p), f)
    BY <1>1, <1>3 DEF LinkSaid
  <1>5. HeardIn(x, b) # 0
    BY <1>1
  <1> QED
    BY <1>1, <1>2, <1>4, <1>5 DEF Saying

\* An attach, as it is said.
LEMMA AttachSaid ==
    ASSUME NEW p \in Peers, NEW x, SessionShape(x, p), NEW b, StageShape(x, p, b),
           NEW f, f.body = "attach", IsAttach(f, p), NEW y, Sends(x, f, y)
    PROVE  Saying(x, y, p, f, b, b) /\ f.handle <= DefaultHandleMax
  <1>1. /\ Follows(x, y, p, b) /\ y.windows = x.windows
        /\ AttachSent(LinkIn(y, p), LinkIn(x, p), p, f)
        /\ f.handle <= DefaultHandleMax
    BY SaysAttach
  <1>2. SaidIn(x, b) = 1
    BY MayTalk
  <1>3. WindowsSaid(y.windows, x.windows, f)
    BY <1>1 DEF WindowsSaid
  <1>4. Effect(Table(LinkIn(x, p)), f) = Renewed(Table(LinkIn(x, p)), f)
    BY DEF Effect
  <1>5. LinkSaid(LinkIn(y, p), LinkIn(x, p), f)
    BY <1>1, <1>4 DEF LinkSaid, AttachSent
  <1>6. /\ SessionShape(y, p) /\ StageShape(y, p, b)
        /\ SaidIn(y, b) = SaidIn(x, b) /\ HeardIn(y, b) = HeardIn(x, b)
    BY <1>1 DEF Follows
  <1> QED
    BY <1>1, <1>2, <1>3, <1>5, <1>6 DEF Saying

\* A detach, as it is said.
LEMMA DetachSaid ==
    ASSUME NEW p \in Peers, NEW x, SessionShape(x, p), NEW b, StageShape(x, p, b), Up(x, p),
           NEW f, f.body = "detach", IsDetach(f, p), NEW y, Sends(x, f, y)
    PROVE  Saying(x, y, p, f, b, b)
  <1>1. y = AfterDetach(x, TRUE, f)
    BY StepSends
  <1>2. Speaker(p, TRUE) = p
    BY DEF Speaker
  <1> DEFINE z == AfterDetach(x, TRUE, f)
  <1>a. DetachMoves(x, z, p, TRUE, f)
    BY <1>2, SessionDetaches
  <1> HIDE DEF z
  <1>3. y = z
    BY <1>1 DEF z
  <1>4. /\ SessionShape(y, p) /\ SameStage(x, y) /\ y.windows = x.windows
        /\ LinkIn(y, p).local.life = "detached" /\ LinkIn(y, p).remote = LinkIn(x, p).remote
        /\ LinkIn(y, p).position = Unset
        /\ f.error => Table(LinkIn(y, p)) = Cleared(Table(LinkIn(x, p)))
        /\ ~f.error => Table(LinkIn(y, p)) = Table(LinkIn(x, p))
    BY <1>a, <1>3 DEF DetachMoves, Detached
  <1>5. SaidIn(x, b) = 1
    BY MayTalk
  <1>6. HeardIn(x, b) = 0 => Untold(LinkIn(y, p))
    <2>1. ASSUME Untold(LinkIn(x, p))
          PROVE  Untold(LinkIn(y, p))
      <3> DEFINE m == LinkIn(y, p)
                 l == LinkIn(x, p)
      <3>1. m.delivery = Unset
        BY <1>4, <2>1, RenewedLeaves DEF Untold
      <3> QED
        BY <1>4, <2>1, <3>1 DEF Untold
    <2> QED
      BY <2>1 DEF StageShape
  <1>7. /\ StageShape(y, p, b)
        /\ SaidIn(y, b) = SaidIn(x, b) /\ HeardIn(y, b) = HeardIn(x, b)
    BY <1>4, <1>6, StageStays
  <1>8. WindowsSaid(y.windows, x.windows, f)
    BY <1>4 DEF WindowsSaid
  <1>9. Table(LinkIn(y, p)) = Effect(Table(LinkIn(x, p)), f)
    BY <1>4 DEF Effect
  <1>10. LinkSaid(LinkIn(y, p), LinkIn(x, p), f)
    BY <1>4, <1>9 DEF LinkSaid, Up
  <1> QED
    BY <1>4, <1>5, <1>7, <1>8, <1>10 DEF Saying

\* A flow, as it is said: it moves nothing of its sender.
LEMMA FlowSaid ==
    ASSUME NEW p \in Peers, NEW x, SessionShape(x, p), NEW b, StageShape(x, p, b),
           NEW f, f.body = "flow", NEW y, Sends(x, f, y)
    PROVE  Saying(x, y, p, f, b, b) /\ y = x
  <1>1. y = x
    BY StepSends
  <1>2. SaidIn(x, b) = 1
    BY MayTalk
  <1>3. WindowsSaid(y.windows, x.windows, f)
    BY <1>1 DEF WindowsSaid
  <1>4. Effect(Table(LinkIn(x, p)), f) = Table(LinkIn(x, p))
    BY DEF Effect
  <1>5. LinkSaid(LinkIn(y, p), LinkIn(x, p), f)
    BY <1>1, <1>4 DEF LinkSaid
  <1> QED
    BY <1>1, <1>2, <1>3, <1>5 DEF Saying

\* What a transfer had to pass, at either end.
LEMMA TakenAsks ==
    ASSUME NEW p \in Peers, NEW x, SessionShape(x, p), NEW out \in BOOLEAN,
           Speaker(p, out) = "client", NEW f, IsTransfer(f)
    PROVE  TransferTaken(x, out, f) <=>
               /\ WindowOpen(x.windows, out)
               /\ IF out THEN Up(x, p) ELSE Seen(x, p)
               /\ Accepts(Table(LinkIn(x, p)), f)
               /\ out /\ ~Continued(LinkIn(x, p)) => HasCredit(LinkIn(x, p))
  <1> DEFINE l == LinkIn(x, p)
             up == IF out THEN Up(x, p) ELSE Seen(x, p)
  <1>1. f.handle = Handle(Speaker(p, out))
    BY DEF IsTransfer
  <1>2. /\ Resolves(x, out, f.handle) <=> up
        /\ Resolves(x, out, f.handle) => IdOf(x, out, f.handle) = Id(p) /\ x.links[Id(p)] = l
    BY <1>1, Resolving DEF Speaker
  <1>3. out <=> Id(p).role = "sender"
    BY Sides DEF Speaker, Id, Peers
  <1>4. LinkShape(l, p)
    BY DEF SessionShape
  <1>5. /\ ~Ignored(l, out, f) /\ PayloadAdmits(l, out, f)
        /\ (ModesAllow(l, f) /\ TransferAdmits(l, out, f)) <=>
                  /\ Accepts(Table(l), f)
                  /\ out /\ ~Continued(l) => HasCredit(l)
    BY <1>4, TransferAsks
  <1> HIDE DEF l
  <1>6. TransferTaken(x, out, f) <=>
            /\ WindowOpen(x.windows, out) /\ Resolves(x, out, f.handle)
            /\ ModesAllow(l, f) /\ TransferAdmits(l, out, f)
    BY <1>2, <1>3, <1>5 DEF TransferTaken
  <1> QED
    BY <1>2, <1>5, <1>6 DEF l

\* An end that is up has a position.
LEMMA Placing ==
    ASSUME NEW p, NEW x, SessionShape(x, p)
    PROVE  /\ Up(x, p) => LinkIn(x, p).position \in Positions
           /\ p = "server" /\ LinkIn(x, p).position # Unset => Up(x, p)
           /\ LinkIn(x, p).position # Unset => LinkIn(x, p).position \in Positions
  BY DEF SessionShape, LinkShape, Up, Optional

\* A transfer, as the client says it.
LEMMA TransferSaid ==
    ASSUME NEW p \in Peers, p = "client", NEW x, SessionShape(x, p), NEW b, StageShape(x, p, b),
           NEW f, f.body = "transfer", IsTransfer(f), NEW y, Sends(x, f, y)
    PROVE  Saying(x, y, p, f, b, b)
  <1> DEFINE l == LinkIn(x, p)
             m == LinkIn(y, p)
  <1>1. TransferTaken(x, TRUE, f) /\ y = AfterTransfer(x, TRUE, f)
    BY StepSends
  <1>2. Speaker(p, TRUE) = "client"
    BY DEF Speaker
  <1>3. /\ WindowOpen(x.windows, TRUE) /\ Up(x, p) /\ Accepts(Table(l), f)
        /\ ~Continued(l) => HasCredit(l)
    BY <1>1, <1>2, TakenAsks
  <1>4. Continued(l) \/ f.deliveryId # Unset
    BY <1>3, TableReads DEF Accepts, Identified
  <1> DEFINE z == AfterTransfer(x, TRUE, f)
  <1>5. TransferMoves(x, z, p, TRUE, f)
    BY <1>2, <1>3, <1>4, SessionTransfers
  <1> HIDE DEF z
  <1>6. y = z
    BY <1>1 DEF z
  <1>7. /\ SessionShape(y, p) /\ SameStage(x, y) /\ y.windows = AfterSendingTransfer(x.windows)
        /\ m.local = l.local /\ m.remote = l.remote
        /\ Table(m) = Transferred(Table(l), f)
    BY <1>5, <1>6 DEF TransferMoves, Moved
  <1>8. /\ l.position # Unset /\ ~Continued(l) =>
               m.position = [count |-> l.position.count + 1,
                             credit |-> Minus(l.position.credit, 1)]
        /\ Continued(l) => m.position = l.position
    BY <1>5, <1>6 DEF TransferMoves, Moved, PositionAfter
  <1>9. l.position \in Positions /\ l.position # Unset
    BY <1>3, Placing, NotUnset
  <1>10. ~Continued(l) => l.position.credit > 0
    BY <1>3, <1>9 DEF HasCredit
  <1>11. Spends(m, l)
    BY <1>8, <1>9, <1>10 DEF Spends, Continued, Minus, Positions
  <1>12. HeardIn(x, b) # 0
    <2>1. ~Untold(l)
      BY <1>9, <1>10 DEF Untold, Continued
    <2> QED
      BY <2>1 DEF StageShape
  <1>13. x.windows.remoteIncoming > 0
    BY <1>3 DEF WindowOpen
  <1>14. SaidIn(x, b) = 1
    BY MayTalk
  <1>15. WindowsSaid(y.windows, x.windows, f)
    BY <1>7, <1>13 DEF WindowsSaid
  <1>16. Effect(Table(l), f) = Transferred(Table(l), f)
    BY DEF Effect
  <1>17. l.local.life = "attached"
    BY <1>3 DEF Up
  <1>18. LinkSaid(m, l, f)
    BY <1>3, <1>7, <1>11, <1>16, <1>17 DEF LinkSaid
  <1>19. /\ StageShape(y, p, b)
         /\ SaidIn(y, b) = SaidIn(x, b) /\ HeardIn(y, b) = HeardIn(x, b)
    BY <1>7, <1>12, StageStays
  <1> QED
    BY <1>7, <1>12, <1>14, <1>15, <1>18, <1>19 DEF Saying

-----------------------------------------------------------------------------

\* A begin, as it is heard.
LEMMA BeginHeard ==
    ASSUME NEW p \in Peers, NEW x, SessionShape(x, p), NEW b, StageShape(x, p, b),
           HeardIn(x, b) = 0, NEW f, f.body = "begin", IsBegin(f), f.complete,
           f.channel = Channel(Other(p))
    PROVE  \E y : Hearing(x, y, p, f, b)
  <1>1. PICK y : /\ Hears(x, f, y) /\ SessionShape(y, p) /\ StageShape(y, p, b)
                 /\ SaidIn(y, b) = SaidIn(x, b) /\ HeardIn(y, b) = 1
                 /\ LinkIn(y, p) = LinkIn(x, p)
                 /\ y.windows = AfterReceivingBegin(x.windows, f)
    BY HearsBegin
  <1>2. WindowsHeard(y.windows, x.windows, f)
    BY <1>1 DEF WindowsHeard
  <1>3. Effect(Table(LinkIn(x, p)), f) = Table(LinkIn(x, p))
    BY DEF Effect
  <1>4. LinkHeard(LinkIn(y, p), LinkIn(x, p), p, f)
    BY <1>1, <1>3 DEF LinkHeard
  <1> QED
    BY <1>1, <1>2, <1>4 DEF Hearing

\* An end, as it is heard.
LEMMA EndHeard ==
    ASSUME NEW p \in Peers, NEW x, SessionShape(x, p), NEW b, StageShape(x, p, b),
           HeardIn(x, b) = 1, SaidIn(x, b) # 0,
           NEW f, f.body = "end", f.complete, f.channel = Channel(Other(p))
    PROVE  \E y : Hearing(x, y, p, f, b)
  <1>1. PICK y : /\ Hears(x, f, y) /\ SessionShape(y, p) /\ StageShape(y, p, b)
                 /\ SaidIn(y, b) = SaidIn(x, b) /\ HeardIn(y, b) = 2
                 /\ LinkIn(y, p) = LinkIn(x, p) /\ y.windows = x.windows
    BY HearsEnd
  <1>2. WindowsHeard(y.windows, x.windows, f)
    BY <1>1 DEF WindowsHeard
  <1>3. Effect(Table(LinkIn(x, p)), f) = Table(LinkIn(x, p))
    BY DEF Effect
  <1>4. LinkHeard(LinkIn(y, p), LinkIn(x, p), p, f)
    BY <1>1, <1>3 DEF LinkHeard
  <1> QED
    BY <1>1, <1>2, <1>4 DEF Hearing

\* An attach, as it is heard.
LEMMA AttachIsHeard ==
    ASSUME NEW p \in Peers, NEW x, SessionShape(x, p), NEW b, StageShape(x, p, b),
           HeardIn(x, b) = 1,
           NEW f, f.body = "attach", f.complete, f.channel = Channel(Other(p)),
           IsAttach(f, Other(p)), f.handle <= DefaultHandleMax
    PROVE  \E y : Hearing(x, y, p, f, b)
  <1>1. PICK y : /\ Hears(x, f, y) /\ Follows(x, y, p, b) /\ y.windows = x.windows
                 /\ AttachHeard(LinkIn(y, p), LinkIn(x, p), p, f)
    BY HearsAttach
  <1>2. WindowsHeard(y.windows, x.windows, f)
    BY <1>1 DEF WindowsHeard
  <1>3. Effect(Table(LinkIn(x, p)), f) = Renewed(Table(LinkIn(x, p)), f)
    BY DEF Effect
  <1>4. p = "server" => f.role = "sender"
    BY Sides DEF IsAttach
  <1>5. LinkHeard(LinkIn(y, p), LinkIn(x, p), p, f)
    BY <1>1, <1>3, <1>4 DEF LinkHeard, AttachHeard
  <1>6. /\ SessionShape(y, p) /\ StageShape(y, p, b)
        /\ SaidIn(y, b) = SaidIn(x, b) /\ HeardIn(y, b) = HeardIn(x, b)
    BY <1>1 DEF Follows
  <1> QED
    BY <1>1, <1>2, <1>5, <1>6 DEF Hearing

\* A detach, as it is heard by an end that knows the partner's attached.
LEMMA DetachHeard ==
    ASSUME NEW p \in Peers, NEW x, SessionShape(x, p), NEW b, StageShape(x, p, b),
           HeardIn(x, b) = 1, Seen(x, p),
           NEW f, f.body = "detach", f.complete, f.channel = Channel(Other(p)),
           IsDetach(f, Other(p))
    PROVE  \E y : Hearing(x, y, p, f, b)
  <1>1. Speaker(p, FALSE) = Other(p)
    BY DEF Speaker
  <1> DEFINE y == AfterDetach(x, FALSE, f)
  <1>2. Hears(x, f, y)
    BY Reads, StepHears
  <1>3. DetachMoves(x, y, p, FALSE, f)
    BY <1>1, SessionDetaches
  <1> HIDE DEF y
  <1>4. /\ SessionShape(y, p) /\ SameStage(x, y) /\ y.windows = x.windows
        /\ LinkIn(y, p).remote.life = "detached" /\ LinkIn(y, p).local = LinkIn(x, p).local
        /\ LinkIn(y, p).position = LinkIn(x, p).position
        /\ f.error => Table(LinkIn(y, p)) = Cleared(Table(LinkIn(x, p)))
        /\ ~f.error => Table(LinkIn(y, p)) = Table(LinkIn(x, p))
    BY <1>3 DEF DetachMoves, Detached
  <1>5. /\ StageShape(y, p, b)
        /\ SaidIn(y, b) = SaidIn(x, b) /\ HeardIn(y, b) = HeardIn(x, b)
    BY <1>4, StageStays
  <1>6. WindowsHeard(y.windows, x.windows, f)
    BY <1>4 DEF WindowsHeard
  <1>7. Table(LinkIn(y, p)) = Effect(Table(LinkIn(x, p)), f)
    BY <1>4 DEF Effect
  <1>8. LinkHeard(LinkIn(y, p), LinkIn(x, p), p, f)
    BY <1>4, <1>7 DEF LinkHeard
  <1> QED
    BY <1>2, <1>4, <1>5, <1>6, <1>8 DEF Hearing

\* A flow, as it is heard: its count has to be the hearer's own.
LEMMA FlowIsHeard ==
    ASSUME NEW p \in Peers, NEW x, SessionShape(x, p), NEW b, StageShape(x, p, b),
           HeardIn(x, b) = 1,
           NEW f, f.body = "flow", f.complete, f.channel = Channel(Other(p)),
           IsFlow(f, Other(p)),
           f.handle # Unset => /\ Seen(x, p)
                               /\ p = "client" => Up(x, p)
                               /\ LinkIn(x, p).position # Unset => f.count = Count(x, p)
    PROVE  \E y : Hearing(x, y, p, f, b)
  <1> DEFINE l == LinkIn(x, p)
  <1>1. f.nextIncoming # Unset
    BY NotUnset DEF IsFlow
  <1>2. x.peerBegun
    BY Reads
  <1>3. f.handle = Unset => ~CountSet(f) /\ f.credit = Unset /\ ~f.linkFields
    BY DEF IsFlow, CountSet
  <1>4. ASSUME f.handle # Unset
        PROVE  /\ Resolves(x, FALSE, f.handle)
               /\ IdOf(x, FALSE, f.handle) = Id(p) /\ x.links[Id(p)] = l
               /\ CountAgrees(Id(p), l, FALSE, f) /\ EchoAgrees(Id(p), l, FALSE, f)
    <2>1. f.handle = Handle(Other(p)) /\ f.count \in Nat /\ (Other(p) = "client" => f.credit = Unset)
      BY <1>4, Sides DEF IsFlow, IsLinkFlow
    <2>2. Resolves(x, FALSE, f.handle) /\ IdOf(x, FALSE, f.handle) = Id(p) /\ x.links[Id(p)] = l
      BY <1>4, <2>1, Resolving
    <2>3. IssuerOf(Id(p), FALSE) = Role(Other(p))
      BY Sides DEF IssuerOf, Id, Peers
    <2>4. ~ReceiverBeforeSender(Id(p), l, FALSE)
      <3>1. p = "client" => l.local.life = "attached"
        BY <1>4 DEF Up
      <3>2. p # "client" => Role(Other(p)) = "sender"
        BY Sides DEF Peers
      <3> QED
        BY <2>3, <3>1, <3>2 DEF ReceiverBeforeSender, EndpointOf
    <2>5. CountAgrees(Id(p), l, FALSE, f)
      <3>1. f.count # Unset
        BY <2>1, NotUnset
      <3> QED
        BY <1>4, <2>4, <3>1 DEF CountAgrees, Count
    <2>6. EchoAgrees(Id(p), l, FALSE, f)
      BY <2>1, <2>3, Sides DEF EchoAgrees, Peers
    <2> QED
      BY <2>2, <2>5, <2>6
  <1>5. FlowAdmits(x, FALSE, f)
    BY <1>1, <1>2, <1>3, <1>4 DEF FlowAdmits
  <1> DEFINE y == AfterFlow(x, FALSE, f)
  <1>6. Hears(x, f, y)
    BY <1>5, Reads, StepHears
  <1>7. FlowMoves(x, y, p, f)
    BY SessionFlows
  <1> HIDE DEF y, l
  <1>8. /\ SessionShape(y, p) /\ SameStage(x, y)
        /\ y.windows = AfterReceivingFlow(x.windows, f)
        /\ FlowEnds(LinkIn(y, p), LinkIn(x, p), p, f)
    BY <1>7 DEF FlowMoves
  <1>9. /\ StageShape(y, p, b)
        /\ SaidIn(y, b) = SaidIn(x, b) /\ HeardIn(y, b) = HeardIn(x, b)
    BY <1>8, StageStays
  <1>10. WindowsHeard(y.windows, x.windows, f)
    BY <1>8 DEF WindowsHeard
  <1>11. Effect(Table(LinkIn(x, p)), f) = Table(LinkIn(x, p))
    BY DEF Effect
  <1>12. LinkHeard(LinkIn(y, p), LinkIn(x, p), p, f)
    <2>1. CASE f.handle = Unset
      BY <1>8, <1>11, <2>1 DEF FlowEnds, LinkHeard
    <2>2. CASE f.handle # Unset
      <3>1. FlowHeard(LinkIn(y, p), LinkIn(x, p), p, f)
        BY <1>8, <2>2 DEF FlowEnds
      <3>2. p = "client" => GrantHeard(LinkIn(y, p), LinkIn(x, p), f)
        BY <3>1 DEF FlowHeard, GrantHeard
      <3>3. p = "server" => CountHeard(LinkIn(y, p), LinkIn(x, p), f)
        BY <3>1 DEF FlowHeard, CountHeard
      <3>4. /\ LinkIn(y, p).local = LinkIn(x, p).local /\ LinkIn(y, p).remote = LinkIn(x, p).remote
            /\ Table(LinkIn(y, p)) = Table(LinkIn(x, p))
        BY <3>1 DEF FlowHeard
      <3> QED
        BY <1>11, <2>2, <3>2, <3>3, <3>4 DEF LinkHeard
    <2> QED
      BY <2>1, <2>2
  <1> QED
    BY <1>6, <1>8, <1>9, <1>10, <1>12 DEF Hearing

\* A transfer, as the server hears it, with a window open and a table that
\* accepts it.
LEMMA TransferHeard ==
    ASSUME NEW p \in Peers, p = "server", NEW x, SessionShape(x, p), NEW b, StageShape(x, p, b),
           HeardIn(x, b) = 1, Seen(x, p), x.windows.incoming > 0,
           NEW f, f.body = "transfer", f.complete, f.channel = Channel(Other(p)),
           IsTransfer(f), Accepts(Table(LinkIn(x, p)), f)
    PROVE  \E y : Hearing(x, y, p, f, b)
  <1> DEFINE l == LinkIn(x, p)
  <1>1. Speaker(p, FALSE) = "client"
    BY Sides DEF Speaker
  <1>2. WindowOpen(x.windows, FALSE)
    BY DEF WindowOpen
  <1>3. TransferTaken(x, FALSE, f)
    BY <1>1, <1>2, TakenAsks
  <1>4. Continued(l) \/ f.deliveryId # Unset
    BY TableReads DEF Accepts, Identified
  <1> DEFINE y == AfterTransfer(x, FALSE, f)
  <1>5. Hears(x, f, y)
    BY <1>3, Reads, StepHears
  <1>6. TransferMoves(x, y, p, FALSE, f)
    BY <1>1, <1>4, SessionTransfers
  <1> HIDE DEF y
  <1> DEFINE m == LinkIn(y, p)
  <1>7. /\ SessionShape(y, p) /\ SameStage(x, y) /\ y.windows = AfterReceivingTransfer(x.windows)
        /\ m.local = l.local /\ m.remote = l.remote
        /\ Table(m) = Transferred(Table(l), f)
    BY <1>6 DEF TransferMoves, Moved
  <1>8. Counts(m, l)
    BY <1>6 DEF TransferMoves, Moved, PositionAfter, Counts, Continued
  <1>9. /\ StageShape(y, p, b)
        /\ SaidIn(y, b) = SaidIn(x, b) /\ HeardIn(y, b) = HeardIn(x, b)
    BY <1>7, StageStays
  <1>10. WindowsHeard(y.windows, x.windows, f)
    BY <1>7 DEF WindowsHeard
  <1>11. Effect(Table(l), f) = Transferred(Table(l), f)
    BY DEF Effect
  <1>12. LinkHeard(m, l, p, f)
    BY <1>7, <1>8, <1>11 DEF LinkHeard
  <1> QED
    BY <1>5, <1>7, <1>9, <1>10, <1>12 DEF Hearing

-----------------------------------------------------------------------------
(* The frames an application composes. *)

\* The frames an application composes ...
Bodies == {"begin", "end", "attach", "detach", "flow", "transfer"}

\* What holds of a frame by itself.
IsFrameOf(f, q) ==
    /\ f.channel = Channel(q) /\ f.complete
    /\ f.body \in Bodies
    /\ f.body = "begin" => IsBegin(f)
    /\ f.body = "attach" => IsAttach(f, q)
    /\ f.body = "detach" => IsDetach(f, q)
    /\ f.body = "flow" => IsFlow(f, q)
    /\ f.body = "transfer" => q = "client" /\ IsTransfer(f)

\* What it says of the session it is composed from.
Tells(x, p, f) ==
    /\ f.body = "attach" /\ p = "client" => f.initialCount = 0
    /\ f.body = "flow" => /\ f.nextIncoming = x.windows.nextIncoming
                          /\ f.incoming = x.windows.incoming
                          /\ f.nextOutgoing = x.windows.nextOutgoing
                          /\ f.handle # Unset => f.count = Count(x, p)
    /\ f.body = "transfer" => (f.deliveryId # Unset <=> LinkIn(x, p).delivery = Unset)

\* The begins composed.
LEMMA BeginFrames ==
    ASSUME NEW p \in Peers, NEW f \in Begins(p)
    PROVE  IsFrameOf(f, p) /\ Tells(session[p], p, f)
  <1>1. /\ f.body = "begin" /\ f.channel = Channel(p) /\ f.complete
        /\ f.nextOutgoing = FirstId /\ f.incoming = Window /\ f.outgoing = 2 * Window
        /\ f.handleMax = Unset
    BY DEF Begins, Frame
  <1> QED
    BY <1>1 DEF IsFrameOf, Tells, Bodies, IsBegin

\* The ends composed.
LEMMA EndFrames ==
    ASSUME NEW p \in Peers, NEW f \in Ends(p)
    PROVE  IsFrameOf(f, p) /\ Tells(session[p], p, f) /\ f.error \in BOOLEAN
  <1>1. PICK e \in BOOLEAN : f = Frame(p, "end", [error |-> e])
    BY DEF Ends
  <1>2. f.body = "end" /\ f.channel = Channel(p) /\ f.complete /\ f.error = e
    BY <1>1 DEF Frame
  <1> QED
    BY <1>2 DEF IsFrameOf, Tells, Bodies

\* The attaches composed.
LEMMA AttachFrames ==
    ASSUME NEW p \in Peers, NEW f \in Attaches(p), InitialCount = 0
    PROVE  IsFrameOf(f, p) /\ Tells(session[p], p, f)
  <1> DEFINE modes == IF p = "client" THEN Modes ELSE {Unset}
             count == IF p = "client" THEN InitialCount ELSE Unset
  <1>1. PICK mode \in modes : f = Frame(p, "attach",
        [name |-> "link", role |-> Role(p), handle |-> Handle(p), map |-> FALSE,
         nullKey |-> FALSE, initialCount |-> count,
         termini |-> TRUE, settleMode |-> mode, second |-> FALSE, incomplete |-> FALSE,
         coordinator |-> Unset])
    BY DEF Attaches
  <1> HIDE DEF modes
  <1>2. /\ f.body = "attach" /\ f.channel = Channel(p) /\ f.complete
        /\ f.name = "link" /\ f.role = Role(p) /\ f.handle = Handle(p)
        /\ ~f.map /\ ~f.nullKey /\ f.termini /\ f.initialCount = count
        /\ ~f.incomplete /\ f.coordinator = Unset
    BY <1>1 DEF Frame
  <1>3. p = "client" => f.initialCount = 0
    BY <1>2
  <1> QED
    BY <1>2, <1>3 DEF IsFrameOf, Tells, Bodies, IsAttach

\* The detaches composed.
LEMMA DetachFrames ==
    ASSUME NEW p \in Peers, NEW f \in Detaches(p)
    PROVE  IsFrameOf(f, p) /\ Tells(session[p], p, f)
  <1>1. PICK e \in BOOLEAN :
            f = Frame(p, "detach", [handle |-> Handle(p), closed |-> FALSE, error |-> e])
    BY DEF Detaches
  <1>2. /\ f.body = "detach" /\ f.channel = Channel(p) /\ f.complete
        /\ f.handle = Handle(p) /\ ~f.closed /\ f.error = e
    BY <1>1 DEF Frame
  <1>3. IsDetach(f, p)
    BY <1>1, <1>2 DEF IsDetach
  <1> QED
    BY <1>2, <1>3 DEF IsFrameOf, Tells, Bodies

\* The flows composed say of their sender's windows and count what is so.
LEMMA FlowFrames ==
    ASSUME NEW p \in Peers, SessionShape(session[p], p), NEW f \in Flows(p), Disciplined(p, f)
    PROVE  IsFrameOf(f, p) /\ Tells(session[p], p, f)
  <1> DEFINE x == session[p]
             w == x.windows
  <1>1. PICK handle, count, credit :
            /\ f = FlowWith(p, handle, count, credit)
            /\ \/ handle = Unset /\ count = Unset /\ credit = Unset
               \/ /\ handle = Handle(p) /\ count = Position(p).count
                  /\ p = "client" => credit = Unset
                  /\ p = "server" => credit \in Grants
    <2>1. CASE f = FlowWith(p, Unset, Unset, Unset)
      BY <2>1
    <2>2. CASE p = "client" /\ f = FlowWith(p, Handle(p), Position(p).count, Unset)
      BY <2>2
    <2>3. CASE p = "server" /\ \E credit \in Grants :
                                   f = FlowWith(p, Handle(p), Position(p).count, credit)
      BY <2>3
    <2> QED
      BY <2>1, <2>2, <2>3 DEF Flows, Peers
  <1> DEFINE nextIncoming == IF x.peerBegun THEN w.nextIncoming ELSE Unset
  <1>2. f = Frame(p, "flow",
            [nextIncoming |-> nextIncoming,
             incoming |-> w.incoming, nextOutgoing |-> w.nextOutgoing, outgoing |-> w.outgoing,
             handle |-> handle, count |-> count, credit |-> credit, linkFields |-> FALSE])
    BY <1>1 DEF FlowWith
  <1> HIDE DEF nextIncoming, w
  <1>3. /\ f.body = "flow" /\ f.channel = Channel(p) /\ f.complete
        /\ f.nextIncoming = nextIncoming /\ f.incoming = w.incoming
        /\ f.nextOutgoing = w.nextOutgoing /\ f.outgoing = w.outgoing
        /\ f.handle = handle /\ f.count = count /\ f.credit = credit /\ ~f.linkFields
    BY <1>2 DEF Frame
  <1>4. /\ x.peerBegun
        /\ f.handle # Unset => Up(x, p)
    BY <1>3 DEF Disciplined, Local, Link, Up, LinkIn
  <1>5. nextIncoming = w.nextIncoming
    BY <1>4 DEF nextIncoming
  <1>6. w \in Windows
    BY DEF SessionShape, w
  <1>7. {f.nextIncoming, f.nextOutgoing, f.incoming, f.outgoing} \subseteq Nat
    BY <1>3, <1>5, <1>6 DEF Windows
  <1>8. f.handle # Unset => f.count = Count(x, p) /\ f.count \in Nat
    <2>1. ASSUME f.handle # Unset
          PROVE  f.count = Count(x, p) /\ f.count \in Nat
      <3>1. LinkIn(x, p).position \in Positions
        BY <1>4, <2>1, Placing
      <3>2. Position(p) = LinkIn(x, p).position
        BY <3>1, NotUnset DEF Position, Given, Link, LinkIn
      <3>3. count = Position(p).count
        BY <1>1, <1>3, <2>1
      <3> QED
        BY <1>3, <3>1, <3>2, <3>3 DEF Count, Positions
    <2> QED
      BY <2>1
  <1>9. IsFlow(f, p)
    <2>1. CASE f.handle = Unset
      <3>1. Handle(p) # Unset
        BY NotUnset DEF Handle
      <3> QED
        BY <1>1, <1>3, <1>7, <2>1, <3>1 DEF IsFlow
    <2>2. CASE f.handle # Unset
      <3>1. f.handle = Handle(p)
        BY <1>1, <1>3, <2>2
      <3>2. IF p = "server" THEN f.credit \in Nat ELSE f.credit = Unset
        BY <1>1, <1>3, <2>2, PairAssumption DEF Peers
      <3> QED
        BY <1>3, <1>7, <1>8, <2>2, <3>1, <3>2 DEF IsFlow, IsLinkFlow
    <2> QED
      BY <2>1, <2>2
  <1> QED
    BY <1>3, <1>5, <1>8, <1>9 DEF IsFrameOf, Tells, Bodies, w

\* The transfers composed.
LEMMA TransferFrames ==
    ASSUME NEW p \in Peers, SessionShape(session[p], p), NEW f \in Transfers(p)
    PROVE  IsFrameOf(f, p) /\ Tells(session[p], p, f) /\ f.body = "transfer"
  <1> DEFINE l == LinkIn(session[p], p)
  <1>1. p = "client" /\ Link(p) = l
    BY DEF Transfers, Peers, Link, LinkIn
  <1>2. ASSUME NEW id, NEW tag, NEW format, NEW aborts,
               f \in TransferWith(p, id, tag, format, aborts)
        PROVE  /\ f.body = "transfer" /\ f.channel = Channel(p) /\ f.complete
               /\ f.handle = Handle(p) /\ f.deliveryId = id
               /\ f.settled \in {Unset, TRUE} /\ f.resume = FALSE /\ ~f.second /\ f.value = NoValue
    <2>1. PICK s \in {Unset, TRUE}, m \in BOOLEAN, a \in aborts :
            f = Frame(p, "transfer",
                    [handle |-> Handle(p), deliveryId |-> id, tag |-> tag, format |-> format,
                     settled |-> s, aborted |-> a, more |-> m, resume |-> FALSE,
                     second |-> FALSE, value |-> NoValue])
      BY <1>2 DEF TransferWith
    <2> QED
      BY <2>1 DEF Frame
  <1> HIDE DEF l
  <1>3. \E id, tag, format, aborts :
            /\ f \in TransferWith(p, id, tag, format, aborts)
            /\ Continued(l) => id = Unset
            /\ ~Continued(l) => id = l.nextDeliveryId
    BY <1>1 DEF Transfers
  <1>4. l.nextDeliveryId \in Nat
    BY DEF SessionShape, LinkShape, l
  <1>5. /\ f.body = "transfer" /\ f.channel = Channel(p) /\ f.complete
        /\ f.handle = Handle(p)
        /\ f.settled \in {Unset, TRUE} /\ f.resume = FALSE /\ ~f.second /\ f.value = NoValue
        /\ Continued(l) => f.deliveryId = Unset
        /\ ~Continued(l) => f.deliveryId = l.nextDeliveryId
    BY <1>2, <1>3
  <1>7. /\ f.deliveryId \in Optional(Nat)
        /\ f.deliveryId # Unset <=> l.delivery = Unset
    BY <1>4, <1>5, NotUnset DEF Optional, Continued
  <1>8. IsTransfer(f)
    BY <1>1, <1>5, <1>7 DEF IsTransfer
  <1> QED
    BY <1>1, <1>5, <1>7, <1>8 DEF IsFrameOf, Tells, Bodies, l

\* Whatever is composed is a frame of the exchange, and tells the truth.
LEMMA Composing ==
    ASSUME NEW p \in Peers, SessionShape(session[p], p), InitialCount = 0,
           NEW f \in Composed(p), Disciplined(p, f)
    PROVE  /\ IsFrameOf(f, p) /\ Tells(session[p], p, f)
           /\ f \in Ends(p) <=> f.body = "end"
  <1>1. \A g : /\ g \in Begins(p) => g.body = "begin"
               /\ g \in Ends(p) => g.body = "end"
               /\ g \in Attaches(p) => g.body = "attach"
               /\ g \in Detaches(p) => g.body = "detach"
               /\ g \in Flows(p) => g.body = "flow"
    BY DEF Begins, Ends, Attaches, Detaches, Flows, FlowWith, Frame
  <1>2. \A g \in Transfers(p) : g.body = "transfer"
    BY TransferFrames
  <1> QED
    BY <1>1, <1>2, BeginFrames, EndFrames, AttachFrames, DetachFrames, FlowFrames, TransferFrames
    DEF Composed
=============================================================================
