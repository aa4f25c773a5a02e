------------------------ MODULE SessionEndpoint_proofs ------------------------
(***************************************************************************)
(* What holds of a session endpoint for every set of frames, every serial  *)
(* modulus and every window, in three parts.                               *)
(*                                                                         *)
(* Handles and links.  Their association is not inductive alone: a step    *)
(* rewrites records, and the invariant has to say that they are records.   *)
(* Well then adds that the session and its links have the fields the       *)
(* argument reads, and nothing of what the others hold: no frame is        *)
(* assumed to carry values of a type.                                      *)
(*                                                                         *)
(* Deliveries and transactions.  A delivery in progress keeps its number   *)
(* and its settlement, a tag held unsettled keeps the delivery it names,   *)
(* and a retired transaction stays retired.  The second is not so by one   *)
(* step's guard: a continuation writes the table under the tag its first   *)
(* transfer left, unasked.  Coherent is the strengthening: while the tag   *)
(* of the delivery in progress is held, it is held for that delivery.      *)
(*                                                                         *)
(* Types and credit, which ask frames to have fields of the kind they are  *)
(* read as (EndpointAssumption).  CreditWithinGrant is not inductive.  A   *)
(* flow leaves the sender the partner's pair less its own count, so the    *)
(* grant is what is left plus the count only if the flow carried that      *)
(* count; a partner that has heard no attach carries none.  Credited adds  *)
(* why that does no harm: until this end attaches, its count is 0.         *)
(***************************************************************************)
EXTENDS SessionEndpoint, TLAPS

-----------------------------------------------------------------------------
(* Shapes. *)

IsSession(s) ==
    /\ s = [x \in DOMAIN s |-> s[x]]
    /\ {"state", "outgoing", "incoming", "peerBegun", "links", "localHandles",
        "remoteHandles"} \subseteq DOMAIN s

IsLink(l) == {"local", "remote"} \subseteq DOMAIN l

IsRegistry(links) == \A id \in DOMAIN links : IsLink(links[id])

\* Link m stands where l stood: attached, detached or destroyed as it was.
SameLives(m, l) == m.local.life = l.local.life /\ m.remote.life = l.remote.life

Attached(l, out) == EndpointOf(l, out).life = "attached"

\* HandlesAssociate of one end's handles.
Associated(handles, links, out) ==
    /\ \A h \in DOMAIN handles :
           handles[h] \in DOMAIN links /\ Attached(links[handles[h]], out)
    /\ \A id \in DOMAIN links :
           Attached(links[id], out) => \E h \in DOMAIN handles : handles[h] = id
    /\ \A h, k \in DOMAIN handles : handles[h] = handles[k] => h = k

Well(s) ==
    /\ IsSession(s)
    /\ IsRegistry(s.links)
    /\ Associated(s.localHandles, s.links, TRUE)
    /\ Associated(s.remoteHandles, s.links, FALSE)

\* The registry with link l under id.
Put(links, id, l) == [k \in DOMAIN links \cup {id} |-> IF k = id THEN l ELSE links[k]]

-----------------------------------------------------------------------------
(* The registry and one end's handles. *)

\* A registry stays one when a link of a link's shape is put in it.
LEMMA PutIsRegistry ==
    ASSUME NEW links, NEW id, NEW l, IsRegistry(links), IsLink(l)
    PROVE  IsRegistry(Put(links, id, l))
<1>1. DOMAIN Put(links, id, l) = DOMAIN links \cup {id}
    BY DEF Put
<1>2. \A k \in DOMAIN links \cup {id} : IsLink(Put(links, id, l)[k])
    BY DEF Put, IsRegistry
<1> QED BY <1>1, <1>2 DEF IsRegistry

\* Binding a handle that is free, or the link's own, to a link that is now
\* attached keeps the association.
LEMMA AssociateKeeps ==
    ASSUME NEW handles, NEW links, NEW out, NEW h, NEW id, NEW l,
           Associated(handles, links, out),
           h \in DOMAIN handles => handles[h] = id,
           Attached(l, out)
    PROVE  Associated(Associate(handles, h, id), Put(links, id, l), out)
<1> DEFINE after == Associate(handles, h, id)
           put   == Put(links, id, l)
<1>1. DOMAIN after = {h} \cup {g \in DOMAIN handles : handles[g] # id}
    BY DEF Associate
<1>2. \A k \in DOMAIN after : after[k] = IF k = h THEN id ELSE handles[k]
    BY DEF Associate
<1>3. DOMAIN put = DOMAIN links \cup {id}
    BY DEF Put
<1>4. \A k \in DOMAIN put : put[k] = IF k = id THEN l ELSE links[k]
    BY DEF Put
<1>5. \A k \in DOMAIN after : after[k] \in DOMAIN put /\ Attached(put[after[k]], out)
    BY <1>1, <1>2, <1>3, <1>4 DEF Associated
<1>6. \A k \in DOMAIN put : Attached(put[k], out) => \E g \in DOMAIN after : after[g] = k
  <2> SUFFICES ASSUME NEW k \in DOMAIN put, Attached(put[k], out)
               PROVE  \E g \in DOMAIN after : after[g] = k
      OBVIOUS
  <2>1. CASE k = id
      BY <2>1, <1>1, <1>2
  <2>2. CASE k # id
    <3>1. k \in DOMAIN links /\ Attached(links[k], out)
        BY <2>2, <1>3, <1>4
    <3>2. PICK g \in DOMAIN handles : handles[g] = k
        BY <3>1 DEF Associated
    <3>3. g \in DOMAIN after /\ g # h
        BY <3>2, <2>2, <1>1
    <3> QED BY <3>2, <3>3, <1>2
  <2> QED BY <2>1, <2>2
<1>7. \A k, g \in DOMAIN after : after[k] = after[g] => k = g
    BY <1>1, <1>2 DEF Associated
<1> QED BY <1>5, <1>6, <1>7 DEF Associated

\* Releasing every handle of a link that is no longer attached keeps it.
LEMMA ReleaseKeeps ==
    ASSUME NEW handles, NEW links, NEW out, NEW id, NEW l,
           Associated(handles, links, out),
           ~Attached(l, out)
    PROVE  Associated(Release(handles, id), Put(links, id, l), out)
<1> DEFINE after == Release(handles, id)
           put   == Put(links, id, l)
<1>1. DOMAIN after = {g \in DOMAIN handles : handles[g] # id}
    BY DEF Release
<1>2. \A k \in DOMAIN after : after[k] = handles[k]
    BY DEF Release
<1>3. DOMAIN put = DOMAIN links \cup {id}
    BY DEF Put
<1>4. \A k \in DOMAIN put : put[k] = IF k = id THEN l ELSE links[k]
    BY DEF Put
<1>5. \A k \in DOMAIN after : after[k] \in DOMAIN put /\ Attached(put[after[k]], out)
    BY <1>1, <1>2, <1>3, <1>4 DEF Associated
<1>6. \A k \in DOMAIN put : Attached(put[k], out) => \E g \in DOMAIN after : after[g] = k
  <2> SUFFICES ASSUME NEW k \in DOMAIN put, Attached(put[k], out)
               PROVE  \E g \in DOMAIN after : after[g] = k
      OBVIOUS
  <2>1. k # id /\ k \in DOMAIN links /\ Attached(links[k], out)
      BY <1>3, <1>4
  <2>2. PICK g \in DOMAIN handles : handles[g] = k
      BY <2>1 DEF Associated
  <2> QED BY <2>1, <2>2, <1>1, <1>2
<1>7. \A k, g \in DOMAIN after : after[k] = after[g] => k = g
    BY <1>1, <1>2 DEF Associated
<1> QED BY <1>5, <1>6, <1>7 DEF Associated

\* The end that does not move keeps its association when the link put back is
\* attached there exactly if it was; a link nobody held before is not.
LEMMA OtherEndKeeps ==
    ASSUME NEW handles, NEW links, NEW out, NEW id, NEW l,
           Associated(handles, links, out),
           IF id \in DOMAIN links THEN Attached(l, out) <=> Attached(links[id], out)
                                  ELSE ~Attached(l, out)
    PROVE  Associated(handles, Put(links, id, l), out)
<1> DEFINE put == Put(links, id, l)
<1>1. DOMAIN put = DOMAIN links \cup {id}
    BY DEF Put
<1>2. \A k \in DOMAIN put : put[k] = IF k = id THEN l ELSE links[k]
    BY DEF Put
<1>3. \A h \in DOMAIN handles : handles[h] \in DOMAIN put /\ Attached(put[handles[h]], out)
    BY <1>1, <1>2 DEF Associated
<1>4. \A k \in DOMAIN put : Attached(put[k], out) => \E g \in DOMAIN handles : handles[g] = k
    BY <1>1, <1>2 DEF Associated
<1> QED BY <1>3, <1>4 DEF Associated

\* Links rewritten in place, each as attached as it was, keep it.
LEMMA SameLivesKeep ==
    ASSUME NEW handles, NEW links, NEW after, NEW out,
           Associated(handles, links, out),
           DOMAIN after = DOMAIN links,
           \A id \in DOMAIN links : Attached(after[id], out) <=> Attached(links[id], out)
    PROVE  Associated(handles, after, out)
BY DEF Associated

-----------------------------------------------------------------------------
(* What each exchange does to a link. *)

\* A link nobody has attached is a link, with neither end attached.
LEMMA BlankIsLink == IsLink(BlankLink) /\ \A out \in BOOLEAN : ~Attached(BlankLink, out)
BY DEF BlankLink, IsLink, Attached, EndpointOf

\* Forgetting the delivery in progress leaves both ends as they are.
LEMMA NoDeliveryKeeps ==
    ASSUME NEW l, IsLink(l)
    PROVE  IsLink(NoDelivery(l)) /\ NoDelivery(l).local = l.local
                                 /\ NoDelivery(l).remote = l.remote
BY DEF IsLink, NoDelivery

\* So does installing the settle modes.
LEMMA WithModesKeeps ==
    ASSUME NEW l, NEW f, IsLink(l)
    PROVE  IsLink(WithModes(l, f)) /\ WithModes(l, f).local = l.local
                                   /\ WithModes(l, f).remote = l.remote
BY DEF IsLink, WithModes

\* So does making the link a control link.
LEMMA WithControlLinkKeeps ==
    ASSUME NEW l, NEW out, NEW f, IsLink(l)
    PROVE  IsLink(WithControlLink(l, out, f)) /\ WithControlLink(l, out, f).local = l.local
                                              /\ WithControlLink(l, out, f).remote = l.remote
<1>1. CASE f.coordinator = Unset
    BY <1>1 DEF WithControlLink
<1>2. CASE f.coordinator # Unset
    BY <1>2 DEF WithControlLink, IsLink
<1> QED BY <1>1, <1>2

\* An attach attaches its writer's end, and the other end stays.
LEMMA AttachAttaches ==
    ASSUME NEW l, NEW f, IsLink(l)
    PROVE  /\ IsLink(AfterSentAttach(l, f))
           /\ Attached(AfterSentAttach(l, f), TRUE)
           /\ AfterSentAttach(l, f).remote = l.remote
           /\ IsLink(AfterReceivedAttach(l, f))
           /\ Attached(AfterReceivedAttach(l, f), FALSE)
           /\ AfterReceivedAttach(l, f).local = l.local
<1> DEFINE m == NoDelivery(WithModes(l, f))
<1>1. IsLink(m) /\ m.local = l.local /\ m.remote = l.remote
    BY WithModesKeeps, NoDeliveryKeeps
<1> HIDE DEF m
<1>2. AfterSentAttach(l, f) =
          [m EXCEPT !.local      = [life |-> "attached", incomplete |-> f.incomplete],
                    !.position   = FreshPosition(f),
                    !.peerCount  = 0,
                    !.peerCredit = 0]
    BY DEF AfterSentAttach, m
<1>3. AfterReceivedAttach(l, f) =
          [m EXCEPT !.remote    = [life |-> "attached", incomplete |-> f.incomplete],
                    !.peerCount = IF f.role = "sender" THEN f.initialCount ELSE @,
                    !.position  = IF f.role = "sender" \/ @ # Unset THEN @
                                  ELSE FreshPosition(f)]
    BY DEF AfterReceivedAttach, m
<1> QED BY <1>1, <1>2, <1>3 DEF IsLink, Attached, EndpointOf

\* A detach detaches its writer's end, and the other end stays.
LEMMA DetachDetaches ==
    ASSUME NEW l, NEW out \in BOOLEAN, NEW f, IsLink(l)
    PROVE  /\ IsLink(AfterDetachOf(l, out, f))
           /\ ~Attached(AfterDetachOf(l, out, f), out)
           /\ EndpointOf(AfterDetachOf(l, out, f), ~out) = EndpointOf(l, ~out)
<1> DEFINE ended == IF f.error THEN [NoDelivery(l) EXCEPT !.unsettled = <<>>] ELSE l
           gone  == [life |-> IF f.closed THEN "destroyed" ELSE "detached",
                     incomplete |-> FALSE]
           freed == [ended EXCEPT !.peerCount  = 0,
                                  !.peerCredit = 0,
                                  !.transactions = IF @ = Unset THEN @ ELSE RetireAll(@)]
<1>1. IsLink(ended) /\ ended.local = l.local /\ ended.remote = l.remote
    BY NoDeliveryKeeps DEF IsLink
<1> HIDE DEF ended
<1>2. IsLink(freed) /\ freed.local = l.local /\ freed.remote = l.remote
    BY <1>1 DEF IsLink
<1> HIDE DEF freed
<1>3. gone.life # "attached"
    OBVIOUS
<1>4. AfterDetachOf(l, out, f) =
          IF out THEN [freed EXCEPT !.local = gone, !.position = Unset]
                 ELSE [freed EXCEPT !.remote = gone]
    BY DEF AfterDetachOf, freed, ended
<1> HIDE DEF gone
<1>5. CASE out = TRUE
    BY <1>2, <1>3, <1>4, <1>5 DEF IsLink, Attached, EndpointOf
<1>6. CASE out = FALSE
    BY <1>2, <1>3, <1>4, <1>6 DEF IsLink, Attached, EndpointOf
<1> QED BY <1>5, <1>6

\* A flow moves counts and credit.
LEMMA FlowKeepsLink ==
    ASSUME NEW id, NEW l, NEW f, IsLink(l)
    PROVE  IsLink(LinkAfterFlow(id, l, f)) /\ SameLives(LinkAfterFlow(id, l, f), l)
BY DEF LinkAfterFlow, IsLink, SameLives

\* A transaction value moves the transactions of a control link.
LEMMA WithTransactionKeeps ==
    ASSUME NEW l, NEW out, NEW v, IsLink(l)
    PROVE  IsLink(WithTransaction(l, out, v)) /\ SameLives(WithTransaction(l, out, v), l)
BY DEF WithTransaction, IsLink, SameLives

\* A settlement moves the delivery in progress and the unsettled table.
LEMMA SettledByKeeps ==
    ASSUME NEW l, NEW f, IsLink(l)
    PROVE  IsLink(SettledBy(l, f)) /\ SameLives(SettledBy(l, f), l)
<1> DEFINE m == IF l.delivery # Unset /\ InRange(f, l.delivery.id) THEN NoDelivery(l) ELSE l
<1>1. IsLink(m) /\ SameLives(m, l)
    BY NoDeliveryKeeps DEF SameLives
<1> HIDE DEF m
<1>2. SettledBy(l, f) =
          [m EXCEPT !.unsettled = [t \in {u \in DOMAIN @ : ~InRange(f, @[u])} |-> @[t]]]
    BY DEF SettledBy, m
<1> QED BY <1>1, <1>2 DEF IsLink, SameLives

\* A transfer moves the delivery, the position and the unsettled table.
LEMMA TransferKeepsLink ==
    ASSUME NEW l, NEW out, NEW f, IsLink(l)
    PROVE  IsLink(LinkAfterTransfer(l, out, f)) /\ SameLives(LinkAfterTransfer(l, out, f), l)
<1> DEFINE moved == [l EXCEPT !.position  = PositionAfter(l, out),
                              !.unsettled = UnsettledAfter(l, f),
                              !.nextDeliveryId = IF out /\ ~Continued(l)
                                                 THEN DeliveryId(l, f) + 1 ELSE @]
<1>1. IsLink(moved) /\ SameLives(moved, l)
    BY DEF IsLink, SameLives
<1> HIDE DEF moved
<1>2. LinkAfterTransfer(l, out, f) =
          IF ~(f.more /\ ~f.aborted) THEN NoDelivery(moved)
          ELSE [moved EXCEPT !.delivery = DeliveryAfter(l, f),
                             !.tag      = Tag(l, f),
                             !.format   = IF Continued(l) THEN @ ELSE f.format]
    BY DEF LinkAfterTransfer, moved
<1>3. IsLink(NoDelivery(moved)) /\ SameLives(NoDelivery(moved), l)
    BY <1>1, NoDeliveryKeeps DEF SameLives
<1> QED BY <1>1, <1>2, <1>3 DEF IsLink, SameLives

-----------------------------------------------------------------------------
(* What each frame does to the session. *)

\* Windows, labels and channels are not the association's.
LEMMA FieldsKeepWell ==
    ASSUME NEW s, NEW r, Well(s), IsSession(r), r.links = s.links,
           r.localHandles = s.localHandles, r.remoteHandles = s.remoteHandles
    PROVE  Well(r)
BY DEF Well

\* A refusal moves the label at most.
LEMMA RefusalsKeepWell ==
    ASSUME NEW s, NEW out, Well(s)
    PROVE  /\ Well(Admitted(s).session)
           /\ Well(Declined(s).session)
           /\ Well(Closing(s).session)
           /\ Well(Placed(s, out).session)
<1>1. Well([s EXCEPT !.state = "DISCARDING"])
    BY FieldsKeepWell DEF Well, IsSession
<1> QED BY <1>1 DEF Admitted, Declined, Closing, Placed

\* So do a begin and an end: the links of a session outlive its channels.
LEMMA BeginKeepsWell ==
    ASSUME NEW s, NEW out, NEW f, Well(s)
    PROVE  Well(BeginStep(s, out, f).session)
<1>1. Well(AfterBegin(s, out, f))
    BY FieldsKeepWell DEF Well, IsSession, AfterBegin
<1> QED BY <1>1 DEF BeginStep, Admitted, Declined

\* An end moves the label and the channels, and leaves every link where it is.
LEMMA EndKeepsWell ==
    ASSUME NEW s, NEW out, NEW f, Well(s)
    PROVE  Well(AfterEnd(s, out, f))
<1>1. Well(Unmapped(s))
    BY FieldsKeepWell DEF Well, IsSession, Unmapped
<1>2. \A state : Well([s EXCEPT !.state = state, !.outgoing = Unset])
    BY FieldsKeepWell DEF Well, IsSession
<1>3. Well([s EXCEPT !.outgoing = Unset])
    BY FieldsKeepWell DEF Well, IsSession
<1>4. Well([s EXCEPT !.state = "END_RCVD", !.incoming = Unset, !.peerBegun = TRUE])
    BY FieldsKeepWell DEF Well, IsSession
<1> QED BY <1>1, <1>2, <1>3, <1>4 DEF AfterEnd

\* The step that moves one end's handles and puts one link back.
LEMMA MovedEndKeepsWell ==
    ASSUME NEW s, NEW out \in BOOLEAN, NEW handles, NEW id, NEW l, Well(s), IsLink(l),
           Associated(handles, Put(s.links, id, l), out),
           IF id \in DOMAIN s.links THEN Attached(l, ~out) <=> Attached(s.links[id], ~out)
                                    ELSE ~Attached(l, ~out)
    PROVE  Well(PutLink(WithHandles(s, out, handles), id, l))
<1> DEFINE r == PutLink(WithHandles(s, out, handles), id, l)
<1>1. /\ IsSession(r)
      /\ r.links = Put(s.links, id, l)
      /\ r.localHandles  = IF out THEN handles ELSE s.localHandles
      /\ r.remoteHandles = IF out THEN s.remoteHandles ELSE handles
    BY DEF Well, IsSession, PutLink, WithHandles, Put
<1>2. IsRegistry(r.links)
    BY <1>1, PutIsRegistry DEF Well
<1>3. CASE out = TRUE
  <2>1. Associated(s.remoteHandles, Put(s.links, id, l), FALSE)
      BY <1>3, OtherEndKeeps DEF Well
  <2> QED BY <1>1, <1>2, <1>3, <2>1 DEF Well
<1>4. CASE out = FALSE
  <2>1. Associated(s.localHandles, Put(s.links, id, l), TRUE)
      BY <1>4, OtherEndKeeps DEF Well
  <2> QED BY <1>1, <1>2, <1>4, <2>1 DEF Well
<1> QED BY <1>3, <1>4

\* The inductive invariant says of each end's handles that they associate.
LEMMA HandlesAssociated ==
    ASSUME NEW s, NEW out \in BOOLEAN, Well(s)
    PROVE  Associated(Handles(s, out), s.links, out)
BY DEF Well, Handles

\* An attach binds its handle to its link and attaches its writer's end.
LEMMA AttachKeepsWell ==
    ASSUME NEW s, NEW out \in BOOLEAN, NEW f, Well(s)
    PROVE  Well(AttachStep(s, out, f).session)
<1> DEFINE id   == AttachId(out, f)
           base == LinkOrBlank(s, id)
           m    == IF out THEN AfterSentAttach(base, f) ELSE AfterReceivedAttach(base, f)
           l    == WithControlLink(m, out, f)
<1>1. SUFFICES ASSUME HandleFree(s, out, f)
               PROVE  Well(AfterAttach(s, out, f))
    BY RefusalsKeepWell DEF AttachStep, Admitted
<1>2. IsLink(base)
    BY BlankIsLink DEF LinkOrBlank, Well, IsRegistry
<1>3. IsLink(m) /\ Attached(m, out) /\ EndpointOf(m, ~out) = EndpointOf(base, ~out)
  <2> HIDE DEF base
  <2>1. CASE out = TRUE
      BY <1>2, <2>1, AttachAttaches DEF EndpointOf
  <2>2. CASE out = FALSE
      BY <1>2, <2>2, AttachAttaches DEF EndpointOf
  <2> QED BY <2>1, <2>2
<1>4. IsLink(l) /\ Attached(l, out) /\ EndpointOf(l, ~out) = EndpointOf(base, ~out)
  <2> HIDE DEF m, base
  <2> QED BY <1>3, WithControlLinkKeeps DEF Attached, EndpointOf
<1>5. IF id \in DOMAIN s.links THEN Attached(l, ~out) <=> Attached(s.links[id], ~out)
                               ELSE ~Attached(l, ~out)
    BY <1>4, BlankIsLink DEF LinkOrBlank, Attached
<1> HIDE DEF l
<1>6. f.handle \in DOMAIN Handles(s, out) => Handles(s, out)[f.handle] = id
    BY <1>1 DEF HandleFree, IdOf
<1>7. Associated(Associate(Handles(s, out), f.handle, id), Put(s.links, id, l), out)
    BY <1>4, <1>6, HandlesAssociated, AssociateKeeps
<1>8. AfterAttach(s, out, f) =
          PutLink(WithHandles(s, out, Associate(Handles(s, out), f.handle, id)), id, l)
    BY DEF AfterAttach, l
<1> HIDE DEF id
<1> QED BY <1>4, <1>5, <1>7, <1>8, MovedEndKeepsWell

\* A detach releases its link's handle and detaches its writer's end.
LEMMA DetachKeepsWell ==
    ASSUME NEW s, NEW out \in BOOLEAN, NEW f, Well(s)
    PROVE  Well(AfterDetach(s, out, f))
<1> DEFINE id == IdOf(s, out, f.handle)
           l  == AfterDetachOf(s.links[id], out, f)
<1>1. SUFFICES ASSUME Resolves(s, out, f.handle)
               PROVE  Well(PutLink(WithHandles(s, out, Release(Handles(s, out), id)), id, l))
    BY DEF AfterDetach
<1>2. id \in DOMAIN s.links
    BY <1>1 DEF Resolves, IdOf
<1>3. /\ IsLink(l)
      /\ ~Attached(l, out)
      /\ EndpointOf(l, ~out) = EndpointOf(s.links[id], ~out)
    BY <1>2, DetachDetaches DEF Well, IsRegistry
<1> HIDE DEF id, l
<1>4. Associated(Release(Handles(s, out), id), Put(s.links, id, l), out)
    BY <1>3, HandlesAssociated, ReleaseKeeps
<1> QED BY <1>2, <1>3, <1>4, MovedEndKeepsWell DEF Attached

\* A step that rewrites links in place, each as attached as it was.
LEMMA InPlaceKeepsWell ==
    ASSUME NEW s, NEW r, Well(s), IsSession(r),
           r.localHandles = s.localHandles, r.remoteHandles = s.remoteHandles,
           DOMAIN r.links = DOMAIN s.links,
           \A id \in DOMAIN s.links : IsLink(r.links[id]) /\ SameLives(r.links[id], s.links[id])
    PROVE  Well(r)
<1>1. IsRegistry(r.links)
    BY DEF IsRegistry
<1>2. \A id \in DOMAIN s.links, out \in BOOLEAN :
          Attached(r.links[id], out) <=> Attached(s.links[id], out)
    BY DEF SameLives, Attached, EndpointOf
<1>3. Associated(r.localHandles, r.links, TRUE) /\ Associated(r.remoteHandles, r.links, FALSE)
    BY <1>2, SameLivesKeep DEF Well
<1> QED BY <1>1, <1>3 DEF Well

\* The common case: one link put back, and the windows moved.
LEMMA PutInPlaceKeepsWell ==
    ASSUME NEW s, NEW id \in DOMAIN s.links, NEW l, NEW w,
           Well(s), IsLink(l), SameLives(l, s.links[id])
    PROVE  Well([PutLink(s, id, l) EXCEPT !.windows = w])
<1> DEFINE r == [PutLink(s, id, l) EXCEPT !.windows = w]
<1>1. /\ IsSession(r)
      /\ r.localHandles = s.localHandles /\ r.remoteHandles = s.remoteHandles
      /\ r.links = Put(s.links, id, l)
    BY DEF Well, IsSession, PutLink, Put
<1> HIDE DEF r
<1>2. DOMAIN r.links = DOMAIN s.links
    BY <1>1 DEF Put
<1>3. \A k \in DOMAIN s.links : IsLink(r.links[k]) /\ SameLives(r.links[k], s.links[k])
    BY <1>1 DEF Put, Well, IsRegistry, SameLives
<1>4. Well(r)
    BY <1>1, <1>2, <1>3, InPlaceKeepsWell
<1> QED BY <1>4 DEF r

\* A flow puts at most one link back, as attached as it was.
LEMMA FlowKeepsWell ==
    ASSUME NEW s, NEW out \in BOOLEAN, NEW f, Well(s), FlowAdmits(s, out, f)
    PROVE  Well(AfterFlow(s, out, f))
<1> DEFINE id     == IdOf(s, out, f.handle)
           linked == IF f.handle = Unset THEN s
                     ELSE PutLink(s, id, LinkAfterFlow(id, s.links[id], f))
           w      == AfterReceivingFlow(linked.windows, f)
<1>1. CASE out
    BY <1>1 DEF AfterFlow
<1>2. CASE ~out /\ f.handle = Unset
  <2>1. AfterFlow(s, out, f) = [s EXCEPT !.windows = AfterReceivingFlow(@, f)]
      BY <1>2 DEF AfterFlow
  <2> QED BY <2>1, FieldsKeepWell DEF Well, IsSession
<1>3. CASE ~out /\ f.handle # Unset
  <2>1. id \in DOMAIN s.links
      BY <1>3 DEF FlowAdmits, Resolves, IdOf
  <2>2. AfterFlow(s, out, f) =
            [PutLink(s, id, LinkAfterFlow(id, s.links[id], f)) EXCEPT !.windows = w]
      BY <1>3 DEF AfterFlow
  <2> HIDE DEF w
  <2>3. IsLink(s.links[id])
      BY <2>1 DEF Well, IsRegistry
  <2> QED BY <2>1, <2>2, <2>3, FlowKeepsLink, PutInPlaceKeepsWell
<1> QED BY <1>1, <1>2, <1>3

\* A transfer puts one link back, as attached as it was.
LEMMA TransferKeepsWell ==
    ASSUME NEW s, NEW out \in BOOLEAN, NEW f, Well(s), TransferTaken(s, out, f)
    PROVE  Well(AfterTransfer(s, out, f))
<1> DEFINE id    == IdOf(s, out, f.handle)
           l     == s.links[id]
           moved == IF Ignored(l, out, f) THEN l ELSE LinkAfterTransfer(l, out, f)
           m     == WithTransaction(moved, out, f.value)
           w     == IF out THEN AfterSendingTransfer(PutLink(s, id, m).windows)
                           ELSE AfterReceivingTransfer(PutLink(s, id, m).windows)
<1>1. id \in DOMAIN s.links
    BY DEF TransferTaken, Resolves, IdOf
<1>2. IsLink(l)
    BY <1>1 DEF Well, IsRegistry
<1>3. IsLink(moved) /\ SameLives(moved, l)
    BY <1>2, TransferKeepsLink DEF SameLives
<1>4. IsLink(m) /\ SameLives(m, l)
    BY <1>3, WithTransactionKeeps DEF SameLives
<1>5. AfterTransfer(s, out, f) = [PutLink(s, id, m) EXCEPT !.windows = w]
    BY DEF AfterTransfer
<1> HIDE DEF w, m, moved, id
<1>6. Well([PutLink(s, id, m) EXCEPT !.windows = w])
    BY <1>1, <1>4, PutInPlaceKeepsWell
<1> QED BY <1>5, <1>6

\* A disposition rewrites its targets in place.
LEMMA DispositionKeepsWell ==
    ASSUME NEW s, NEW out \in BOOLEAN, NEW f, Well(s)
    PROVE  Well(AfterDisposition(s, out, f))
<1> DEFINE settle(l) == WithTransaction(IF f.settled THEN SettledBy(l, f) ELSE l, out, f.value)
           r == AfterDisposition(s, out, f)
<1>1. /\ IsSession(r)
      /\ r.localHandles = s.localHandles /\ r.remoteHandles = s.remoteHandles
      /\ r.links = [id \in DOMAIN s.links |->
                       IF id \notin Targets(s, f) THEN s.links[id] ELSE settle(s.links[id])]
    BY DEF AfterDisposition, Well, IsSession
<1>2. \A l : IsLink(l) => IsLink(settle(l)) /\ SameLives(settle(l), l)
  <2> SUFFICES ASSUME NEW l, IsLink(l)
               PROVE  IsLink(settle(l)) /\ SameLives(settle(l), l)
      OBVIOUS
  <2> DEFINE m == IF f.settled THEN SettledBy(l, f) ELSE l
  <2>1. IsLink(m) /\ SameLives(m, l)
      BY SettledByKeeps DEF SameLives
  <2> QED BY <2>1, WithTransactionKeeps DEF SameLives
<1> HIDE DEF r, settle
<1>3. \A id \in DOMAIN s.links : IsLink(r.links[id]) /\ SameLives(r.links[id], s.links[id])
    BY <1>1, <1>2 DEF Well, IsRegistry, SameLives
<1>4. DOMAIN r.links = DOMAIN s.links
    BY <1>1
<1>5. Well(r)
    BY <1>1, <1>3, <1>4, InPlaceKeepsWell
<1> QED BY <1>5 DEF r

-----------------------------------------------------------------------------
(* The session's step. *)

\* No frame, offered or arriving, undoes the association.
LEMMA StepKeepsWell ==
    ASSUME NEW s, NEW out \in BOOLEAN, NEW f, f.body \in Bodies, Well(s)
    PROVE  Well(SessionStep(s, out, f).session)
<1>1. CASE f.body = "begin"
    BY <1>1, BeginKeepsWell, RefusalsKeepWell DEF SessionStep
<1>2. CASE f.body = "end"
    BY <1>2, EndKeepsWell, RefusalsKeepWell DEF SessionStep, Admitted
<1>3. CASE f.body = "attach"
    BY <1>3, AttachKeepsWell, RefusalsKeepWell DEF SessionStep
<1>4. CASE f.body = "detach"
    BY <1>4, DetachKeepsWell, RefusalsKeepWell DEF SessionStep, Admitted
<1>5. CASE f.body = "flow"
    BY <1>5, FlowKeepsWell, RefusalsKeepWell DEF SessionStep, Judged, Admitted
<1>6. CASE f.body = "disposition"
    BY <1>6, DispositionKeepsWell, RefusalsKeepWell DEF SessionStep, Judged, Admitted
<1>7. CASE f.body = "transfer"
    BY <1>7, TransferKeepsWell, RefusalsKeepWell DEF SessionStep, Judged, Admitted
<1> QED BY <1>1, <1>2, <1>3, <1>4, <1>5, <1>6, <1>7 DEF Bodies

\* A step of the endpoint is a step of the session by one of the frames.
LEMMA NextIsAStep ==
    ASSUME Next
    PROVE  \E out \in BOOLEAN, f \in Sends \cup Receives :
               /\ f.body \in Bodies /\ f.channel \in Nat
               /\ session' = SessionStep(session, out, f).session
BY EndpointAssumption
   DEF IsFrame, Next, Begin, End, Attach, Flow, Transfer, Disposition, Detach, Offered, Offer

\* A session starts with no link and no handle.
LEMMA StartIsWell == Init => Well(session)
BY DEF Init, StartSession, Well, IsSession, IsRegistry, Associated

\* The inductive invariant, of every behaviour.
THEOREM WellAlways == Spec => []Well(session)
<1>1. Init => Well(session)
    BY StartIsWell
<1>2. Well(session) /\ [Next]_vars => Well(session)'
  <2> SUFFICES ASSUME Well(session), [Next]_vars PROVE Well(session')
      OBVIOUS
  <2>1. CASE Next
      BY <2>1, NextIsAStep, StepKeepsWell
  <2>2. CASE UNCHANGED vars
      BY <2>2 DEF vars
  <2> QED BY <2>1, <2>2
<1> QED BY <1>1, <1>2, PTL DEF Spec

\* A handle names a link whose endpoint is attached, an attached endpoint has a
\* handle, and no two handles of one end name one link: HandlesResolveLinks of
\* WidenedState.lean, whatever attaches, detaches and ends follow each other.
THEOREM HandlesAlwaysAssociate == Spec => []HandlesAssociate
<1>1. Well(session) => HandlesAssociate
    BY DEF Well, HandlesAssociate, Associated, Attached, Handles
<1> QED BY <1>1, WellAlways, PTL

-----------------------------------------------------------------------------
(* Labels and channels. *)

Told(s) ==
    /\ s.state \in SessionStates
    /\ s.incoming # Unset <=> s.peerBegun /\ s.state # "END_RCVD"
    /\ s.state \in {"BEGIN_RCVD", "MAPPED", "END_RCVD"} => s.peerBegun
    /\ s.state \in {"UNMAPPED", "BEGIN_SENT"} => ~s.peerBegun
    /\ s.state \in {"BEGIN_SENT", "MAPPED"} => s.outgoing # Unset
    /\ s.outgoing # Unset => s.state \in {"BEGIN_SENT", "MAPPED", "END_RCVD", "DISCARDING"}

SameChannels(r, s) ==
    /\ r.state = s.state /\ r.peerBegun = s.peerBegun
    /\ r.outgoing = s.outgoing /\ r.incoming = s.incoming

\* Only a begin, an end and a refused receive move the label or the channels.
LEMMA LinksKeepChannels ==
    ASSUME NEW s, NEW out \in BOOLEAN, NEW f, IsSession(s)
    PROVE  /\ SameChannels(AfterAttach(s, out, f), s)
           /\ SameChannels(AfterDetach(s, out, f), s)
           /\ SameChannels(AfterFlow(s, out, f), s)
           /\ SameChannels(AfterTransfer(s, out, f), s)
           /\ SameChannels(AfterDisposition(s, out, f), s)
<1>1. \A handles, id, l : SameChannels(PutLink(WithHandles(s, out, handles), id, l), s)
    BY DEF PutLink, WithHandles, SameChannels, IsSession
<1>2. \A id, l, w : SameChannels([PutLink(s, id, l) EXCEPT !.windows = w], s)
    BY DEF PutLink, SameChannels, IsSession
<1>3. \A w : SameChannels([s EXCEPT !.windows = w], s)
    BY DEF SameChannels, IsSession
<1>4. \A links : SameChannels([s EXCEPT !.links = links], s)
    BY DEF SameChannels, IsSession
<1>5. SameChannels(s, s)
    BY DEF SameChannels
<1>6. SameChannels(AfterAttach(s, out, f), s)
    BY <1>1 DEF AfterAttach
<1>7. SameChannels(AfterDetach(s, out, f), s)
    BY <1>1, <1>5 DEF AfterDetach
<1>8. SameChannels(AfterFlow(s, out, f), s)
    BY <1>2, <1>3, <1>5 DEF AfterFlow
<1>9. SameChannels(AfterTransfer(s, out, f), s)
    BY <1>2 DEF AfterTransfer
<1>10. SameChannels(AfterDisposition(s, out, f), s)
    BY <1>4 DEF AfterDisposition
<1> QED BY <1>6, <1>7, <1>8, <1>9, <1>10

\* A frame that is read passed the gate's channel check.
LEMMA StepKeepsTold ==
    ASSUME NEW s, NEW out \in BOOLEAN, NEW f, f.body \in Bodies, f.channel \in Nat,
           IsSession(s), Told(s)
    PROVE  Told(SessionStep(s, out, f).session)
<1>1. Told(Admitted(s).session) /\ Told(Declined(s).session) /\ Told(Closing(s).session)
    BY DEF Admitted, Declined, Closing
<1>2. Told(Placed(s, out).session)
    BY DEF Placed, Declined, Told, IsSession, MayReceive, MaySend, SessionStates
<1>3. ASSUME NEW r, SameChannels(r, s) PROVE Told(Admitted(r).session)
    BY <1>3 DEF Admitted, Told, SameChannels
<1>4. CASE f.body = "begin"
  <2>1. Told(BeginStep(s, out, f).session)
    <3>1. CASE ~BeginAdmits(s, out, f)
        BY <3>1, <1>1 DEF BeginStep
    <3>2. CASE BeginAdmits(s, out, f) /\ out
        BY <3>2, SessionAssumption
           DEF BeginStep, BeginAdmits, AfterBegin, Admitted, Told, IsSession, MaySend,
               MayReceive, SessionStates
    <3>3. CASE BeginAdmits(s, out, f) /\ ~out
        BY <3>3, SessionAssumption
           DEF BeginStep, BeginAdmits, AfterBegin, Admitted, Told, IsSession, MaySend,
               MayReceive, SessionStates
    <3> QED BY <3>1, <3>2, <3>3
  <2> QED BY <1>1, <1>2, <1>4, <2>1 DEF SessionStep
<1>5. CASE f.body = "end"
  <2>1. ASSUME OnChannel(s, out, f), Permitted(s, out, f)
        PROVE  Told(AfterEnd(s, out, f))
    <3>1. CASE out
        BY <1>5, <2>1, <3>1, SessionAssumption
           DEF Permitted, OnChannel, AfterEnd, Unmapped, Told, IsSession, MaySend,
               MayReceive, SessionStates
    <3>2. CASE ~out
        BY <1>5, <2>1, <3>2, SessionAssumption
           DEF Permitted, OnChannel, AfterEnd, Unmapped, Told, IsSession, MaySend,
               MayReceive, SessionStates
    <3> QED BY <3>1, <3>2
  <2> QED BY <1>1, <1>2, <1>5, <2>1 DEF SessionStep, Admitted
<1>6. CASE f.body \in {"attach", "detach", "flow", "disposition", "transfer"}
  <2>1. /\ Told(Admitted(AfterAttach(s, out, f)).session)
        /\ Told(Admitted(AfterDetach(s, out, f)).session)
        /\ Told(Admitted(AfterFlow(s, out, f)).session)
        /\ Told(Admitted(AfterTransfer(s, out, f)).session)
        /\ Told(Admitted(AfterDisposition(s, out, f)).session)
      BY <1>3, LinksKeepChannels
  <2> QED BY <1>1, <1>2, <1>6, <2>1 DEF SessionStep, AttachStep, Judged
<1> QED BY <1>4, <1>5, <1>6 DEF Bodies

\* The incoming entry is there from the partner's begin to its end, the outgoing
\* number only in the states that may have one and always in BEGIN_SENT and
\* MAPPED, however the session came to its state (Session.afterEnd, stepBegin,
\* placed).
THEOREM LabelsTellChannels == Spec => []StateTellsChannels
<1>1. Init => Told(session)
    BY SessionAssumption DEF Init, StartSession, Told, SessionStates, MaySend, MayReceive
<1>2. Well(session) /\ Told(session) /\ [Next]_vars => Told(session)'
  <2> SUFFICES ASSUME Well(session), Told(session), [Next]_vars PROVE Told(session')
      OBVIOUS
  <2>1. CASE Next
      BY <2>1, NextIsAStep, StepKeepsTold DEF Well
  <2>2. CASE UNCHANGED vars
      BY <2>2 DEF vars
  <2> QED BY <2>1, <2>2
<1>3. Told(session) => StateTellsChannels
    BY DEF Told, StateTellsChannels
<1> QED BY <1>1, <1>2, <1>3, WellAlways, PTL DEF Spec

-----------------------------------------------------------------------------
(* Discarding. *)

\* A session that discards moves by its partner's end alone.
LEMMA DiscardingStep ==
    ASSUME NEW s, NEW out \in BOOLEAN, NEW f, IsSession(s), s.state = "DISCARDING"
    PROVE  LET r == SessionStep(s, out, f).session
           IN  r = s \/ r.state = "UNMAPPED"
<1>1. [s EXCEPT !.state = "DISCARDING"] = s
    BY DEF IsSession
<1>2. Admitted(s).session = s /\ Declined(s).session = s /\ Placed(s, out).session = s
    BY <1>1 DEF Admitted, Declined, Placed
<1>3. CASE f.body = "begin"
    BY <1>2, <1>3 DEF SessionStep, BeginStep, BeginAdmits
<1>4. CASE f.body # "begin" /\ out
    BY <1>2, <1>4 DEF SessionStep, Permitted, MaySend
<1>5. CASE f.body = "end" /\ ~out
  <2>1. Admitted(AfterEnd(s, out, f)).session.state = "UNMAPPED"
      BY <1>5 DEF Admitted, AfterEnd, Unmapped, IsSession
  <2> QED BY <1>2, <1>5, <2>1 DEF SessionStep
<1>6. CASE f.body \notin {"begin", "end"} /\ ~out
    BY <1>2, <1>6 DEF SessionStep, FrameDiscarded
<1> QED BY <1>3, <1>4, <1>5, <1>6

\* A session that answered an error hears nothing but its partner's end, and
\* says nothing (frameDiscarded, maySend).
THEOREM DiscardingStaysFrozen == Spec => DiscardingIsFrozen
<1>1. Well(session) /\ [Next]_vars =>
          [session.state = "DISCARDING" =>
               session' = session \/ session'.state = "UNMAPPED"]_vars
  <2> SUFFICES ASSUME Well(session), Next, session.state = "DISCARDING"
               PROVE  session' = session \/ session'.state = "UNMAPPED"
      BY DEF vars
  <2> QED BY NextIsAStep, DiscardingStep DEF Well
<1> QED BY <1>1, WellAlways, PTL DEF Spec, DiscardingIsFrozen

-----------------------------------------------------------------------------
(* What a frame does to the registry. *)

\* A frame that is taken passed its exchange's checks.
Taken(s, out, f) ==
    /\ f.complete
    /\ f.body = "attach"      => HandleFree(s, out, f) /\ AttachAdmits(s, out, f)
    /\ f.body = "flow"        => FlowAdmits(s, out, f)
    /\ f.body = "transfer"    => TransferTaken(s, out, f)
    /\ f.body = "disposition" => DispositionAdmits(s, out, f)

\* Frame f names link id, and moves it if it is taken.
Concerns(s, out, f, id) ==
    \/ f.body = "attach" /\ id = AttachId(out, f)
    \/ f.body = "detach" /\ Resolves(s, out, f.handle) /\ id = IdOf(s, out, f.handle)
    \/ f.body = "flow" /\ ~out /\ f.handle # Unset /\ id = IdOf(s, out, f.handle)
    \/ f.body = "transfer" /\ id = IdOf(s, out, f.handle)
    \/ f.body = "disposition" /\ id \in Targets(s, f)

\* What it makes of link l, filed under id.
LinkAfter(id, l, out, f) ==
    CASE f.body = "attach" ->
           WithControlLink(IF out THEN AfterSentAttach(l, f) ELSE AfterReceivedAttach(l, f),
                           out, f)
      [] f.body = "detach" -> AfterDetachOf(l, out, f)
      [] f.body = "flow"   -> LinkAfterFlow(id, l, f)
      [] f.body = "transfer" ->
           WithTransaction(IF Ignored(l, out, f) THEN l ELSE LinkAfterTransfer(l, out, f),
                           out, f.value)
      [] f.body = "disposition" ->
           WithTransaction(IF f.settled THEN SettledBy(l, f) ELSE l, out, f.value)


\* The registry `links' is the one after a frame that was taken.
IsAfter(links, s, out, f) ==
    /\ DOMAIN links = DOMAIN s.links \cup (IF f.body = "attach" THEN {AttachId(out, f)} ELSE {})
    /\ \A id \in DOMAIN links :
           links[id] = IF Concerns(s, out, f, id)
                       THEN LinkAfter(id, LinkOrBlank(s, id), out, f)
                       ELSE s.links[id]

\* A frame is refused or discarded, and no link moves, or it is taken.
Moves(r, s, out, f) ==
    \/ r.session.links = s.links /\ (~r.ok \/ FrameDiscarded(s, out, f))
    \/ /\ r.ok /\ ~FrameDiscarded(s, out, f)
       /\ Taken(s, out, f)
       /\ IsAfter(r.session.links, s, out, f)

\* A refusal leaves the registry alone.
LEMMA RefusalsMove ==
    ASSUME NEW s, NEW out, NEW f, IsSession(s)
    PROVE  /\ Moves(Declined(s), s, out, f)
           /\ Moves(Closing(s), s, out, f)
           /\ Moves(Placed(s, out), s, out, f)
BY DEF Moves, Declined, Closing, Placed, IsSession

\* A frame that is taken moves the links it concerns, and no other.
LEMMA TakenMoves ==
    ASSUME NEW s, NEW out, NEW f, NEW r, Taken(s, out, f), ~FrameDiscarded(s, out, f),
           IsAfter(r.links, s, out, f)
    PROVE  Moves(Admitted(r), s, out, f)
BY DEF Moves, Admitted

\* One link put in the registry.
LEMMA PutIsAfter ==
    ASSUME NEW s, NEW out, NEW f, NEW id, NEW links,
           IF f.body = "attach" THEN id = AttachId(out, f) ELSE id \in DOMAIN s.links,
           \A k : Concerns(s, out, f, k) <=> k = id,
           links = Put(s.links, id, LinkAfter(id, LinkOrBlank(s, id), out, f))
    PROVE  IsAfter(links, s, out, f)
BY DEF IsAfter, Put

\* Every frame moves the registry as LinkAfter says, or not at all.
LEMMA StepMoves ==
    ASSUME NEW s, NEW out \in BOOLEAN, NEW f, f.body \in Bodies, IsSession(s)
    PROVE  Moves(SessionStep(s, out, f), s, out, f)
<1> DEFINE free == ~FrameDiscarded(s, out, f) /\ f.complete
           id   == IdOf(s, out, f.handle)
<1>1. ASSUME FrameDiscarded(s, out, f)
      PROVE  Moves(SessionStep(s, out, f), s, out, f)
    BY <1>1 DEF SessionStep, Moves, Admitted
<1>2. CASE f.body = "begin"
  <2>1. IsAfter(s.links, s, out, f)
      BY <1>2 DEF IsAfter, Concerns
  <2>2. AfterBegin(s, out, f).links = s.links
      BY DEF AfterBegin, IsSession
  <2>3. ASSUME free PROVE Moves(BeginStep(s, out, f), s, out, f)
      BY <1>2, <2>1, <2>2, <2>3, TakenMoves, RefusalsMove DEF BeginStep, Taken
  <2> QED BY <1>1, <1>2, <2>3, RefusalsMove DEF SessionStep
<1>3. CASE f.body = "end"
  <2>1. IsAfter(s.links, s, out, f)
      BY <1>3 DEF IsAfter, Concerns
  <2>2. AfterEnd(s, out, f).links = s.links
      BY DEF AfterEnd, Unmapped, IsSession
  <2>3. ASSUME free PROVE Moves(Admitted(AfterEnd(s, out, f)), s, out, f)
      BY <1>3, <2>1, <2>2, <2>3, TakenMoves DEF Taken
  <2> QED BY <1>1, <1>3, <2>3, RefusalsMove DEF SessionStep
<1>4. CASE f.body = "attach"
  <2> DEFINE k == AttachId(out, f)
             l == LinkAfter(k, LinkOrBlank(s, k), out, f)
  <2>1. AfterAttach(s, out, f).links = Put(s.links, k, l)
      BY <1>4 DEF AfterAttach, PutLink, WithHandles, Put, IsSession, LinkAfter
  <2>2. IsAfter(AfterAttach(s, out, f).links, s, out, f)
      BY <1>4, <2>1, PutIsAfter DEF Concerns
  <2>3. ASSUME free PROVE Moves(AttachStep(s, out, f), s, out, f)
      BY <1>4, <2>2, <2>3, TakenMoves, RefusalsMove DEF AttachStep, Taken
  <2> QED BY <1>1, <1>4, <2>3, RefusalsMove DEF SessionStep
<1>5. CASE f.body = "detach"
  <2>1. IsAfter(AfterDetach(s, out, f).links, s, out, f)
    <3>1. CASE ~Resolves(s, out, f.handle)
        BY <1>5, <3>1 DEF AfterDetach, IsAfter, Concerns
    <3>2. CASE Resolves(s, out, f.handle)
      <4>1. id \in DOMAIN s.links
          BY <3>2 DEF Resolves, IdOf
      <4>2. AfterDetach(s, out, f).links =
                Put(s.links, id, LinkAfter(id, LinkOrBlank(s, id), out, f))
          BY <1>5, <3>2, <4>1
             DEF AfterDetach, PutLink, WithHandles, Put, IsSession, LinkAfter, LinkOrBlank
      <4> QED BY <1>5, <3>2, <4>1, <4>2, PutIsAfter DEF Concerns
    <3> QED BY <3>1, <3>2
  <2>2. ASSUME free PROVE Moves(Admitted(AfterDetach(s, out, f)), s, out, f)
      BY <1>5, <2>1, <2>2, TakenMoves DEF Taken
  <2> QED BY <1>1, <1>5, <2>2, RefusalsMove DEF SessionStep
<1>6. CASE f.body = "flow"
  <2>1. ASSUME FlowAdmits(s, out, f) PROVE IsAfter(AfterFlow(s, out, f).links, s, out, f)
    <3>1. CASE out \/ f.handle = Unset
      <4>1. AfterFlow(s, out, f).links = s.links
          BY <3>1 DEF AfterFlow, IsSession
      <4> QED BY <1>6, <3>1, <4>1 DEF IsAfter, Concerns
    <3>2. CASE ~out /\ f.handle # Unset
      <4>1. id \in DOMAIN s.links
          BY <2>1, <3>2 DEF FlowAdmits, Resolves, IdOf
      <4>2. AfterFlow(s, out, f).links =
                Put(s.links, id, LinkAfter(id, LinkOrBlank(s, id), out, f))
          BY <1>6, <3>2, <4>1
             DEF AfterFlow, PutLink, Put, IsSession, LinkAfter, LinkOrBlank
      <4> QED BY <1>6, <3>2, <4>1, <4>2, PutIsAfter DEF Concerns
    <3> QED BY <3>1, <3>2
  <2>2. ASSUME free
        PROVE  Moves(Judged(s, out, FlowAdmits(s, out, f), AfterFlow(s, out, f)), s, out, f)
      BY <1>6, <2>1, <2>2, TakenMoves, RefusalsMove DEF Judged, Taken
  <2> QED BY <1>1, <1>6, <2>2, RefusalsMove DEF SessionStep
<1>7. CASE f.body = "disposition"
  <2>1. AfterDisposition(s, out, f).links =
            [k \in DOMAIN s.links |->
                IF k \notin Targets(s, f) THEN s.links[k]
                ELSE LinkAfter(k, LinkOrBlank(s, k), out, f)]
      BY <1>7 DEF AfterDisposition, IsSession, LinkAfter, LinkOrBlank
  <2>2. \A k : Concerns(s, out, f, k) <=> k \in Targets(s, f)
      BY <1>7 DEF Concerns
  <2>3. IsAfter(AfterDisposition(s, out, f).links, s, out, f)
      BY <1>7, <2>1, <2>2 DEF IsAfter
  <2>4. ASSUME free
        PROVE  Moves(Judged(s, out, DispositionAdmits(s, out, f),
                            AfterDisposition(s, out, f)), s, out, f)
      BY <1>7, <2>3, <2>4, TakenMoves, RefusalsMove DEF Judged, Taken
  <2> QED BY <1>1, <1>7, <2>4, RefusalsMove DEF SessionStep
<1>8. CASE f.body = "transfer"
  <2>1. ASSUME TransferTaken(s, out, f)
        PROVE  IsAfter(AfterTransfer(s, out, f).links, s, out, f)
    <3>1. id \in DOMAIN s.links
        BY <2>1 DEF TransferTaken, Resolves, IdOf
    <3>2. AfterTransfer(s, out, f).links =
              Put(s.links, id, LinkAfter(id, LinkOrBlank(s, id), out, f))
        BY <1>8, <3>1 DEF AfterTransfer, PutLink, Put, IsSession, LinkAfter, LinkOrBlank
    <3> QED BY <1>8, <3>1, <3>2, PutIsAfter DEF Concerns
  <2>2. ASSUME free
        PROVE  Moves(Judged(s, out, TransferTaken(s, out, f), AfterTransfer(s, out, f)),
                     s, out, f)
      BY <1>8, <2>1, <2>2, TakenMoves, RefusalsMove DEF Judged, Taken
  <2> QED BY <1>1, <1>8, <2>2, RefusalsMove DEF SessionStep
<1> QED BY <1>2, <1>3, <1>4, <1>5, <1>6, <1>7, <1>8 DEF Bodies

-----------------------------------------------------------------------------
(* The delivery in progress and the unsettled table. *)

Coherent(l) ==
    /\ {"position", "peerCount", "peerCredit", "delivery", "tag", "format", "unsettled",
        "transactions", "local", "remote", "nextDeliveryId"} \subseteq DOMAIN l
    /\ l.delivery # Unset => {"id", "settled"} \subseteq DOMAIN l.delivery
    /\ l.delivery # Unset /\ l.tag \in DOMAIN l.unsettled =>
           l.unsettled[l.tag] = l.delivery.id

\* Link m may come after link l.
Follows(m, l) ==
    /\ Coherent(m)
    /\ l.delivery # Unset /\ m.delivery # Unset =>
           /\ m.delivery.id = l.delivery.id
           /\ l.delivery.settled => m.delivery.settled
    /\ \A t \in DOMAIN l.unsettled \cap DOMAIN m.unsettled : m.unsettled[t] = l.unsettled[t]

\* Link m holds what l held, and differs in other fields.
SameDelivery(m, l) ==
    m.delivery = l.delivery /\ m.tag = l.tag /\ m.unsettled = l.unsettled

-----------------------------------------------------------------------------
(* What each exchange does to a link. *)

\* A link nobody has attached holds nothing.
LEMMA BlankIsCoherent == Coherent(BlankLink)
BY DEF BlankLink, Coherent

\* A link whose delivery and table are as they were follows itself.
LEMMA SameDeliveryFollows ==
    ASSUME NEW l, NEW m, Coherent(l), SameDelivery(m, l), DOMAIN m = DOMAIN l
    PROVE  Follows(m, l)
BY DEF Coherent, SameDelivery, Follows

\* Nothing happened to a link that is as it was.
LEMMA FollowsItself ==
    ASSUME NEW l, Coherent(l)
    PROVE  Follows(l, l)
BY DEF Follows

\* A link that differs from a follower in other fields follows too.
LEMMA TransitivelySame ==
    ASSUME NEW l, NEW n, NEW m, Follows(n, l), SameDelivery(m, n), DOMAIN m = DOMAIN n
    PROVE  Follows(m, l)
BY DEF Follows, SameDelivery, Coherent

\* Forgetting the delivery in progress.
LEMMA NoDeliveryFollows ==
    ASSUME NEW l, Coherent(l)
    PROVE  /\ Coherent(NoDelivery(l))
           /\ NoDelivery(l).delivery = Unset
           /\ NoDelivery(l).unsettled = l.unsettled
           /\ DOMAIN NoDelivery(l) = DOMAIN l
BY DEF NoDelivery, Coherent

\* The settle modes are not the delivery's.
LEMMA WithModesFollows ==
    ASSUME NEW l, NEW f, Coherent(l)
    PROVE  /\ Coherent(WithModes(l, f))
           /\ SameDelivery(WithModes(l, f), l)
           /\ DOMAIN WithModes(l, f) = DOMAIN l
BY DEF WithModes, Coherent, SameDelivery

\* Nor are the transactions of a control link.
LEMMA WithControlLinkFollows ==
    ASSUME NEW l, NEW out, NEW f, Coherent(l)
    PROVE  /\ SameDelivery(WithControlLink(l, out, f), l)
           /\ DOMAIN WithControlLink(l, out, f) = DOMAIN l
<1>1. CASE f.coordinator = Unset
    BY <1>1 DEF WithControlLink, SameDelivery
<1>2. CASE f.coordinator # Unset
    BY <1>2 DEF WithControlLink, SameDelivery, Coherent
<1> QED BY <1>1, <1>2

\* An attach forgets the delivery in progress and keeps the table.
LEMMA AttachFollows ==
    ASSUME NEW l, NEW out, NEW f, Coherent(l)
    PROVE  LET m == WithControlLink(IF out THEN AfterSentAttach(l, f)
                                           ELSE AfterReceivedAttach(l, f), out, f)
           IN  Follows(m, l)
<1> DEFINE n == NoDelivery(WithModes(l, f))
           a == IF out THEN AfterSentAttach(l, f) ELSE AfterReceivedAttach(l, f)
           m == WithControlLink(a, out, f)
<1>1. Coherent(n) /\ n.delivery = Unset /\ n.unsettled = l.unsettled
    BY WithModesFollows, NoDeliveryFollows DEF SameDelivery
<1> HIDE DEF n
<1>2. AfterSentAttach(l, f) =
          [n EXCEPT !.local      = [life |-> "attached", incomplete |-> f.incomplete],
                    !.position   = FreshPosition(f),
                    !.peerCount  = 0,
                    !.peerCredit = 0]
    BY DEF AfterSentAttach, n
<1>3. AfterReceivedAttach(l, f) =
          [n EXCEPT !.remote    = [life |-> "attached", incomplete |-> f.incomplete],
                    !.peerCount = IF f.role = "sender" THEN f.initialCount ELSE @,
                    !.position  = IF f.role = "sender" \/ @ # Unset THEN @
                                  ELSE FreshPosition(f)]
    BY DEF AfterReceivedAttach, n
<1>4. a.delivery = Unset /\ a.unsettled = l.unsettled /\ DOMAIN a = DOMAIN n
    BY <1>1, <1>2, <1>3 DEF Coherent
<1>5. Coherent(a)
    BY <1>1, <1>4 DEF Coherent
<1> HIDE DEF a
<1>6. m.delivery = Unset /\ m.unsettled = l.unsettled /\ DOMAIN m = DOMAIN n
    BY <1>4, <1>5, WithControlLinkFollows DEF SameDelivery
<1>7. Follows(m, l)
    BY <1>1, <1>6 DEF Follows, Coherent
<1> QED BY <1>7 DEF a

\* A detach with an error empties the table; one without keeps it, and the
\* delivery in progress with it.
LEMMA DetachFollows ==
    ASSUME NEW l, NEW out, NEW f, Coherent(l)
    PROVE  Follows(AfterDetachOf(l, out, f), l)
<1> DEFINE ended == IF f.error THEN [NoDelivery(l) EXCEPT !.unsettled = <<>>] ELSE l
           gone  == [life |-> IF f.closed THEN "destroyed" ELSE "detached",
                     incomplete |-> FALSE]
           freed == [ended EXCEPT !.peerCount  = 0,
                                  !.peerCredit = 0,
                                  !.transactions = IF @ = Unset THEN @ ELSE RetireAll(@)]
           m     == AfterDetachOf(l, out, f)
<1>1. CASE f.error
  <2>1. ended.delivery = Unset /\ ended.unsettled = <<>> /\ DOMAIN ended = DOMAIN l
      BY <1>1, NoDeliveryFollows DEF Coherent
  <2> HIDE DEF ended
  <2>2. freed.delivery = Unset /\ freed.unsettled = <<>> /\ DOMAIN freed = DOMAIN l
      BY <2>1 DEF Coherent
  <2> HIDE DEF freed
  <2>3. m = IF out THEN [freed EXCEPT !.local = gone, !.position = Unset]
                   ELSE [freed EXCEPT !.remote = gone]
      BY DEF AfterDetachOf, freed, ended
  <2>4. m.delivery = Unset /\ m.unsettled = <<>> /\ DOMAIN m = DOMAIN l
      BY <2>2, <2>3 DEF Coherent
  <2> QED BY <2>4 DEF Follows, Coherent
<1>2. CASE ~f.error
  <2>1. SameDelivery(freed, l) /\ DOMAIN freed = DOMAIN l
      BY <1>2 DEF Coherent, SameDelivery
  <2> HIDE DEF freed
  <2>2. m = IF out THEN [freed EXCEPT !.local = gone, !.position = Unset]
                   ELSE [freed EXCEPT !.remote = gone]
      BY DEF AfterDetachOf, freed
  <2>3. SameDelivery(m, l) /\ DOMAIN m = DOMAIN l
      BY <2>1, <2>2 DEF Coherent, SameDelivery
  <2> QED BY <2>3, SameDeliveryFollows
<1> QED BY <1>1, <1>2

\* A flow moves counts and credit only.
LEMMA FlowFollows ==
    ASSUME NEW id, NEW l, NEW f, Coherent(l)
    PROVE  Follows(LinkAfterFlow(id, l, f), l)
<1>1. SameDelivery(LinkAfterFlow(id, l, f), l) /\ DOMAIN LinkAfterFlow(id, l, f) = DOMAIN l
    BY DEF LinkAfterFlow, Coherent, SameDelivery
<1> QED BY <1>1, SameDeliveryFollows

\* A transaction value moves the register only.
LEMMA WithTransactionFollows ==
    ASSUME NEW l, NEW out, NEW v, Coherent(l)
    PROVE  /\ SameDelivery(WithTransaction(l, out, v), l)
           /\ DOMAIN WithTransaction(l, out, v) = DOMAIN l
BY DEF WithTransaction, Coherent, SameDelivery

\* A settlement removes entries, and the delivery in progress with its own.
LEMMA SettledByFollows ==
    ASSUME NEW l, NEW f, Coherent(l)
    PROVE  Follows(SettledBy(l, f), l)
<1> DEFINE n == IF l.delivery # Unset /\ InRange(f, l.delivery.id) THEN NoDelivery(l) ELSE l
           left == {u \in DOMAIN n.unsettled : ~InRange(f, n.unsettled[u])}
           m == SettledBy(l, f)
<1>1. /\ Coherent(n) /\ n.unsettled = l.unsettled /\ DOMAIN n = DOMAIN l
      /\ n.delivery = Unset \/ (n.delivery = l.delivery /\ n.tag = l.tag)
    BY NoDeliveryFollows
<1> HIDE DEF n
<1>2. m = [n EXCEPT !.unsettled = [t \in {u \in DOMAIN @ : ~InRange(f, @[u])} |-> @[t]]]
    BY DEF SettledBy, n
<1>3. /\ m.delivery = n.delivery /\ m.tag = n.tag /\ DOMAIN m = DOMAIN l
      /\ m.unsettled = [t \in left |-> n.unsettled[t]]
    BY <1>1, <1>2 DEF Coherent
<1> HIDE DEF m
<1>4. \A t \in DOMAIN m.unsettled : t \in DOMAIN l.unsettled /\ m.unsettled[t] = l.unsettled[t]
    BY <1>1, <1>3
<1> QED BY <1>1, <1>3, <1>4 DEF Follows, Coherent, m

\* The delivery after a transfer is the one before it, or a first one.
LEMMA DeliveryAfterTransfer ==
    ASSUME NEW l, NEW f, Coherent(l), Identified(l, f)
    PROVE  LET d == DeliveryAfter(l, f)
           IN  /\ {"id", "settled"} \subseteq DOMAIN d
               /\ d.id = DeliveryId(l, f)
               /\ Continued(l) => /\ d.id = l.delivery.id
                                  /\ l.delivery.settled => d.settled
<1>1. CASE Continued(l)
    BY <1>1 DEF DeliveryAfter, DeliveryId, Identified, Continued, Coherent
<1>2. CASE ~Continued(l)
    BY <1>2 DEF DeliveryAfter
<1> QED BY <1>1, <1>2

\* The table after a transfer names, under the transfer's tag, its delivery,
\* and what it named before under every other.
LEMMA TableAfterTransfer ==
    ASSUME NEW l, NEW f, Coherent(l), Identified(l, f), ~Continued(l) => TagFree(l, f)
    PROVE  LET table == UnsettledAfter(l, f)
           IN  /\ \A t \in DOMAIN l.unsettled \cap DOMAIN table : table[t] = l.unsettled[t]
               /\ Tag(l, f) \in DOMAIN table => table[Tag(l, f)] = DeliveryId(l, f)
<1> DEFINE tag   == Tag(l, f)
           table == UnsettledAfter(l, f)
<1>1. tag \in DOMAIN l.unsettled => l.unsettled[tag] = DeliveryId(l, f)
  <2>1. CASE Continued(l)
      BY <2>1 DEF Tag, Coherent, Continued, Identified, DeliveryId
  <2>2. CASE ~Continued(l)
      BY <2>2 DEF Tag, TagFree
  <2> QED BY <2>1, <2>2
<1>2. CASE tag = Unset
    BY <1>1, <1>2 DEF UnsettledAfter
<1>3. CASE tag # Unset /\ (SaysSettled(f) \/ f.aborted)
  <2>1. table = [t \in DOMAIN l.unsettled \ {tag} |-> l.unsettled[t]]
      BY <1>3 DEF UnsettledAfter
  <2> QED BY <2>1
<1>4. CASE tag # Unset /\ ~(SaysSettled(f) \/ f.aborted)
  <2>1. table = [t \in DOMAIN l.unsettled \cup {tag} |->
                    IF t = tag THEN DeliveryId(l, f) ELSE l.unsettled[t]]
      BY <1>4 DEF UnsettledAfter
  <2> QED BY <1>1, <2>1
<1> QED BY <1>2, <1>3, <1>4

\* A transfer continues the delivery in progress, ends it, or begins one whose
\* tag is free.
LEMMA TransferFollows ==
    ASSUME NEW l, NEW out, NEW f, Coherent(l), TransferAdmits(l, out, f)
    PROVE  Follows(LinkAfterTransfer(l, out, f), l)
<1> DEFINE table == UnsettledAfter(l, f)
           d     == DeliveryAfter(l, f)
           tag   == Tag(l, f)
           moved == [l EXCEPT !.position  = PositionAfter(l, out),
                              !.unsettled = table,
                              !.nextDeliveryId = IF out /\ ~Continued(l)
                                                 THEN DeliveryId(l, f) + 1 ELSE @]
           m     == LinkAfterTransfer(l, out, f)
<1>1. Identified(l, f) /\ (~Continued(l) => TagFree(l, f))
    BY DEF TransferAdmits
<1>2. /\ \A t \in DOMAIN l.unsettled \cap DOMAIN table : table[t] = l.unsettled[t]
      /\ tag \in DOMAIN table => table[tag] = DeliveryId(l, f)
    BY <1>1, TableAfterTransfer
<1>3. /\ {"id", "settled"} \subseteq DOMAIN d
      /\ d.id = DeliveryId(l, f)
      /\ Continued(l) => d.id = l.delivery.id /\ (l.delivery.settled => d.settled)
    BY <1>1, DeliveryAfterTransfer
<1> HIDE DEF table, d, tag
<1>4. moved.unsettled = table /\ DOMAIN moved = DOMAIN l
    BY DEF Coherent
<1> HIDE DEF moved
<1>5. m = IF ~(f.more /\ ~f.aborted) THEN NoDelivery(moved)
          ELSE [moved EXCEPT !.delivery = d, !.tag = tag,
                             !.format = IF Continued(l) THEN @ ELSE f.format]
    BY DEF LinkAfterTransfer, moved, table, d, tag
<1> HIDE DEF m
<1>6. CASE ~(f.more /\ ~f.aborted)
  <2>1. m.delivery = Unset /\ m.unsettled = table /\ DOMAIN m = DOMAIN l
      BY <1>4, <1>5, <1>6 DEF NoDelivery, Coherent
  <2>2. Follows(m, l)
      BY <1>2, <2>1 DEF Follows, Coherent
  <2> QED BY <2>2 DEF m
<1>7. CASE f.more /\ ~f.aborted
  <2>1. m.delivery = d /\ m.tag = tag /\ m.unsettled = table /\ DOMAIN m = DOMAIN l
      BY <1>4, <1>5, <1>7 DEF Coherent
  <2>2. Coherent(m)
      BY <1>2, <1>3, <2>1 DEF Coherent
  <2>3. Follows(m, l)
      BY <1>2, <1>3, <2>1, <2>2 DEF Follows, Continued
  <2> QED BY <2>3 DEF m
<1> QED BY <1>6, <1>7

\* A frame that is taken lets the links it concerns follow.
LEMMA LinkFollows ==
    ASSUME NEW s, NEW out, NEW f, NEW id, NEW l, Coherent(l), Taken(s, out, f),
           id \in DOMAIN s.links => l = s.links[id], Concerns(s, out, f, id)
    PROVE  Follows(LinkAfter(id, l, out, f), l)
<1>1. CASE f.body = "attach"
    BY <1>1, AttachFollows DEF LinkAfter
<1>2. CASE f.body = "detach"
    BY <1>2, DetachFollows DEF LinkAfter
<1>3. CASE f.body = "flow"
    BY <1>3, FlowFollows DEF LinkAfter
<1>4. CASE f.body = "transfer"
  <2> DEFINE n == IF Ignored(l, out, f) THEN l ELSE LinkAfterTransfer(l, out, f)
  <2>1. Ignored(l, out, f) \/ TransferAdmits(l, out, f)
      BY <1>4 DEF Taken, Concerns, TransferTaken, Resolves, IdOf
  <2>2. Follows(n, l)
      BY <2>1, TransferFollows, FollowsItself
  <2> HIDE DEF n
  <2>3. Follows(WithTransaction(n, out, f.value), l)
      BY <2>2, WithTransactionFollows, TransitivelySame DEF Follows
  <2> QED BY <1>4, <2>3 DEF LinkAfter, n
<1>5. CASE f.body = "disposition"
  <2> DEFINE n == IF f.settled THEN SettledBy(l, f) ELSE l
  <2>1. Follows(n, l)
      BY SettledByFollows, FollowsItself
  <2> HIDE DEF n
  <2>2. Follows(WithTransaction(n, out, f.value), l)
      BY <2>1, WithTransactionFollows, TransitivelySame DEF Follows
  <2> QED BY <1>5, <2>2 DEF LinkAfter, n
<1> QED BY <1>1, <1>2, <1>3, <1>4, <1>5 DEF Concerns

-----------------------------------------------------------------------------
(* The session. *)

AllCoherent(s) == \A id \in DOMAIN s.links : Coherent(s.links[id])

\* No link leaves the registry; each follows itself, and a new one is coherent.
LEMMA StepAdvances ==
    ASSUME NEW s, NEW out \in BOOLEAN, NEW f, f.body \in Bodies, IsSession(s), AllCoherent(s)
    PROVE  LET r == SessionStep(s, out, f).session
           IN  /\ DOMAIN s.links \subseteq DOMAIN r.links
               /\ AllCoherent(r)
               /\ \A id \in DOMAIN s.links : Follows(r.links[id], s.links[id])
<1> DEFINE r == SessionStep(s, out, f)
<1>1. Moves(r, s, out, f)
    BY StepMoves
<1> HIDE DEF r
<1>2. CASE r.session.links = s.links
    BY <1>2, FollowsItself DEF AllCoherent, r
<1>3. CASE Taken(s, out, f) /\ IsAfter(r.session.links, s, out, f)
  <2>1. \A id \in DOMAIN r.session.links : Coherent(LinkOrBlank(s, id))
      BY BlankIsCoherent DEF LinkOrBlank, AllCoherent
  <2>2. \A id \in DOMAIN r.session.links :
            Concerns(s, out, f, id) => Follows(r.session.links[id], LinkOrBlank(s, id))
      BY <1>3, <2>1, LinkFollows DEF IsAfter, LinkOrBlank
  <2>3. \A id \in DOMAIN r.session.links :
            ~Concerns(s, out, f, id) => /\ id \in DOMAIN s.links
                                        /\ r.session.links[id] = s.links[id]
      BY <1>3 DEF IsAfter, Concerns
  <2>4. \A id \in DOMAIN r.session.links : Follows(r.session.links[id], LinkOrBlank(s, id))
      BY <2>2, <2>3, FollowsItself DEF AllCoherent, LinkOrBlank
  <2>5. DOMAIN s.links \subseteq DOMAIN r.session.links
      BY <1>3 DEF IsAfter
  <2> QED BY <2>4, <2>5 DEF AllCoherent, LinkOrBlank, Follows, r
<1> QED BY <1>1, <1>2, <1>3 DEF Moves

-----------------------------------------------------------------------------
(* The theorems. *)

\* The strengthening holds of every link of every behaviour.
THEOREM CoherentAlways == Spec => []AllCoherent(session)
<1>1. Init => AllCoherent(session)
    BY DEF Init, StartSession, AllCoherent
<1>2. Well(session) /\ AllCoherent(session) /\ [Next]_vars => AllCoherent(session)'
  <2> SUFFICES ASSUME Well(session), AllCoherent(session), [Next]_vars
               PROVE  AllCoherent(session')
      OBVIOUS
  <2>1. CASE Next
      BY <2>1, NextIsAStep, StepAdvances DEF Well
  <2>2. CASE UNCHANGED vars
      BY <2>2 DEF vars
  <2> QED BY <2>1, <2>2
<1> QED BY <1>1, <1>2, WellAlways, PTL DEF Spec

\* Every step lets every link follow itself.
LEMMA NextFollows ==
    ASSUME Well(session), AllCoherent(session), Next, NEW id \in DOMAIN session.links
    PROVE  Follows(session'.links[id], session.links[id])
BY NextIsAStep, StepAdvances DEF Well

\* One delivery at a time is in progress on a link, and a transfer that settled
\* it is not unsaid by a later one (Delivery.step).
THEOREM SettlementAbsorbs == Spec => SettlementIsAbsorbing
<1>1. Well(session) /\ AllCoherent(session) /\ [Next]_vars =>
          [\A id \in DOMAIN session.links :
               LET d == session.links[id].delivery
                   e == session'.links[id].delivery
               IN  d # Unset /\ e # Unset => d.id = e.id /\ (d.settled => e.settled)]_vars
  <2> SUFFICES ASSUME Well(session), AllCoherent(session), Next,
                      NEW id \in DOMAIN session.links
               PROVE  LET d == session.links[id].delivery
                          e == session'.links[id].delivery
                      IN  d # Unset /\ e # Unset => d.id = e.id /\ (d.settled => e.settled)
      OBVIOUS
  <2> QED BY NextFollows DEF Follows
<1> QED BY <1>1, WellAlways, CoherentAlways, PTL DEF Spec, SettlementIsAbsorbing

\* A tag held unsettled names the same delivery as long as it is held, over
\* detaches, resumes and new sessions (the unsettled table of Protocol.lean).
THEOREM TagsNameOneDeliveryAlways == Spec => TagsNameOneDelivery
<1>1. Well(session) /\ AllCoherent(session) /\ [Next]_vars =>
          [\A id \in DOMAIN session.links :
               LET held == session.links[id].unsettled
                   kept == session'.links[id].unsettled
               IN  \A t \in DOMAIN held \cap DOMAIN kept : kept[t] = held[t]]_vars
  <2> SUFFICES ASSUME Well(session), AllCoherent(session), Next,
                      NEW id \in DOMAIN session.links
               PROVE  LET held == session.links[id].unsettled
                          kept == session'.links[id].unsettled
                      IN  \A t \in DOMAIN held \cap DOMAIN kept : kept[t] = held[t]
      OBVIOUS
  <2> QED BY NextFollows DEF Follows
<1> QED BY <1>1, WellAlways, CoherentAlways, PTL DEF Spec, TagsNameOneDelivery

-----------------------------------------------------------------------------
(* Transactions. *)

IsLayer(t) ==
    /\ {"known", "live", "nextId", "capabilities", "peerCapabilities"} \subseteq DOMAIN t
    /\ t.live \subseteq t.known
    /\ t.nextId \in Nat

\* A control link keeps its transactions in a layer.
Controlled(l) == l.transactions # Unset => IsLayer(l.transactions)

\* Nothing retired in t is live in u, but what u allocated since.
Retires(u, t) == (t.known \ t.live) \cap u.live \subseteq t.nextId .. u.nextId - 1

\* Link m may come after link l.
KeepsRetired(m, l) ==
    /\ Controlled(m)
    /\ l.transactions # Unset => Retires(m.transactions, l.transactions)

\* A link whose transactions are as they were keeps what is retired.
LEMMA SameTransactionsKeep ==
    ASSUME NEW l, NEW m, Controlled(l), m.transactions = l.transactions
    PROVE  KeepsRetired(m, l)
BY DEF KeepsRetired, Controlled, IsLayer, Retires

\* A declare allocates the next number, a discharge retires, an outcome adds a
\* number nobody told of before.
LEMMA AfterTransactionRetires ==
    ASSUME NEW t, NEW out, NEW v, IsLayer(t)
    PROVE  IsLayer(AfterTransaction(t, out, v)) /\ Retires(AfterTransaction(t, out, v), t)
<1> DEFINE u == AfterTransaction(t, out, v)
<1>1. CASE v.txn = "declare" /\ ~out
  <2>1. u = [t EXCEPT !.known = @ \cup {t.nextId}, !.live = @ \cup {t.nextId},
                      !.nextId = @ + 1]
      BY <1>1 DEF AfterTransaction
  <2> HIDE DEF u
  <2>2. /\ DOMAIN u = DOMAIN t
        /\ u.known = t.known \cup {t.nextId}
        /\ u.live = t.live \cup {t.nextId}
        /\ u.nextId = t.nextId + 1
      BY <2>1 DEF IsLayer
  <2>3. t.nextId \in t.nextId .. u.nextId - 1
      BY <2>2 DEF IsLayer
  <2> QED BY <2>2, <2>3 DEF IsLayer, Retires, u
<1>2. CASE v.txn = "discharge"
  <2>1. u = [t EXCEPT !.live = @ \ {v.id}]
      BY <1>2 DEF AfterTransaction, Retire
  <2> QED BY <2>1 DEF IsLayer, Retires
<1>3. CASE v.txn = "declared" /\ ~out /\ v.id # Unset /\ v.id \notin t.known
  <2>1. u = [t EXCEPT !.known = @ \cup {v.id}, !.live = @ \cup {v.id}]
      BY <1>3 DEF AfterTransaction
  <2> QED BY <1>3, <2>1 DEF IsLayer, Retires
<1>4. CASE /\ ~(v.txn = "declare" /\ ~out) /\ v.txn # "discharge"
           /\ ~(v.txn = "declared" /\ ~out /\ v.id # Unset /\ v.id \notin t.known)
  <2>1. u = t
      BY <1>4 DEF AfterTransaction
  <2> QED BY <2>1 DEF IsLayer, Retires
<1> QED BY <1>1, <1>2, <1>3, <1>4

\* So a value a link carries brings nothing back.
LEMMA WithTransactionRetires ==
    ASSUME NEW l, NEW m, NEW out, NEW v, "transactions" \in DOMAIN m,
           Controlled(l), m.transactions = l.transactions
    PROVE  KeepsRetired(WithTransaction(m, out, v), l)
<1>1. CASE l.transactions = Unset
    BY <1>1 DEF WithTransaction, KeepsRetired, Controlled
<1>2. CASE l.transactions # Unset
  <2>1. WithTransaction(m, out, v).transactions = AfterTransaction(l.transactions, out, v)
      BY <1>2 DEF WithTransaction, Coherent
  <2> QED BY <1>2, <2>1, AfterTransactionRetires DEF KeepsRetired, Controlled
<1> QED BY <1>1, <1>2

\* A re-attach keeps the layer its control link has, and moves its
\* capabilities.
LEMMA AttachRetires ==
    ASSUME NEW l, NEW m, NEW out, NEW f, "transactions" \in DOMAIN m,
           Controlled(l), m.transactions = l.transactions
    PROVE  KeepsRetired(WithControlLink(m, out, f), l)
<1> DEFINE layer == IF l.transactions = Unset THEN FreshLayer ELSE l.transactions
           u     == IF out THEN [layer EXCEPT !.capabilities = f.coordinator]
                           ELSE [layer EXCEPT !.peerCapabilities = f.coordinator]
<1>1. CASE f.coordinator = Unset
    BY <1>1, SameTransactionsKeep DEF WithControlLink
<1>2. CASE f.coordinator # Unset
  <2>1. IsLayer(layer)
      BY DEF Controlled, IsLayer, FreshLayer
  <2>2. l.transactions # Unset => layer = l.transactions
      OBVIOUS
  <2>3. WithControlLink(m, out, f).transactions = u
      BY <1>2 DEF WithControlLink, Coherent
  <2> HIDE DEF layer
  <2>4. IsLayer(u) /\ u.live = layer.live /\ u.nextId = layer.nextId
      BY <2>1 DEF IsLayer
  <2> QED BY <2>2, <2>3, <2>4 DEF KeepsRetired, Controlled, Retires, IsLayer
<1> QED BY <1>1, <1>2

\* A detach rolls back whatever its control link has open.
LEMMA DetachRetires ==
    ASSUME NEW l, NEW out, NEW f, Coherent(l), Controlled(l)
    PROVE  KeepsRetired(AfterDetachOf(l, out, f), l)
<1> DEFINE ended == IF f.error THEN [NoDelivery(l) EXCEPT !.unsettled = <<>>] ELSE l
           u     == IF l.transactions = Unset THEN Unset ELSE RetireAll(l.transactions)
<1>1. DOMAIN ended = DOMAIN l /\ ended.transactions = l.transactions
    BY DEF NoDelivery, Coherent
<1> HIDE DEF ended
<1>2. AfterDetachOf(l, out, f).transactions = u
    BY <1>1 DEF AfterDetachOf, Coherent, ended
<1>3. CASE l.transactions = Unset
    BY <1>2, <1>3 DEF KeepsRetired, Controlled
<1>4. CASE l.transactions # Unset
    BY <1>2, <1>4 DEF KeepsRetired, Controlled, RetireAll, IsLayer, Retires
<1> QED BY <1>3, <1>4

\* The two records have the same fields, and the same transactions.
SameTransactions(m, l) == DOMAIN m = DOMAIN l /\ m.transactions = l.transactions

\* The other exchanges leave the transactions alone.
LEMMA OthersKeepTransactions ==
    ASSUME NEW id, NEW l, NEW out, NEW f, Coherent(l)
    PROVE  /\ SameTransactions(AfterSentAttach(l, f), l)
           /\ SameTransactions(AfterReceivedAttach(l, f), l)
           /\ SameTransactions(LinkAfterFlow(id, l, f), l)
           /\ SameTransactions(SettledBy(l, f), l)
           /\ SameTransactions(LinkAfterTransfer(l, out, f), l)
<1>1. SameTransactions(AfterSentAttach(l, f), l)
    BY DEF AfterSentAttach, WithModes, NoDelivery, SameTransactions, Coherent
<1>2. SameTransactions(AfterReceivedAttach(l, f), l)
    BY DEF AfterReceivedAttach, WithModes, NoDelivery, SameTransactions, Coherent
<1>3. SameTransactions(LinkAfterFlow(id, l, f), l)
    BY DEF LinkAfterFlow, SameTransactions, Coherent
<1>4. SameTransactions(SettledBy(l, f), l)
    BY DEF SettledBy, NoDelivery, SameTransactions, Coherent
<1>5. SameTransactions(LinkAfterTransfer(l, out, f), l)
    BY DEF LinkAfterTransfer, NoDelivery, SameTransactions, Coherent
<1> QED BY <1>1, <1>2, <1>3, <1>4, <1>5

\* A frame that is taken brings nothing back.
LEMMA LinkRetires ==
    ASSUME NEW s, NEW out, NEW f, NEW id, NEW l, Coherent(l), Controlled(l),
           Concerns(s, out, f, id)
    PROVE  KeepsRetired(LinkAfter(id, l, out, f), l)
<1>1. CASE f.body = "attach"
  <2> DEFINE m == IF out THEN AfterSentAttach(l, f) ELSE AfterReceivedAttach(l, f)
  <2>1. SameTransactions(m, l)
      BY OthersKeepTransactions
  <2> HIDE DEF m
  <2>2. KeepsRetired(WithControlLink(m, out, f), l)
      BY <2>1, AttachRetires DEF SameTransactions, Coherent
  <2> QED BY <1>1, <2>2 DEF LinkAfter, m
<1>2. CASE f.body = "detach"
    BY <1>2, DetachRetires DEF LinkAfter
<1>3. CASE f.body = "flow"
    BY <1>3, OthersKeepTransactions, SameTransactionsKeep DEF LinkAfter, SameTransactions
<1>4. CASE f.body = "transfer"
  <2> DEFINE m == IF Ignored(l, out, f) THEN l ELSE LinkAfterTransfer(l, out, f)
  <2>1. SameTransactions(m, l)
      BY OthersKeepTransactions DEF SameTransactions
  <2> HIDE DEF m
  <2>2. KeepsRetired(WithTransaction(m, out, f.value), l)
      BY <2>1, WithTransactionRetires DEF SameTransactions, Coherent
  <2> QED BY <1>4, <2>2 DEF LinkAfter, m
<1>5. CASE f.body = "disposition"
  <2> DEFINE m == IF f.settled THEN SettledBy(l, f) ELSE l
  <2>1. SameTransactions(m, l)
      BY OthersKeepTransactions DEF SameTransactions
  <2> HIDE DEF m
  <2>2. KeepsRetired(WithTransaction(m, out, f.value), l)
      BY <2>1, WithTransactionRetires DEF SameTransactions, Coherent
  <2> QED BY <1>5, <2>2 DEF LinkAfter, m
<1> QED BY <1>1, <1>2, <1>3, <1>4, <1>5 DEF Concerns

AllControlled(s) == \A id \in DOMAIN s.links : Controlled(s.links[id])

\* No frame, offered or arriving, brings a retired transaction back.
LEMMA StepRetires ==
    ASSUME NEW s, NEW out \in BOOLEAN, NEW f, f.body \in Bodies, IsSession(s), AllCoherent(s),
           AllControlled(s)
    PROVE  LET r == SessionStep(s, out, f).session
           IN  /\ AllControlled(r)
               /\ \A id \in DOMAIN s.links : KeepsRetired(r.links[id], s.links[id])
<1> DEFINE r == SessionStep(s, out, f)
<1>1. Moves(r, s, out, f)
    BY StepMoves
<1> HIDE DEF r
<1>2. CASE r.session.links = s.links
    BY <1>2, SameTransactionsKeep DEF AllControlled, r
<1>3. CASE IsAfter(r.session.links, s, out, f)
  <2>1. \A id : Coherent(LinkOrBlank(s, id)) /\ Controlled(LinkOrBlank(s, id))
      BY BlankIsCoherent DEF LinkOrBlank, AllCoherent, AllControlled, Controlled, BlankLink
  <2>2. \A id \in DOMAIN r.session.links :
            Concerns(s, out, f, id) => KeepsRetired(r.session.links[id], LinkOrBlank(s, id))
      BY <1>3, <2>1, LinkRetires DEF IsAfter
  <2>3. \A id \in DOMAIN r.session.links :
            ~Concerns(s, out, f, id) => /\ id \in DOMAIN s.links
                                        /\ r.session.links[id] = LinkOrBlank(s, id)
      BY <1>3 DEF IsAfter, Concerns, LinkOrBlank
  <2>4. \A id \in DOMAIN r.session.links :
            KeepsRetired(r.session.links[id], LinkOrBlank(s, id))
      BY <2>1, <2>2, <2>3, SameTransactionsKeep
  <2>5. DOMAIN s.links \subseteq DOMAIN r.session.links
      BY <1>3 DEF IsAfter
  <2> QED BY <2>4, <2>5 DEF AllControlled, LinkOrBlank, KeepsRetired, r
<1> QED BY <1>1, <1>2, <1>3 DEF Moves

\* The register of every control link is well formed.
THEOREM ControlledAlways == Spec => []AllControlled(session)
<1>1. Init => AllControlled(session)
    BY DEF Init, StartSession, AllControlled
<1>2. Well(session) /\ AllCoherent(session) /\ AllControlled(session) /\ [Next]_vars =>
          AllControlled(session)'
  <2> SUFFICES ASSUME Well(session), AllCoherent(session), AllControlled(session), [Next]_vars
               PROVE  AllControlled(session')
      OBVIOUS
  <2>1. CASE Next
      BY <2>1, NextIsAStep, StepRetires DEF Well
  <2>2. CASE UNCHANGED vars
      BY <2>2 DEF vars
  <2> QED BY <2>1, <2>2
<1> QED BY <1>1, <1>2, WellAlways, CoherentAlways, PTL DEF Spec

\* A transaction that was discharged, or rolled back with its control link, is
\* never in use again, but for a number the coordinator allocates anew
\* (Transactions.after, Transactions.retire).
THEOREM RetiredAlwaysStays == Spec => RetiredStaysRetired
<1>1. Well(session) /\ AllCoherent(session) /\ AllControlled(session) /\ [Next]_vars =>
          [\A id \in DOMAIN session.links :
               LET before == session.links[id].transactions
                   after  == session'.links[id].transactions
               IN  before # Unset =>
                       (before.known \ before.live) \cap after.live
                           \subseteq before.nextId .. after.nextId - 1]_vars
  <2> SUFFICES ASSUME Well(session), AllCoherent(session), AllControlled(session), Next,
                      NEW id \in DOMAIN session.links
               PROVE  LET before == session.links[id].transactions
                          after  == session'.links[id].transactions
                      IN  before # Unset =>
                              (before.known \ before.live) \cap after.live
                                  \subseteq before.nextId .. after.nextId - 1
      OBVIOUS
  <2>1. KeepsRetired(session'.links[id], session.links[id])
      BY NextIsAStep, StepRetires DEF Well
  <2> QED BY <2>1 DEF KeepsRetired, Retires
<1> QED BY <1>1, WellAlways, CoherentAlways, ControlledAlways, PTL
        DEF Spec, RetiredStaysRetired

-----------------------------------------------------------------------------
(* Types. *)

\* A link is a record with every field of a blank one.
IsFullLink(l) == DOMAIN l = DOMAIN BlankLink

Typed(l) == IsFullLink(l) /\ LinkOK(l)

\* A link nobody has attached.
LEMMA BlankIsTyped == Typed(BlankLink)
BY EndpointAssumption
   DEF Typed, IsFullLink, LinkOK, BlankLink, EndpointSides, Lives, Optional

\* Forgetting the delivery in progress.
LEMMA NoDeliveryTyped ==
    ASSUME NEW l, Typed(l)
    PROVE  Typed(NoDelivery(l)) /\ NoDelivery(l).delivery = Unset
BY DEF NoDelivery, Typed, IsFullLink, LinkOK, BlankLink, Optional

\* The settle modes.
LEMMA WithModesTyped ==
    ASSUME NEW l, NEW f, Typed(l), f.second \in BOOLEAN
    PROVE  Typed(WithModes(l, f))
<1>1. CASE f.role = "sender"
    BY <1>1 DEF WithModes, Typed, IsFullLink, LinkOK, BlankLink
<1>2. CASE f.role # "sender"
    BY <1>2 DEF WithModes, Typed, IsFullLink, LinkOK, BlankLink
<1> QED BY <1>1, <1>2

\* A control link has a register, and it is well formed.
LEMMA WithControlLinkTyped ==
    ASSUME NEW l, NEW out, NEW f, Typed(l), Controlled(l)
    PROVE  Typed(WithControlLink(l, out, f))
<1> DEFINE layer == IF l.transactions = Unset THEN FreshLayer ELSE l.transactions
           u     == IF out THEN [layer EXCEPT !.capabilities = f.coordinator]
                           ELSE [layer EXCEPT !.peerCapabilities = f.coordinator]
<1>1. CASE f.coordinator = Unset
    BY <1>1 DEF WithControlLink
<1>2. CASE f.coordinator # Unset
  <2>1. IsLayer(layer)
      BY DEF Controlled, IsLayer, FreshLayer
  <2>2. WithControlLink(l, out, f) = [l EXCEPT !.transactions = u]
      BY <1>2 DEF WithControlLink
  <2> HIDE DEF layer
  <2>3. u.live \subseteq u.known
      BY <2>1 DEF IsLayer
  <2> HIDE DEF u
  <2> QED BY <2>2, <2>3 DEF Typed, IsFullLink, LinkOK, BlankLink
<1> QED BY <1>1, <1>2

\* An attach sets its writer's end, and starts or keeps a position.
LEMMA AttachTyped ==
    ASSUME NEW l, NEW f, Typed(l), {f.incomplete, f.second} \subseteq BOOLEAN,
           f.role = "sender" => f.initialCount \in Nat
    PROVE  Typed(AfterSentAttach(l, f)) /\ Typed(AfterReceivedAttach(l, f))
<1> DEFINE n == NoDelivery(WithModes(l, f))
           side == [life |-> "attached", incomplete |-> f.incomplete]
<1>1. Typed(n)
    BY WithModesTyped, NoDeliveryTyped
<1>2. side \in EndpointSides
    BY DEF EndpointSides, Lives
<1>3. FreshPosition(f) \in Positions
    BY DEF FreshPosition, Positions
<1>4. AfterSentAttach(l, f) = [n EXCEPT !.local      = side,
                                        !.position   = FreshPosition(f),
                                        !.peerCount  = 0,
                                        !.peerCredit = 0]
    BY DEF AfterSentAttach
<1>5. AfterReceivedAttach(l, f) =
          [n EXCEPT !.remote    = side,
                    !.peerCount = IF f.role = "sender" THEN f.initialCount ELSE @,
                    !.position  = IF f.role = "sender" \/ @ # Unset THEN @
                                  ELSE FreshPosition(f)]
    BY DEF AfterReceivedAttach
<1> HIDE DEF n, side
<1>6. Typed(AfterSentAttach(l, f))
    BY <1>1, <1>2, <1>3, <1>4 DEF Typed, IsFullLink, LinkOK, BlankLink, Optional
<1>7. Typed(AfterReceivedAttach(l, f))
    BY <1>1, <1>2, <1>3, <1>5 DEF Typed, IsFullLink, LinkOK, BlankLink, Optional
<1> QED BY <1>6, <1>7

\* A detach.
LEMMA DetachTyped ==
    ASSUME NEW l, NEW out, NEW f, Typed(l)
    PROVE  Typed(AfterDetachOf(l, out, f))
<1> DEFINE ended == IF f.error THEN [NoDelivery(l) EXCEPT !.unsettled = <<>>] ELSE l
           gone  == [life |-> IF f.closed THEN "destroyed" ELSE "detached",
                     incomplete |-> FALSE]
           freed == [ended EXCEPT !.peerCount  = 0,
                                  !.peerCredit = 0,
                                  !.transactions = IF @ = Unset THEN @ ELSE RetireAll(@)]
<1>1. Typed(ended)
    BY NoDeliveryTyped DEF Typed, IsFullLink, LinkOK, BlankLink
<1>2. gone \in EndpointSides
    BY DEF EndpointSides, Lives
<1> HIDE DEF ended, gone
<1>3. ended.transactions # Unset =>
          RetireAll(ended.transactions).live \subseteq RetireAll(ended.transactions).known
  <2>1. CASE "live" \in DOMAIN ended.transactions
      BY <2>1 DEF RetireAll
  <2> QED BY <2>1, <1>1 DEF RetireAll, Typed, LinkOK
<1>4. Typed(freed)
    BY <1>1, <1>3 DEF Typed, IsFullLink, LinkOK, BlankLink
<1> HIDE DEF freed
<1>5. AfterDetachOf(l, out, f) =
          IF out THEN [freed EXCEPT !.local = gone, !.position = Unset]
                 ELSE [freed EXCEPT !.remote = gone]
    BY DEF AfterDetachOf, freed, ended, gone
<1> QED BY <1>2, <1>4, <1>5 DEF Typed, IsFullLink, LinkOK, BlankLink, Optional

\* A flow.
LEMMA FlowTyped ==
    ASSUME NEW id, NEW l, NEW f, Typed(l), f.credit \in Optional(Nat),
           f.count \in Optional(Nat) \cup {Null}
    PROVE  Typed(LinkAfterFlow(id, l, f))
<1> DEFINE credit == Given(f.credit, 0)
<1>1. credit \in Nat /\ CountOf(f) \in Nat
    BY DEF Given, CountOf, CountSet, Optional
<1>2. CASE id.role = "sender"
  <2> DEFINE p == IF l.position = Unset THEN l.position
                  ELSE [l.position EXCEPT !.credit =
                            CreditFor(CountOf(f), credit, l.position.count)]
  <2>1. p \in Optional(Positions)
      BY <1>1 DEF Typed, LinkOK, Optional, Positions, CreditFor, Minus
  <2>2. LinkAfterFlow(id, l, f) = [l EXCEPT !.position = p, !.peerCount = CountOf(f),
                                            !.peerCredit = credit]
      BY <1>2 DEF LinkAfterFlow, Typed, IsFullLink, BlankLink
  <2> HIDE DEF p, credit
  <2> QED BY <1>1, <2>1, <2>2 DEF Typed, IsFullLink, LinkOK, BlankLink
<1>3. CASE id.role # "sender" /\ l.position = Unset
    BY <1>3 DEF LinkAfterFlow
<1>4. CASE id.role # "sender" /\ l.position # Unset
  <2> DEFINE p == [l.position EXCEPT !.count = CountOf(f)]
  <2>1. p \in Optional(Positions)
      BY <1>1, <1>4 DEF Typed, LinkOK, Optional, Positions
  <2>2. LinkAfterFlow(id, l, f) = [l EXCEPT !.position = p, !.peerCredit = credit]
      BY <1>4 DEF LinkAfterFlow, Typed, IsFullLink, BlankLink
  <2> HIDE DEF p, credit
  <2> QED BY <1>1, <2>1, <2>2 DEF Typed, IsFullLink, LinkOK, BlankLink
<1> QED BY <1>2, <1>3, <1>4

\* A settlement.
LEMMA SettledByTyped ==
    ASSUME NEW l, NEW f, Typed(l)
    PROVE  Typed(SettledBy(l, f))
<1> DEFINE n == IF l.delivery # Unset /\ InRange(f, l.delivery.id) THEN NoDelivery(l) ELSE l
           left == [t \in {u \in DOMAIN n.unsettled : ~InRange(f, n.unsettled[u])} |->
                       n.unsettled[t]]
<1>1. Typed(n)
    BY NoDeliveryTyped
<1>2. SettledBy(l, f) = [n EXCEPT !.unsettled = left]
    BY DEF SettledBy
<1> HIDE DEF n
<1>3. \A t \in DOMAIN left : left[t] \in Nat
    BY <1>1 DEF Typed, LinkOK
<1> HIDE DEF left
<1> QED BY <1>1, <1>2, <1>3 DEF Typed, IsFullLink, LinkOK, BlankLink

\* A value of a transaction.
LEMMA WithTransactionTyped ==
    ASSUME NEW l, NEW out, NEW v, Typed(l), Controlled(l)
    PROVE  Typed(WithTransaction(l, out, v))
<1>1. CASE l.transactions = Unset
    BY <1>1 DEF WithTransaction
<1>2. CASE l.transactions # Unset
  <2> DEFINE u == AfterTransaction(l.transactions, out, v)
  <2>1. u.live \subseteq u.known
      BY <1>2, AfterTransactionRetires DEF Controlled, IsLayer
  <2>2. WithTransaction(l, out, v) = [l EXCEPT !.transactions = u]
      BY <1>2 DEF WithTransaction
  <2> HIDE DEF u
  <2> QED BY <2>1, <2>2 DEF Typed, IsFullLink, LinkOK, BlankLink
<1> QED BY <1>1, <1>2

\* A transfer.
LEMMA TransferTyped ==
    ASSUME NEW l, NEW out, NEW f, Typed(l), TransferAdmits(l, out, f),
           f.deliveryId \in Optional(Nat), f.settled \in Optional(BOOLEAN),
           f.resume \in BOOLEAN
    PROVE  Typed(LinkAfterTransfer(l, out, f))
<1> DEFINE table == UnsettledAfter(l, f)
           d     == DeliveryAfter(l, f)
           p     == PositionAfter(l, out)
           id    == DeliveryId(l, f)
           next  == IF out /\ ~Continued(l) THEN id + 1 ELSE l.nextDeliveryId
           moved == [l EXCEPT !.position = p, !.unsettled = table, !.nextDeliveryId = next]
           format == IF Continued(l) THEN l.format ELSE f.format
<1>1. Identified(l, f)
    BY DEF TransferAdmits
<1>2. id \in Nat
    BY <1>1 DEF Identified, Continued, DeliveryId, Optional, Typed, LinkOK, Deliveries
<1>3. p \in Optional(Positions)
  <2>1. CASE l.position = Unset \/ Continued(l)
      BY <2>1 DEF PositionAfter, Typed, LinkOK
  <2>2. CASE ~(l.position = Unset \/ Continued(l))
      BY <2>2 DEF PositionAfter, Typed, LinkOK, Optional, Positions, Minus
  <2> QED BY <2>1, <2>2
<1>4. \A t \in DOMAIN table : table[t] \in Nat
    BY <1>2 DEF UnsettledAfter, Typed, LinkOK
<1>5. SaysSettled(f) \in BOOLEAN
    BY DEF SaysSettled, Given, Optional
<1>6. d \in Deliveries
  <2>1. CASE Continued(l)
      BY <2>1, <1>5 DEF DeliveryAfter, Deliveries, Continued, Typed, LinkOK, Optional
  <2>2. CASE ~Continued(l)
      BY <2>2, <1>2, <1>5 DEF DeliveryAfter, Deliveries
  <2> QED BY <2>1, <2>2
<1>7. Tag(l, f) # Unset /\ format # Unset
    BY <1>1 DEF Tag, Identified, Continued, Typed, LinkOK
<1> HIDE DEF table, d, p, id, format
<1>8. Typed(moved)
    BY <1>2, <1>3, <1>4 DEF Typed, IsFullLink, LinkOK, BlankLink
<1>9. LinkAfterTransfer(l, out, f) =
          IF ~(f.more /\ ~f.aborted) THEN NoDelivery(moved)
          ELSE [moved EXCEPT !.delivery = d, !.tag = Tag(l, f), !.format = format]
    BY DEF LinkAfterTransfer, table, d, p, id, format, Typed, IsFullLink, BlankLink
<1> HIDE DEF moved
<1>10. Typed([moved EXCEPT !.delivery = d, !.tag = Tag(l, f), !.format = format])
    BY <1>6, <1>7, <1>8, EndpointAssumption
       DEF Typed, IsFullLink, LinkOK, BlankLink, Optional
<1> QED BY <1>8, <1>9, <1>10, NoDeliveryTyped

\* A frame that is taken leaves the links it concerns typed.
LEMMA LinkTyped ==
    ASSUME NEW s, NEW out, NEW f, NEW id, NEW l, Typed(l), Coherent(l), Controlled(l),
           IsFrame(f),           Taken(s, out, f), id \in DOMAIN s.links => l = s.links[id], Concerns(s, out, f, id)
    PROVE  Typed(LinkAfter(id, l, out, f))
<1>1. CASE f.body = "attach"
  <2> DEFINE m == IF out THEN AfterSentAttach(l, f) ELSE AfterReceivedAttach(l, f)
  <2>1. f.role = "sender" => f.initialCount \in Nat
      BY <1>1 DEF Taken, AttachAdmits, IsFrame, Optional
  <2>2. Typed(m)
      BY <1>1, <2>1, AttachTyped DEF Taken, IsFrame
  <2>3. Controlled(m)
      BY OthersKeepTransactions DEF SameTransactions, Controlled
  <2> HIDE DEF m
  <2> QED BY <1>1, <2>2, <2>3, WithControlLinkTyped DEF LinkAfter, m
<1>2. CASE f.body = "detach"
    BY <1>2, DetachTyped DEF LinkAfter
<1>3. CASE f.body = "flow"
    BY <1>3, FlowTyped DEF LinkAfter, Taken, IsFrame
<1>4. CASE f.body = "transfer"
  <2> DEFINE m == IF Ignored(l, out, f) THEN l ELSE LinkAfterTransfer(l, out, f)
  <2>1. Ignored(l, out, f) \/ TransferAdmits(l, out, f)
      BY <1>4 DEF Taken, Concerns, TransferTaken, Resolves, IdOf
  <2>2. Typed(m)
      BY <1>4, <2>1, TransferTyped DEF Taken, IsFrame
  <2>3. Controlled(m)
      BY OthersKeepTransactions DEF SameTransactions, Controlled
  <2> HIDE DEF m
  <2> QED BY <1>4, <2>2, <2>3, WithTransactionTyped DEF LinkAfter, m
<1>5. CASE f.body = "disposition"
  <2> DEFINE m == IF f.settled THEN SettledBy(l, f) ELSE l
  <2>1. Typed(m)
      BY SettledByTyped
  <2>2. Controlled(m)
      BY OthersKeepTransactions DEF SameTransactions, Controlled
  <2> HIDE DEF m
  <2> QED BY <1>5, <2>1, <2>2, WithTransactionTyped DEF LinkAfter, m
<1> QED BY <1>1, <1>2, <1>3, <1>4, <1>5 DEF Concerns

AllTyped(s) == \A id \in DOMAIN s.links : id.role \in LinkRoles /\ Typed(s.links[id])

\* Every link of the registry stays typed.
LEMMA StepKeepsTyped ==
    ASSUME NEW s, NEW out \in BOOLEAN, NEW f, IsFrame(f), IsSession(s), AllTyped(s),
           AllCoherent(s), AllControlled(s)
    PROVE  AllTyped(SessionStep(s, out, f).session)
<1> DEFINE r == SessionStep(s, out, f)
<1>1. Moves(r, s, out, f)
    BY StepMoves DEF IsFrame
<1> HIDE DEF r
<1>2. CASE r.session.links = s.links
    BY <1>2 DEF AllTyped, r
<1>3. CASE Taken(s, out, f) /\ IsAfter(r.session.links, s, out, f)
  <2>1. \A id : /\ Typed(LinkOrBlank(s, id)) /\ Coherent(LinkOrBlank(s, id))
               /\ Controlled(LinkOrBlank(s, id))
      BY BlankIsTyped, BlankIsCoherent
         DEF LinkOrBlank, AllTyped, AllCoherent, AllControlled, Controlled, BlankLink
  <2>2. \A id \in DOMAIN r.session.links :
            Concerns(s, out, f, id) => Typed(r.session.links[id])
      BY <1>3, <2>1, LinkTyped DEF IsAfter, LinkOrBlank
  <2>3. \A id \in DOMAIN r.session.links :
            ~Concerns(s, out, f, id) => Typed(r.session.links[id])
      BY <1>3, <2>1 DEF IsAfter, Concerns, AllTyped
  <2>4. f.body = "attach" => AttachId(out, f).role \in LinkRoles
      BY <1>3 DEF AttachId, Opposite, LinkRoles, Taken, IsFrame
  <2>5. \A id \in DOMAIN r.session.links : id.role \in LinkRoles
      BY <1>3, <2>4 DEF IsAfter, AllTyped
  <2> QED BY <2>2, <2>3, <2>5 DEF AllTyped, r
<1> QED BY <1>1, <1>2, <1>3 DEF Moves

-----------------------------------------------------------------------------
(* The rest of the session. *)

OwnTyped(s) ==
    /\ s.state \in SessionStates
    /\ s.outgoing \in Optional(Nat) /\ s.incoming \in Optional(Nat)
    /\ s.peerBegun \in BOOLEAN
    /\ s.windows \in Windows
    /\ s.handleMax \in Nat /\ s.peerHandleMax \in Nat
    /\ DOMAIN s.localHandles \subseteq Nat /\ DOMAIN s.remoteHandles \subseteq Nat

\* A session is a record with every field of a fresh one.
IsFullSession(s) == IsSession(s) /\ DOMAIN s = DOMAIN StartSession

\* The windows stay numbers.
LEMMA WindowsStayTyped ==
    ASSUME NEW w \in Windows, NEW f,
           {f.nextOutgoing, f.incoming, f.outgoing} \subseteq Nat
    PROVE  /\ AfterSendingBegin(w, f) \in Windows
           /\ AfterReceivingBegin(w, f) \in Windows
           /\ f.nextIncoming \in Optional(Nat) => AfterReceivingFlow(w, f) \in Windows
<1>1. \A n \in Nat : n % SerialModulus \in Nat
    BY SessionAssumption
<1>2. \A from, window \in Nat : RemoteIncoming(w, from, window) \in Nat
    BY <1>1 DEF RemoteIncoming, Minus, Windows
<1> QED BY <1>1, <1>2
        DEF AfterSendingBegin, AfterReceivingBegin, AfterReceivingFlow, Windows, Given, Optional

\* So do they after a transfer.
LEMMA TransferWindowsTyped ==
    ASSUME NEW w \in Windows
    PROVE  AfterSendingTransfer(w) \in Windows /\ AfterReceivingTransfer(w) \in Windows
<1>1. \A n \in Nat : n % SerialModulus \in Nat
    BY SessionAssumption
<1>2. (w.nextOutgoing + 1) % SerialModulus \in Nat /\ (w.nextIncoming + 1) % SerialModulus \in Nat
    BY <1>1 DEF Windows
<1>3. \A n \in Nat : Minus(n, 1) \in Nat
    BY DEF Minus
<1> QED BY <1>2, <1>3 DEF AfterSendingTransfer, AfterReceivingTransfer, Windows

\* Binding and releasing keep handles numbers.
LEMMA HandlesStayTyped ==
    ASSUME NEW handles, DOMAIN handles \subseteq Nat, NEW h, NEW id
    PROVE  /\ h \in Nat => DOMAIN Associate(handles, h, id) \subseteq Nat
           /\ DOMAIN Release(handles, id) \subseteq Nat
BY DEF Associate, Release

\* Every frame leaves the session's own fields typed.
LEMMA StepKeepsOwn ==
    ASSUME NEW s, NEW out \in BOOLEAN, NEW f, IsFrame(f), IsFullSession(s), OwnTyped(s)
    PROVE  LET r == SessionStep(s, out, f).session IN IsFullSession(r) /\ OwnTyped(r)
<1> DEFINE Good(r) == IsFullSession(r) /\ OwnTyped(r)
           Moved(id, l, w) == [PutLink(s, id, l) EXCEPT !.windows = w]
<1>1. /\ Good(Admitted(s).session) /\ Good(Declined(s).session) /\ Good(Closing(s).session)
      /\ Good(Placed(s, out).session)
    BY DEF Admitted, Declined, Closing, Placed, IsFullSession, IsSession, OwnTyped,
           SessionStates, StartSession
<1>2. CASE f.body = "begin"
  <2>1. ASSUME f.complete PROVE Good(AfterBegin(s, out, f))
    <3>1. CASE out
      <4>1. /\ AfterSendingBegin(s.windows, f) \in Windows
            /\ Given(f.handleMax, DefaultHandleMax) \in Nat
          BY <1>2, <2>1, WindowsStayTyped, SessionAssumption
             DEF OwnTyped, IsFrame, Given, Optional
      <4> QED BY <1>2, <3>1, <4>1 DEF AfterBegin, IsFullSession, IsSession, OwnTyped,
                   SessionStates, StartSession, IsFrame, Optional
    <3>2. CASE ~out
      <4>1. /\ AfterReceivingBegin(s.windows, f) \in Windows
            /\ Given(f.handleMax, DefaultHandleMax) \in Nat
          BY <1>2, <2>1, WindowsStayTyped, SessionAssumption
             DEF OwnTyped, IsFrame, Given, Optional
      <4> QED BY <1>2, <3>2, <4>1 DEF AfterBegin, IsFullSession, IsSession, OwnTyped,
                   SessionStates, StartSession, IsFrame, Optional
    <3> QED BY <3>1, <3>2
  <2>2. ASSUME f.complete PROVE Good(BeginStep(s, out, f).session)
      BY <1>1, <2>1, <2>2 DEF BeginStep, Admitted, Declined
  <2> QED BY <1>1, <1>2, <2>2 DEF SessionStep
<1>3. CASE f.body = "end"
  <2>1. Good(AfterEnd(s, out, f))
    <3>1. Good(Unmapped(s))
        BY DEF Unmapped, IsFullSession, IsSession, OwnTyped, SessionStates, StartSession,
               Optional
    <3>2. ASSUME NEW state \in SessionStates
          PROVE  /\ Good([s EXCEPT !.state = state, !.outgoing = Unset])
                 /\ Good([s EXCEPT !.state = state, !.incoming = Unset, !.peerBegun = TRUE])
        BY <3>2 DEF IsFullSession, IsSession, OwnTyped, StartSession, Optional
    <3>3. Good([s EXCEPT !.outgoing = Unset])
        BY DEF IsFullSession, IsSession, OwnTyped, StartSession, Optional
    <3> HIDE DEF Good
    <3> QED BY <3>1, <3>2, <3>3 DEF AfterEnd, SessionStates
  <2> QED BY <1>1, <1>3, <2>1 DEF SessionStep, Admitted
<1>4. ASSUME NEW handles, DOMAIN handles \subseteq Nat, NEW id, NEW l
      PROVE  Good(PutLink(WithHandles(s, out, handles), id, l))
    BY <1>4 DEF PutLink, WithHandles, IsFullSession, IsSession, OwnTyped, StartSession
<1>5. ASSUME NEW w \in Windows, NEW id, NEW l
      PROVE  /\ Good(Moved(id, l, w))
             /\ Good([s EXCEPT !.windows = w])
    BY <1>5 DEF PutLink, IsFullSession, IsSession, OwnTyped, StartSession
<1>6. DOMAIN Handles(s, out) \subseteq Nat
    BY DEF OwnTyped, Handles
<1>7. CASE f.body = "attach"
  <2>1. ASSUME f.complete PROVE Good(AfterAttach(s, out, f))
      BY <1>4, <1>6, <1>7, <2>1, HandlesStayTyped DEF AfterAttach, IsFrame
  <2> QED BY <1>1, <1>7, <2>1 DEF SessionStep, AttachStep, Admitted
<1>8. CASE f.body = "detach"
  <2>1. Good(AfterDetach(s, out, f))
      BY <1>1, <1>4, <1>6, HandlesStayTyped DEF AfterDetach, Admitted
  <2> QED BY <1>1, <1>8, <2>1 DEF SessionStep, Admitted
<1>9. CASE f.body = "flow"
  <2>1. ASSUME f.complete PROVE Good(AfterFlow(s, out, f))
    <3> DEFINE id == IdOf(s, out, f.handle)
               l  == LinkAfterFlow(id, s.links[id], f)
    <3>1. AfterReceivingFlow(s.windows, f) \in Windows
        BY <1>9, <2>1, WindowsStayTyped DEF OwnTyped, IsFrame
    <3>2. PutLink(s, id, l).windows = s.windows
        BY DEF PutLink, IsFullSession, StartSession
    <3>3. CASE out
        BY <1>1, <3>3 DEF AfterFlow, Admitted
    <3>4. CASE ~out /\ f.handle = Unset
        BY <1>5, <3>1, <3>4 DEF AfterFlow
    <3>5. CASE ~out /\ f.handle # Unset
      <4>1. AfterFlow(s, out, f) =
                Moved(id, l, AfterReceivingFlow(s.windows, f))
          BY <3>2, <3>5 DEF AfterFlow
      <4> HIDE DEF Good, Moved, l, id
      <4> QED BY <1>5, <3>1, <4>1
    <3> QED BY <3>3, <3>4, <3>5
  <2> QED BY <1>1, <1>9, <2>1 DEF SessionStep, Judged, Admitted
<1>10. CASE f.body = "disposition"
  <2>1. Good(AfterDisposition(s, out, f))
      BY DEF AfterDisposition, IsFullSession, IsSession, OwnTyped, StartSession
  <2> QED BY <1>1, <1>10, <2>1 DEF SessionStep, Judged, Admitted
<1>11. CASE f.body = "transfer"
  <2>1. Good(AfterTransfer(s, out, f))
    <3> DEFINE id    == IdOf(s, out, f.handle)
               l     == s.links[id]
               moved == IF Ignored(l, out, f) THEN l ELSE LinkAfterTransfer(l, out, f)
               m     == WithTransaction(moved, out, f.value)
               w     == IF out THEN AfterSendingTransfer(s.windows)
                               ELSE AfterReceivingTransfer(s.windows)
    <3>1. w \in Windows
        BY TransferWindowsTyped DEF OwnTyped
    <3>2. PutLink(s, id, m).windows = s.windows
        BY DEF PutLink, IsFullSession, StartSession
    <3>3. AfterTransfer(s, out, f) = Moved(id, m, w)
        BY <3>2 DEF AfterTransfer
    <3> HIDE DEF m, w, id, Good, Moved
    <3> QED BY <1>5, <3>1, <3>3
  <2> QED BY <1>1, <1>11, <2>1 DEF SessionStep, Judged, Admitted
<1> QED BY <1>2, <1>3, <1>7, <1>8, <1>9, <1>10, <1>11 DEF IsFrame, Bodies

-----------------------------------------------------------------------------
(* The type invariant. *)

\* A step of the endpoint is one of its frames offered.
LEMMA NextOffers ==
    ASSUME Next
    PROVE  \E out \in BOOLEAN, f \in Sends \cup Receives : IsFrame(f) /\ Offer(out, f)
BY EndpointAssumption
   DEF Next, Begin, End, Attach, Flow, Transfer, Disposition, Detach, Offered

Records(s) == IsFullSession(s) /\ OwnTyped(s) /\ AllTyped(s)

\* The session stays a record of records, each field of its type.
THEOREM RecordsAlways == Spec => []Records(session)
<1>1. Init => Records(session)
  <2> SUFFICES ASSUME Init PROVE Records(StartSession)
      BY DEF Init
  <2>1. StartWindows \in Windows
      BY SessionAssumption DEF StartWindows, Windows
  <2>2. IsFullSession(StartSession) /\ AllTyped(StartSession)
      BY DEF IsFullSession, IsSession, AllTyped, StartSession
  <2>3. OwnTyped(StartSession)
      BY <2>1, SessionAssumption DEF OwnTyped, StartSession, SessionStates, Optional
  <2> QED BY <2>2, <2>3 DEF Records
<1>2. AllCoherent(session) /\ AllControlled(session) /\ Records(session) /\ [Next]_vars =>
          Records(session)'
  <2> SUFFICES ASSUME AllCoherent(session), AllControlled(session), Records(session),
                      [Next]_vars
               PROVE  Records(session')
      OBVIOUS
  <2>1. CASE Next
      BY <2>1, NextOffers, StepKeepsTyped, StepKeepsOwn DEF Offer, Records, IsFullSession
  <2>2. CASE UNCHANGED vars
      BY <2>2 DEF vars
  <2> QED BY <2>1, <2>2
<1> QED BY <1>1, <1>2, CoherentAlways, ControlledAlways, PTL DEF Spec

\* Every field of the session, its windows and its links stays of the type it
\* is declared with (the structures of Session.lean and Protocol.lean).
THEOREM TypeAlwaysOK == Spec => []TypeOK
<1>1. Records(session) => TypeOK
    BY DEF Records, OwnTyped, AllTyped, Typed, TypeOK, Handles
<1> QED BY <1>1, RecordsAlways, PTL

-----------------------------------------------------------------------------
(* Credit. *)

\* How frame f moves the position of a link l this end sends on, to make it m.
PositionMoved(m, l, out, f) ==
    /\ f.body = "attach" /\ out =>
           m.position.count \in Nat /\ m.position.credit = 0 /\ m.local.life = "attached"
    /\ f.body = "attach" /\ ~out =>
           m.position = IF l.position # Unset THEN l.position ELSE [count |-> 0, credit |-> 0]
    /\ f.body = "detach" => m.position = IF out THEN Unset ELSE l.position
    /\ f.body = "flow" /\ l.position = Unset => m.position = Unset
    /\ f.body = "flow" /\ l.position # Unset =>
           /\ m.position.count = l.position.count
           /\ m.position.credit = CreditFor(CountOf(f), Given(f.credit, 0), l.position.count)
    /\ f.body = "transfer" =>
           out /\ m.position = PositionAfter(l, out) /\ (~Continued(l) => HasCredit(l))
    /\ f.body = "disposition" => m.position = l.position
    /\ m.local = l.local \/ (out /\ f.body \in {"attach", "detach"})

\* A frame that is taken moves a position so.
LEMMA PositionMoves ==
    ASSUME NEW s, NEW out \in BOOLEAN, NEW f, NEW id, NEW l, Typed(l), IsFrame(f),
           Taken(s, out, f), Concerns(s, out, f, id), id.role = "sender",
           f.body # "attach" => id \in DOMAIN s.links /\ l = s.links[id]
    PROVE  PositionMoved(LinkAfter(id, l, out, f), l, out, f)
<1> DEFINE Same(m, n) == /\ DOMAIN m = DOMAIN n
                         /\ m.position = n.position /\ m.local = n.local
<1>1. ASSUME NEW m, Typed(m)
      PROVE  /\ Same(NoDelivery(m), m) /\ Same(WithModes(m, f), m)
             /\ Same(WithControlLink(m, out, f), m)
             /\ Same(WithTransaction(m, out, f.value), m)
             /\ Same(SettledBy(m, f), m)
  <2>1. Same(NoDelivery(m), m)
      BY <1>1 DEF NoDelivery, Typed, IsFullLink, BlankLink
  <2>2. Same(WithModes(m, f), m)
      BY <1>1 DEF WithModes, Typed, IsFullLink, BlankLink
  <2>3. Same(WithControlLink(m, out, f), m)
      BY <1>1 DEF WithControlLink, Typed, IsFullLink, BlankLink
  <2>4. Same(WithTransaction(m, out, f.value), m)
      BY <1>1 DEF WithTransaction, Typed, IsFullLink, BlankLink
  <2>5. Same(SettledBy(m, f), m)
      BY <1>1 DEF SettledBy, NoDelivery, Typed, IsFullLink, BlankLink
  <2> QED BY <2>1, <2>2, <2>3, <2>4, <2>5
<1>2. CASE f.body = "attach"
  <2> DEFINE n == NoDelivery(WithModes(l, f))
             m == IF out THEN AfterSentAttach(l, f) ELSE AfterReceivedAttach(l, f)
  <2>1. /\ f.role = "sender" => f.initialCount \in Nat
        /\ {f.incomplete, f.second} \subseteq BOOLEAN
      BY <1>2 DEF Taken, AttachAdmits, IsFrame, Optional
  <2>2. Typed(m)
      BY <2>1, AttachTyped
  <2>3. Typed(n) /\ Same(n, l)
      BY <1>1, <2>1, WithModesTyped, NoDeliveryTyped
  <2>4. Same(LinkAfter(id, l, out, f), m)
      BY <1>1, <1>2, <2>2 DEF LinkAfter
  <2>5. id.role = IF out THEN f.role ELSE Opposite(f.role)
      BY <1>2 DEF Concerns, AttachId
  <2>6. CASE out
    <3>1. m = [n EXCEPT !.local      = [life |-> "attached", incomplete |-> f.incomplete],
                        !.position   = FreshPosition(f),
                        !.peerCount  = 0,
                        !.peerCredit = 0]
        BY <2>6 DEF AfterSentAttach
    <3> HIDE DEF n, m
    <3>2. m.position = FreshPosition(f) /\ m.local.life = "attached"
        BY <2>3, <3>1 DEF Typed, IsFullLink, BlankLink
    <3>3. FreshPosition(f).count \in Nat /\ FreshPosition(f).credit = 0
        BY <2>1 DEF FreshPosition
    <3> QED BY <1>2, <2>4, <2>6, <3>2, <3>3 DEF PositionMoved
  <2>7. CASE ~out
    <3>1. f.role # "sender"
        BY <2>5, <2>7 DEF Opposite
    <3>2. m = [n EXCEPT !.remote    = [life |-> "attached", incomplete |-> f.incomplete],
                        !.peerCount = IF f.role = "sender" THEN f.initialCount ELSE @,
                        !.position  = IF f.role = "sender" \/ @ # Unset THEN @
                                      ELSE FreshPosition(f)]
        BY <2>7 DEF AfterReceivedAttach
    <3>3. FreshPosition(f) = [count |-> 0, credit |-> 0]
        BY <3>1 DEF FreshPosition
    <3> HIDE DEF n, m
    <3>4. /\ m.position = IF l.position # Unset THEN l.position ELSE FreshPosition(f)
          /\ m.local = l.local
        BY <2>3, <3>1, <3>2 DEF Typed, IsFullLink, BlankLink
    <3> QED BY <1>2, <2>4, <2>7, <3>3, <3>4 DEF PositionMoved
  <2> QED BY <2>6, <2>7
<1>3. CASE f.body = "detach"
  <2> DEFINE ended == IF f.error THEN [NoDelivery(l) EXCEPT !.unsettled = <<>>] ELSE l
             gone  == [life |-> IF f.closed THEN "destroyed" ELSE "detached",
                       incomplete |-> FALSE]
             freed == [ended EXCEPT !.peerCount  = 0,
                                    !.peerCredit = 0,
                                    !.transactions = IF @ = Unset THEN @ ELSE RetireAll(@)]
  <2>1. Same(ended, l) /\ DOMAIN l = DOMAIN BlankLink
      BY DEF NoDelivery, Typed, IsFullLink, BlankLink
  <2> HIDE DEF ended, gone
  <2>2. Same(freed, l)
      BY <2>1 DEF BlankLink
  <2> HIDE DEF freed
  <2>3. LinkAfter(id, l, out, f) =
            IF out THEN [freed EXCEPT !.local = gone, !.position = Unset]
                   ELSE [freed EXCEPT !.remote = gone]
      BY <1>3 DEF LinkAfter, AfterDetachOf, freed, ended, gone
  <2> QED BY <1>3, <2>1, <2>2, <2>3 DEF BlankLink, PositionMoved
<1>4. CASE f.body = "flow"
    BY <1>4 DEF LinkAfter, LinkAfterFlow, Typed, IsFullLink, BlankLink, LinkOK, Positions,
                Optional, PositionMoved
<1>5. CASE f.body = "transfer"
  <2>1. out /\ TransferAdmits(l, out, f)
      BY <1>5 DEF Taken, TransferTaken, Concerns, Ignored, IdOf
  <2>2. Typed(LinkAfterTransfer(l, out, f))
      BY <1>5, <2>1, TransferTyped DEF Taken, IsFrame
  <2>3. /\ LinkAfterTransfer(l, out, f).position = PositionAfter(l, out)
        /\ LinkAfterTransfer(l, out, f).local = l.local
      BY DEF LinkAfterTransfer, NoDelivery, Typed, IsFullLink, BlankLink
  <2>4. ~Continued(l) => HasCredit(l)
      BY <2>1 DEF TransferAdmits
  <2>5. LinkAfter(id, l, out, f) = WithTransaction(LinkAfterTransfer(l, out, f), out, f.value)
      BY <1>5, <2>1 DEF LinkAfter, Ignored
  <2>6. Same(LinkAfter(id, l, out, f), LinkAfterTransfer(l, out, f))
      BY <1>1, <2>2, <2>5
  <2> QED BY <1>5, <2>1, <2>3, <2>4, <2>6 DEF PositionMoved
<1>6. CASE f.body = "disposition"
  <2> DEFINE n == IF f.settled THEN SettledBy(l, f) ELSE l
  <2>1. Typed(n) /\ Same(n, l)
      BY <1>1, SettledByTyped
  <2> HIDE DEF n
  <2> QED BY <1>1, <1>6, <2>1 DEF LinkAfter, PositionMoved, n
<1> QED BY <1>2, <1>3, <1>4, <1>5, <1>6 DEF Concerns

\* What this end may send on is what `granted' speaks of.
Sending(s) == {id \in DOMAIN s.links : id.role = "sender" /\ s.links[id].position # Unset}

\* CreditWithinGrant, and a count that starts no sooner than this end attaches.
Credited(s, g) ==
    /\ DOMAIN g = Sending(s)
    /\ \A id \in Sending(s) :
           LET p == s.links[id].position
           IN  /\ p.count + p.credit = g[id]
               /\ s.links[id].local.life # "attached" => p.count = 0

\* A flow moves no handle, so it names after it the link it named before.
LEMMA FlowKeepsHandles ==
    ASSUME NEW s, NEW f, f.body = "flow", IsFullSession(s)
    PROVE  SessionStep(s, FALSE, f).session.remoteHandles = s.remoteHandles
<1>1. AfterFlow(s, FALSE, f).remoteHandles = s.remoteHandles
    BY DEF AfterFlow, PutLink, IsFullSession, StartSession
<1> QED BY <1>1 DEF SessionStep, Judged, Admitted, Declined, Placed, IsFullSession, IsSession

\* What the credit invariant rests on.
Grounded == /\ Well(session) /\ AllCoherent(session) /\ AllControlled(session)
            /\ Records(session)

\* No frame moves a sender's count and credit but to where its partner lets it.
LEMMA OfferKeepsCredit ==
    ASSUME Grounded, Credited(session, granted), NEW out \in BOOLEAN, NEW f, IsFrame(f),
           Offer(out, f)
    PROVE  Credited(session', granted')
<1> DEFINE r == SessionStep(session, out, f)
           after == session'
<1>1. Moves(r, session, out, f) /\ after = r.session
    BY StepMoves DEF Grounded, Well, Offer, IsFrame
<1>2. CASE after.links = session.links /\ granted' = granted
    BY <1>2 DEF Credited, Sending
<1>3. CASE /\ Taken(session, out, f) /\ IsAfter(after.links, session, out, f)
           /\ granted' = Limits(out, f, after)
  <2>1. DOMAIN granted' = Sending(after)
      BY <1>3 DEF Limits, Sending
  <2> SUFFICES ASSUME NEW id \in Sending(after)
               PROVE  LET p == after.links[id].position
                      IN  /\ p.count + p.credit = granted'[id]
                          /\ after.links[id].local.life # "attached" => p.count = 0
      BY <2>1 DEF Credited
  <2> DEFINE l == LinkOrBlank(session, id)
             m == after.links[id]
             p == m.position
             flow == f.body = "flow" /\ Concerns(session, out, f, id)
             attach == f.body = "attach" /\ Concerns(session, out, f, id)
  <2>2. id \in DOMAIN after.links /\ id.role = "sender" /\ p # Unset
      BY DEF Sending
  <2>3. Typed(l) /\ (id \in DOMAIN session.links => l = session.links[id])
      BY BlankIsTyped DEF LinkOrBlank, Grounded, Records, AllTyped
  <2>4. /\ Concerns(session, out, f, id) => m = LinkAfter(id, l, out, f)
        /\ ~Concerns(session, out, f, id) => id \in DOMAIN session.links /\ m = l
      BY <1>3, <2>2, <2>3 DEF IsAfter, Concerns
  <2>5. ASSUME id \in Sending(session)
        PROVE  /\ l.position \in Positions
               /\ l.position.count + l.position.credit = granted[id]
               /\ l.local.life # "attached" => l.position.count = 0
      BY <2>3, <2>5 DEF Credited, Sending, Typed, LinkOK, Optional
  <2>6. id \in Sending(session) <=> l.position # Unset
      BY <2>2, <2>3 DEF Sending, LinkOrBlank, BlankLink
  <2>7. flow => id \in DOMAIN session.links
    <3> SUFFICES ASSUME flow PROVE id \in DOMAIN session.links
        OBVIOUS
    <3> QED BY <1>3 DEF Concerns, Taken, FlowAdmits, Resolves, IdOf
  <2>8. (/\ f.body = "flow" /\ ~out /\ Resolves(after, out, f.handle)
         /\ IdOf(after, out, f.handle) = id) <=> flow
    <3>1. CASE f.body = "flow" /\ ~out
      <4>1. after.remoteHandles = session.remoteHandles /\ DOMAIN after.links = DOMAIN session.links
          BY <1>1, <1>3, <3>1, FlowKeepsHandles DEF IsAfter, Grounded, Records
      <4>2. Unset \notin DOMAIN session.remoteHandles
          BY SessionAssumption DEF Grounded, Records, OwnTyped
      <4>3. flow <=> f.handle # Unset /\ id = IdOf(session, out, f.handle)
          BY <3>1 DEF Concerns
      <4>4. flow => Resolves(session, out, f.handle)
          BY <1>3, <3>1, <4>3 DEF Taken, FlowAdmits
      <4> QED BY <3>1, <4>1, <4>2, <4>3, <4>4 DEF Resolves, IdOf, Handles
    <3>2. CASE ~(f.body = "flow" /\ ~out)
        BY <3>2 DEF Concerns
    <3> QED BY <3>1, <3>2
  <2>9. granted'[id] =
            IF flow THEN p.count + Given(f.credit, 0)
            ELSE IF attach /\ (out \/ id \notin DOMAIN granted) THEN p.count
            ELSE granted[id]
      BY <1>3, <2>2, <2>8 DEF Limits, Concerns
  <2>10. Concerns(session, out, f, id) => PositionMoved(m, l, out, f)
    <3>1. f.body # "attach" /\ Concerns(session, out, f, id) => id \in DOMAIN session.links
        BY <1>3 DEF Taken, TransferTaken, FlowAdmits, Concerns, Resolves, IdOf, Targets
    <3> HIDE DEF l, m
    <3> QED BY <1>3, <2>2, <2>3, <2>4, <3>1, PositionMoves
  <2> HIDE DEF l, m, p
  <2>11. CASE ~Concerns(session, out, f, id)
      BY <2>2, <2>4, <2>5, <2>6, <2>9, <2>11 DEF m, p
  <2>12. CASE attach
    <3>1. CASE out
        BY <2>2, <2>9, <2>12, <2>10, <3>1 DEF m, p, PositionMoved
    <3>2. CASE ~out
      <4>1. p = IF l.position # Unset THEN l.position ELSE [count |-> 0, credit |-> 0]
          BY <2>12, <2>10, <3>2 DEF p, PositionMoved
      <4>2. m.local = l.local
          BY <2>12, <2>10, <3>2 DEF p, PositionMoved
      <4> QED BY <2>5, <2>6, <2>9, <2>12, <3>2, <4>1, <4>2 DEF m, p, Credited
    <3> QED BY <3>1, <3>2
  <2>13. CASE f.body = "detach" /\ Concerns(session, out, f, id)
    <3>1. ~out /\ p = l.position /\ m.local = l.local
        BY <2>2, <2>13, <2>10 DEF p, PositionMoved
    <3> QED BY <2>2, <2>5, <2>6, <2>9, <2>13, <3>1 DEF m, p
  <2>14. CASE flow
    <3>1. /\ l.position = Unset => p = Unset
          /\ l.position # Unset =>
                 /\ p.count = l.position.count
                 /\ p.credit = CreditFor(CountOf(f), Given(f.credit, 0), l.position.count)
          /\ m.local = l.local
        BY <2>14, <2>10 DEF p, PositionMoved
    <3>2. id \in Sending(session) /\ l.position \in Positions
        BY <2>2, <2>5, <2>6, <3>1
    <3>3. CountOf(f) = l.position.count
      <4>1. FlowAdmits(session, out, f) /\ f.handle # Unset /\ ~out
            /\ id = IdOf(session, out, f.handle)
          BY <1>3, <2>14 DEF Taken, Concerns
      <4>2. CountAgrees(id, l, out, f)
          BY <2>3, <2>7, <2>14, <4>1 DEF FlowAdmits
      <4>3. CASE ReceiverBeforeSender(id, l, out)
        <5>1. l.local.life # "attached"
            BY <4>1, <4>3 DEF ReceiverBeforeSender, EndpointOf
        <5>2. CountOf(f) = 0
            BY <4>2, <4>3 DEF CountAgrees, CountOf, CountSet
        <5> QED BY <2>5, <3>2, <5>1, <5>2
      <4>4. CASE ~ReceiverBeforeSender(id, l, out)
        <5>1. f.count = l.position.count
            BY <2>6, <3>2, <4>2, <4>4 DEF CountAgrees
        <5> QED BY <3>2, <5>1, SessionAssumption DEF CountOf, CountSet, Positions
      <4> QED BY <4>3, <4>4
    <3>4. Given(f.credit, 0) \in Nat
        BY <1>3, <2>14 DEF IsFrame, Taken, Given, Optional
    <3>5. p.credit = Given(f.credit, 0)
        BY <2>6, <3>1, <3>2, <3>3, <3>4 DEF CreditFor, Minus, Positions
    <3> QED BY <2>5, <2>6, <2>9, <2>14, <3>1, <3>2, <3>5 DEF m, p
  <2>15. CASE f.body = "transfer" /\ Concerns(session, out, f, id)
    <3>1. id \in DOMAIN session.links
        BY <1>3, <2>15 DEF Concerns, Taken, TransferTaken, Resolves, IdOf
    <3>2. /\ out /\ p = PositionAfter(l, out) /\ m.local = l.local
          /\ ~Continued(l) => HasCredit(l)
        BY <2>15, <2>10 DEF p, PositionMoved
    <3>3. l.position # Unset
        BY <2>2, <3>2 DEF PositionAfter
    <3>4. l.local.life = "attached"
      <4>1. f.handle \in DOMAIN session.localHandles /\ session.localHandles[f.handle] = id
          BY <1>3, <2>15, <3>2
             DEF Concerns, Taken, TransferTaken, Resolves, IdOf, Handles
      <4> QED BY <2>3, <3>1, <4>1 DEF Grounded, Well, Associated, Attached, EndpointOf
    <3>5. CASE Continued(l)
        BY <2>5, <2>6, <2>9, <2>15, <3>2, <3>3, <3>5 DEF PositionAfter, m, p
    <3>6. CASE ~Continued(l)
      <4>1. /\ p.count = l.position.count + 1
            /\ p.credit = Minus(l.position.credit, 1)
            /\ l.position.credit > 0
          BY <3>2, <3>3, <3>6 DEF PositionAfter, HasCredit
      <4>2. l.position.count \in Nat /\ l.position.credit \in Nat
          BY <2>5, <2>6, <3>3 DEF Positions
      <4>3. p.count + p.credit = l.position.count + l.position.credit
          BY <4>1, <4>2 DEF Minus
      <4> QED BY <2>5, <2>6, <2>9, <2>15, <3>2, <3>3, <3>4, <4>3 DEF m, p
    <3> QED BY <3>5, <3>6
  <2>16. CASE f.body = "disposition" /\ Concerns(session, out, f, id)
    <3>1. p = l.position /\ m.local = l.local
        BY <2>16, <2>10 DEF p, PositionMoved
    <3> QED BY <2>2, <2>5, <2>6, <2>9, <2>16, <3>1 DEF m, p
  <2> QED BY <2>11, <2>12, <2>13, <2>14, <2>15, <2>16 DEF Concerns
<1> QED BY <1>1, <1>2, <1>3 DEF Moves, Offer

\* What the partner granted bounds every sender's count and credit.
THEOREM CreditedAlways == Spec => []Credited(session, granted)
<1>1. Init => Credited(session, granted)
    BY DEF Init, StartSession, Credited, Sending
<1>2. Grounded /\ Credited(session, granted) /\ [Next]_vars => Credited(session, granted)'
  <2> SUFFICES ASSUME Grounded, Credited(session, granted), [Next]_vars
               PROVE  Credited(session', granted')
      OBVIOUS
  <2>1. CASE Next
      BY <2>1, NextOffers, OfferKeepsCredit
  <2>2. CASE UNCHANGED vars
      BY <2>2 DEF vars
  <2> QED BY <2>1, <2>2
<1> QED BY <1>1, <1>2, WellAlways, CoherentAlways, ControlledAlways, RecordsAlways, PTL
        DEF Spec, Grounded

\* A sender's count and credit stay within what its partner granted last,
\* whatever is fragmented, aborted, settled or detached in between
\* (stepTransfer, creditFor).
THEOREM CreditAlwaysWithinGrant == Spec => []CreditWithinGrant
<1>1. Credited(session, granted) => CreditWithinGrant
    BY DEF Credited, Sending, CreditWithinGrant
<1> QED BY <1>1, CreditedAlways, PTL
=============================================================================
