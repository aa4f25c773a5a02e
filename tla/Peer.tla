---------------------------------- MODULE Peer ----------------------------------
(***************************************************************************)
(* One peer: the connection of Connection and one session of Links under   *)
(* it, as lean/Spec/SessionCodec.lean puts them together.  A step is given *)
(* a direction and a wire unit and answers with the peer it leaves, its    *)
(* verdict, and the layer whose state the answer reports.                  *)
(***************************************************************************)
EXTENDS Connection, Links

CONSTANTS MaxFrameSizeDefault, ChannelMaxDefault   \* of an open that leaves them unset

ASSUME PeerAssumption == MaxFrameSizeDefault \in Nat /\ ChannelMaxDefault \in Nat

DeclaredLimits == [maxFrameSize |-> MaxFrameSizeDefault, channelMax |-> ChannelMaxDefault]

-----------------------------------------------------------------------------
(* Where a peer may start. *)

EstablishedConnection == [InitialEndpoint EXCEPT !.state        = "OPENED",
                                                 !.localLimits  = DeclaredLimits,
                                                 !.remoteLimits = DeclaredLimits]

\* A session named by its state is on channel 1, in the directions the state
\* has mapped.
SessionAt(state) ==
    [StartSession EXCEPT
        !.state     = state,
        !.outgoing  = IF state \in {"BEGIN_SENT", "MAPPED", "END_RCVD"} THEN 1 ELSE Unset,
        !.incoming  = IF state \in {"BEGIN_RCVD", "MAPPED", "END_SENT", "DISCARDING"}
                      THEN 1 ELSE Unset,
        !.peerBegun = state \notin {"UNMAPPED", "BEGIN_SENT"}]

StartPeer(layer, state) ==
    IF layer = "connection"
    THEN [conn |-> [InitialEndpoint EXCEPT !.state = state], session |-> StartSession]
    ELSE [conn |-> EstablishedConnection, session |-> SessionAt(state)]

-----------------------------------------------------------------------------
(* One step. *)

IsSessionFrame(u) ==
    u.kind = "frame" /\ u.body \notin {"open", "close", "none"} \cup SaslBodies

StateOf(peer, layer) ==
    <<layer, IF layer = "connection" THEN peer.conn.state ELSE peer.session.state>>

Answered(peer, ok, layer) == [peer |-> peer, ok |-> ok, state |-> StateOf(peer, layer)]

\* A refusal that closes the connection is answered by its close.
BySession(peer, out, u) ==
    LET r == SessionStep(peer.session, out, u)
    IN  IF r.closes
        THEN Answered([peer EXCEPT !.conn.state = "CLOSE_SENT"], FALSE, "connection")
        ELSE Answered([peer EXCEPT !.session = r.session], r.ok, "session")

\* Mutant: a frame on channel zero is a session's as any other.
MutPeerStep(peer, out, u) ==
    LET r       == IF out THEN Sending(peer.conn, u) ELSE Arriving(peer.conn, u)
        relayed == [peer EXCEPT !.conn = r.conn]
    IN  IF ~IsSessionFrame(u) \/ ~r.ok \/ r.conn.state = "DISCARDING"
        THEN Answered(relayed, r.ok, "connection")
        ELSE BySession(relayed, out, u)

\* The connection first: a frame it does not carry, or discards, no session
\* answers.  It has no session to hand a frame on channel zero to.
PeerStep(peer, out, u) ==
    LET r       == IF out THEN Sending(peer.conn, u) ELSE Arriving(peer.conn, u)
        relayed == [peer EXCEPT !.conn = r.conn]
    IN  IF ~IsSessionFrame(u) \/ ~r.ok THEN Answered(relayed, r.ok, "connection")
        ELSE IF u.channel = 0 THEN Answered(relayed, FALSE, "connection")
        ELSE IF r.conn.state = "DISCARDING" THEN Answered(relayed, TRUE, "connection")
        ELSE BySession(relayed, out, u)
=============================================================================
