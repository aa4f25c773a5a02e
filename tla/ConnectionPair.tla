---------------------------- MODULE ConnectionPair ----------------------------
(***************************************************************************)
(* Two endpoints of lean/Spec/Connection.lean joined by the two directions *)
(* of one TCP stream.  An application at each end asks its core to send;   *)
(* what the core writes travels in order and arrives one unit at a time    *)
(* (Impl.Stream.nextUnit).                                                 *)
(*                                                                         *)
(* The cores are the code.  The applications are not: the repository ships *)
(* the seam (Shell.Driver.App) and leaves the policy outside.  Disciplined *)
(* below is all that is assumed of them, one conjunct per assumption.      *)
(***************************************************************************)
EXTENDS Connection

CONSTANTS
    Offered,       \* Offered[p]: the frames the application at p may send
    FirstLayers,   \* the layers the applications may begin with
    Pipelined,     \* whether an open may precede the partner's header
    MaxInFlight,   \* bound: units in flight at which no relayed frame is sent
    MaxChallenges  \* bound: challenges in one dialogue

Peers == {"client", "server"}
Other(p) == IF p = "client" THEN "server" ELSE "client"

ASSUME PairAssumption ==
    /\ Offered \in [Peers -> SUBSET Frames]
    /\ FirstLayers \subseteq Layers
    /\ Pipelined \in BOOLEAN
    /\ MaxInFlight \in Nat
    /\ MaxChallenges \in Nat

VARIABLES
    conn,   \* conn[p]: the connection state of the core at p
    wire,   \* wire[p]: the units written and on their way to p
    app,    \* app[p]: what the application at p remembers of the SASL dialogue
    first   \* the layer the applications begin with

vars == <<conn, wire, app, first>>

-----------------------------------------------------------------------------
(* The applications. *)

\* `owes': a challenge crossed that the client has not answered.
NewApp == [authenticated |-> FALSE, owes |-> FALSE, challenges |-> 0]

LayerWanted(p) == IF app[p].authenticated THEN "amqp" ELSE first

\* The server announces, challenges and decides; the client initiates, and
\* responds once to each challenge.
SaslTurn(p, f) ==
    CASE f.body \in {"mechanisms", "outcome"} -> p = "server" /\ ~app[p].owes
      [] f.body = "challenge" ->
           p = "server" /\ ~app[p].owes /\ app[p].challenges < MaxChallenges
      [] f.body = "init"     -> p = "client"
      [] f.body = "response" -> p = "client" /\ app[p].owes

Disciplined(p, u) ==
    IF u.kind = "header"
    THEN u.layer = LayerWanted(p)
    ELSE /\ u.body = "open" /\ ~Pipelined => conn[p].state # "HDR_SENT"
         /\ u.body = "close" => conn[p].state \in {"OPENED", "CLOSE_RCVD"}
         /\ u.body \in SaslBodies => first = "sasl" /\ SaslTurn(p, u)
         /\ u.body = "other" => Len(wire[Other(p)]) < MaxInFlight

\* What the application remembers once its core has taken u.
Remembering(a, u) ==
    IF u.kind # "frame" THEN a
    ELSE CASE u.body = "outcome"   -> [a EXCEPT !.authenticated = TRUE]
           [] u.body = "challenge" -> [a EXCEPT !.owes = TRUE, !.challenges = @ + 1]
           [] u.body = "response"  -> [a EXCEPT !.owes = FALSE]
           [] OTHER                -> a

-----------------------------------------------------------------------------

Init == /\ conn = [p \in Peers |-> InitialEndpoint]
        /\ wire = [p \in Peers |-> <<>>]
        /\ app  = [p \in Peers |-> NewApp]
        /\ first \in FirstLayers

\* The core at p answered r to unit u: it moves, and writes towards its partner.
Answered(p, u, r) ==
    /\ conn' = [conn EXCEPT ![p] = r.conn]
    /\ app'  = [app EXCEPT ![p] = IF r.ok THEN Remembering(@, u) ELSE @]
    /\ UNCHANGED first

\* Impl.Core.submit, then Shell.Driver.writeOutputs.
Submit(p, u) ==
    LET r == Sending(conn[p], u)
    IN  /\ Disciplined(p, u)
        /\ Answered(p, u, r)
        /\ wire' = [wire EXCEPT ![Other(p)] = @ \o r.wrote]

\* Impl.Core.step on the next unit of the stream, then writeOutputs.
Deliver(p) ==
    /\ wire[p] # <<>>
    /\ LET u == Head(wire[p])
           r == Arriving(conn[p], u)
       IN  /\ Answered(p, u, r)
           /\ wire' = [wire EXCEPT ![p] = Tail(@), ![Other(p)] = @ \o r.wrote]

Next == \E p \in Peers : \/ \E u \in Headers    : Submit(p, u)
                         \/ \E u \in Offered[p] : Submit(p, u)
                         \/ Deliver(p)

\* A send that takes the handshake or the dialogue further.  Relayed frames,
\* challenges and the first close are the application's choice.
Owed(p, u) ==
    /\ Sending(conn[p], u).ok
    /\ u.kind = "frame" => \/ u.body \in SaslBodies \ {"challenge"}
                           \/ u.body = "open"
                           \/ u.body = "close" /\ conn[p].state = "CLOSE_RCVD"
    /\ Submit(p, u)

\* The stream delivers, the pump keeps reading, and the shell asks the
\* application after every unit; the application then does what it owes.
Fairness == \A p \in Peers :
                /\ WF_vars(Deliver(p))
                /\ WF_vars(\E u \in Headers \cup Offered[p] : Owed(p, u))

Spec == Init /\ [][Next]_vars /\ Fairness

-----------------------------------------------------------------------------
(* Safety. *)

TypeOK == /\ conn \in [Peers -> Endpoints]
          /\ wire \in [Peers -> Seq(Units)]
          /\ app \in [Peers -> [authenticated : BOOLEAN, owes : BOOLEAN,
                              challenges : 0..MaxChallenges]]
          /\ first \in FirstLayers

\* Whatever one core lets its application send, the other takes: the send
\* column and the limits a sender goes by, at the time it sends, agree with
\* the receive column and the limits the receiver goes by, at the time it
\* hears.
NothingRefused == \A p \in Peers :
    wire[p] # <<>> => Arriving(conn[p], Head(wire[p])).ok

\* A peer that has heard an open in this exchange knows exactly what its
\* partner accepts.
LimitsAgree == \A p \in Peers :
    conn[p].state \in {"OPEN_RCVD", "OPENED", "CLOSE_RCVD", "CLOSE_SENT", "END"} =>
        conn[p].remoteLimits = conn[Other(p)].localLimits

\* Two peers in one dialogue have opposite roles, know the same mechanisms,
\* and are at most one frame apart.
DialoguesAgree == \A p \in Peers :
    conn[p].role # "none" /\ conn[Other(p)].role # "none" =>
        /\ conn[p].role # conn[Other(p)].role
        /\ conn[p].mechanisms = conn[Other(p)].mechanisms
        /\ Rank(conn[p].phase) <= Rank(conn[Other(p)].phase) + 1

\* No peer opens an authenticated connection, or hears it opened, while its
\* partner's security layer is still undecided.  (The server is back in the AMQP
\* layer, as far as its header, before its outcome has arrived.)
AuthenticatedTogether == first = "sasl" => \A p \in Peers :
    conn[p].state \in {"OPEN_SENT", "OPEN_RCVD", "OPENED"} =>
        \A q \in Peers : app[q].authenticated /\ conn[q].layer = "amqp"

\* Nothing is on its way to a peer whose connection has ended.
EndHearsNothing == \A p \in Peers : conn[p].state = "END" => wire[p] = <<>>

-----------------------------------------------------------------------------
(* Liveness. *)

Opened(p) == conn[p].state \in {"OPENED", "CLOSE_SENT", "CLOSE_RCVD", "END"}

\* Both connections open.
BothOpen == <>(\A p \in Peers : Opened(p))

\* Once a close is under way both connections end, whoever began it and
\* whatever was in flight.
CloseCompletes ==
    (\E p \in Peers : conn[p].state \in {"CLOSE_SENT", "CLOSE_RCVD", "END"})
        ~> (\A p \in Peers : conn[p].state = "END")

-----------------------------------------------------------------------------
(* The state table as the pair of stages its names stand for.  A peer whose  *)
(* security layer is undecided has not begun.                                *)

Begun(p) == first = "amqp" \/ app[p].authenticated

SaidBy(state) ==
    CASE state \in {"START", "HDR_RCVD"}                                -> 0
      [] state \in {"HDR_SENT", "HDR_EXCH", "OPEN_RCVD"}                -> 1
      [] state \in {"OPEN_SENT", "OPEN_PIPE", "OPENED", "CLOSE_RCVD"}   -> 2
      [] OTHER                                                          -> 3

HeardBy(state) ==
    CASE state \in {"START", "HDR_SENT", "OPEN_PIPE", "OC_PIPE"}        -> 0
      [] state \in {"HDR_RCVD", "HDR_EXCH", "OPEN_SENT", "CLOSE_PIPE"}  -> 1
      [] state \in {"OPEN_RCVD", "OPENED", "CLOSE_SENT"}                -> 2
      [] OTHER                                                          -> 3

H == INSTANCE Handshake WITH
         said  <- [p \in Peers |-> IF Begun(p) THEN SaidBy(conn[p].state) ELSE 0],
         heard <- [p \in Peers |-> IF Begun(p) THEN HeardBy(conn[p].state) ELSE 0]

\* The pair implements the handshake, from the start or from the outcome of a
\* security layer on.
ImplementsHandshake == H!Spec
=============================================================================
