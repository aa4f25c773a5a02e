------------------------------ MODULE SessionPair ------------------------------
(***************************************************************************)
(* Two sessions of lean/Spec/Protocol.lean, one at each end of a channel   *)
(* that keeps order, with one link between them: the client sends on it,   *)
(* the server receives.                                                    *)
(*                                                                         *)
(* The sessions are the code.  The applications are not: the repository    *)
(* has none above the connection.  Each composes frames that say of its    *)
(* own session what is so (its windows, its ids, its delivery-count), and  *)
(* sends what its session takes.  Begins .. Transfers below are those      *)
(* frames; Disciplined is what is assumed besides, a conjunct per          *)
(* assumption.                                                             *)
(***************************************************************************)
EXTENDS Links, Sequences

CONSTANTS
    FirstId,       \* next-outgoing-id of each begin
    Window,        \* the incoming-window of each begin, and so the transfers of
                   \* a session
    InitialCount,  \* initial-delivery-count of the client's attaches
    Modes,         \* snd-settle-mode of the client's attaches
    Grants,        \* the credits the server may grant
    Eager,         \* whether the server grants while it has credit outstanding
    MaxInFlight    \* bound: frames in flight at which no flow is sent

ASSUME PairAssumption ==
    /\ FirstId \in Nat /\ Window \in Nat /\ InitialCount \in Nat
    /\ Grants \subseteq Nat /\ Eager \in BOOLEAN /\ MaxInFlight \in Nat

Peers == {"client", "server"}
Other(p) == IF p = "client" THEN "server" ELSE "client"

Role(p) == IF p = "client" THEN "sender" ELSE "receiver"
Id(p)   == [name |-> "link", role |-> Role(p)]

VARIABLES
    session,  \* session[p]: the session at p
    wire,     \* wire[p]: the frames on their way to p
    leader,   \* the end that attaches and detaches the link first
    begun,    \* begun[p]: whether p has begun the session
    granted   \* the delivery-count the server has let the client go up to

vars == <<session, wire, leader, begun, granted>>

Link(p)     == LinkOrBlank(session[p], Id(p))
Local(p)    == Link(p).local.life
Remote(p)   == Link(p).remote.life
Position(p) == Given(Link(p).position, [count |-> 0, credit |-> 0])

-----------------------------------------------------------------------------
(* The frames an application may compose. *)

\* Each end has a channel and a handle of its own choice.
Channel(p) == IF p = "client" THEN 1 ELSE 2
Handle(p)  == IF p = "client" THEN 0 ELSE 1

Frame(p, body, fields) ==
    [k \in {"body", "channel", "complete"} \cup DOMAIN fields |->
        CASE k = "body"     -> body
          [] k = "channel"  -> Channel(p)
          [] k = "complete" -> TRUE
          [] OTHER          -> fields[k]]

Begins(p) ==
    {Frame(p, "begin", [remoteChannel |-> session[p].incoming, nextOutgoing |-> FirstId,
                        incoming |-> Window, outgoing |-> 2 * Window, handleMax |-> Unset])}

Ends(p) == {Frame(p, "end", [error |-> e]) : e \in BOOLEAN}

Attaches(p) ==
    {Frame(p, "attach",
        [name |-> "link", role |-> Role(p), handle |-> Handle(p), map |-> FALSE,
         nullKey |-> FALSE, initialCount |-> IF p = "client" THEN InitialCount ELSE Unset,
         termini |-> TRUE, settleMode |-> mode, second |-> FALSE, incomplete |-> FALSE,
         coordinator |-> Unset])
     : mode \in IF p = "client" THEN Modes ELSE {Unset}}

\* A closed link could only be resumed: a detached one is attached again.
Detaches(p) ==
    {Frame(p, "detach", [handle |-> Handle(p), closed |-> FALSE, error |-> e]) : e \in BOOLEAN}

FlowWith(p, handle, count, credit) ==
    LET w == session[p].windows
    IN  Frame(p, "flow",
            [nextIncoming |-> IF session[p].peerBegun THEN w.nextIncoming ELSE Unset,
             incoming |-> w.incoming, nextOutgoing |-> w.nextOutgoing, outgoing |-> w.outgoing,
             handle |-> handle, count |-> count, credit |-> credit, linkFields |-> FALSE])

\* The windows alone; the sender's count; the receiver's grant.
Flows(p) ==
    {FlowWith(p, Unset, Unset, Unset)}
    \cup IF p = "client" THEN {FlowWith(p, Handle(p), Position(p).count, Unset)}
         ELSE {FlowWith(p, Handle(p), Position(p).count, credit) : credit \in Grants}

TransferWith(p, id, tag, format, aborts) ==
    {Frame(p, "transfer",
        [handle |-> Handle(p), deliveryId |-> id, tag |-> tag, format |-> format,
         settled |-> s, aborted |-> a, more |-> m, resume |-> FALSE,
         second |-> FALSE, value |-> NoValue])
     : s \in {Unset, TRUE}, m \in BOOLEAN, a \in aborts}

\* A delivery's first transfer names it, with one of two tags in turn; a
\* continuation names nothing, and may abort it.
Transfers(p) ==
    LET l == Link(p)
    IN  IF p = "server" THEN {}
        ELSE IF Continued(l) THEN TransferWith(p, Unset, Unset, Unset, BOOLEAN)
        ELSE TransferWith(p, l.nextDeliveryId, l.nextDeliveryId % 2, 0, {FALSE})

Composed(p) ==
    Begins(p) \cup Ends(p) \cup Attaches(p) \cup Detaches(p) \cup Flows(p) \cup Transfers(p)

\* What is granted and not used, as the server knows it.
Outstanding == granted - Position("server").count

Gone(life) == life \in {"detached", "destroyed"}

\* One session is begun and ended.  The leader attaches a link neither end has
\* up, and detaches one both ends have; its partner answers.  The server grants
\* when all it granted has been used, and the client detaches while some has
\* not: no grant is ever in flight with a transfer or a detach.  Nor does the
\* server detach with an error while transfers may be in flight.
Disciplined(p, f) ==
    CASE f.body = "begin"  -> ~begun[p]
      [] f.body = "end"    -> session[p].state \in {"MAPPED", "END_RCVD"}
      [] f.body = "attach" ->
           /\ Local(p) # "attached"
           /\ (p = leader) <=> (Remote(p) # "attached")
      [] f.body = "detach" ->
           /\ Local(p) = "attached"
           /\ IF p = leader
              THEN /\ Remote(p) = "attached"
                   /\ p = "client" => Position(p).credit > 0
                   /\ p = "server" /\ f.error => Outstanding = 0 /\ ~Continued(Link(p))
              ELSE Gone(Remote(p))
      [] f.body = "flow" ->
           /\ session[p].peerBegun
           /\ Len(wire[Other(p)]) < MaxInFlight
           /\ f.handle # Unset => Local(p) = "attached" /\ Remote(p) = "attached"
           /\ f.credit # Unset => Eager \/ Outstanding = 0
      [] f.body = "transfer" -> TRUE

-----------------------------------------------------------------------------

Init == /\ session = [p \in Peers |-> StartSession]
        /\ wire    = [p \in Peers |-> <<>>]
        /\ leader \in Peers
        /\ begun   = [p \in Peers |-> FALSE]
        /\ granted = 0

Submit(p, f) ==
    LET r == SessionStep(session[p], TRUE, f)
    IN  /\ Disciplined(p, f)
        /\ r.ok
        /\ session' = [session EXCEPT ![p] = r.session]
        /\ wire'    = [wire EXCEPT ![Other(p)] = Append(@, f)]
        /\ begun'   = [begun EXCEPT ![p] = @ \/ f.body = "begin"]
        /\ granted' = IF p = "client" THEN granted
                      ELSE IF f.body = "attach" THEN 0
                      ELSE IF f.body = "flow" /\ f.credit # Unset THEN f.count + f.credit
                      ELSE granted
        /\ UNCHANGED leader

Deliver(p) ==
    /\ wire[p] # <<>>
    /\ session' = [session EXCEPT ![p] = SessionStep(@, FALSE, Head(wire[p])).session]
    /\ wire'    = [wire EXCEPT ![p] = Tail(@)]
    /\ UNCHANGED <<leader, begun, granted>>

Next == \E p \in Peers : Deliver(p) \/ \E f \in Composed(p) : Submit(p, f)

\* The channel delivers, and an end that was heard is answered; everything else
\* is the applications' choice.
AnswersEnd(p) == session[p].state = "END_RCVD" /\ \E f \in Ends(p) : Submit(p, f)

Fairness == \A p \in Peers : WF_vars(Deliver(p)) /\ WF_vars(AnswersEnd(p))

Spec == Init /\ [][Next]_vars /\ Fairness

-----------------------------------------------------------------------------
(* Safety. *)

\* What one session lets its application send, its partner's takes, however
\* attaches, flows, transfers, detaches and ends cross.
NothingRefused == \A p \in Peers :
    wire[p] # <<>> => SessionStep(session[p], FALSE, Head(wire[p])).ok

TransfersTo(p) == Cardinality({i \in DOMAIN wire[p] : wire[p][i].body = "transfer"})

\* The client's room is the server's, less what is in flight, and the id the
\* server expects is the id of the first transfer in flight: whatever flows
\* crossed them, the client can never overrun the window, and never believes
\* it closed when it is open.
WindowsAgree ==
    LET ours == session["client"].windows
        theirs == session["server"].windows
    IN  session["server"].state \in {"MAPPED", "END_SENT", "END_RCVD"} =>
            /\ session["client"].peerBegun =>
                   ours.remoteIncoming + TransfersTo("server") = theirs.incoming
            /\ begun["client"] /\ session["server"].peerBegun =>
                   (theirs.nextIncoming + TransfersTo("server")) % SerialModulus
                       = ours.nextOutgoing

\* Both ends hold the link attached, each knows it of the other, and nothing is
\* in flight.
Settled ==
    \A p \in Peers : wire[p] = <<>> /\ Local(p) = "attached" /\ Remote(p) = "attached"

\* The receiver's count "is its record of the sender's", and the sender's
\* credit is what the receiver has outstanding.
CountsAgree ==
    Settled /\ session["client"].state = "MAPPED" /\ session["server"].state = "MAPPED" =>
        /\ Position("client").count = Position("server").count
        /\ Position("client").credit = Outstanding

\* The two ends hold the same deliveries unsettled, under the same tags, and
\* agree on the one in progress and on what settles it.
DeliveriesAgree ==
    Settled /\ session["client"].state = "MAPPED" /\ session["server"].state = "MAPPED" =>
        LET ours   == Link("client")
            theirs == Link("server")
        IN  /\ ours.unsettled = theirs.unsettled
            /\ ours.delivery = theirs.delivery /\ ours.tag = theirs.tag
            /\ ours.settledMode = theirs.settledMode
            /\ ours.unsettledMode = theirs.unsettledMode

-----------------------------------------------------------------------------
(* Begin and end, as the handshake they are. *)

\* The begins and ends a state's name says were sent, and were heard.
SaidBy(p) ==
    CASE session[p].state = "UNMAPPED" -> IF begun[p] THEN 2 ELSE 0
      [] session[p].state = "BEGIN_RCVD" -> 0
      [] session[p].state \in {"BEGIN_SENT", "MAPPED", "END_RCVD"} -> 1
      [] OTHER -> 2

HeardBy(p) ==
    CASE session[p].state = "UNMAPPED" -> IF begun[p] THEN 2 ELSE 0
      [] session[p].state = "BEGIN_SENT" -> 0
      [] session[p].state \in {"BEGIN_RCVD", "MAPPED", "END_SENT", "DISCARDING"} -> 1
      [] OTHER -> 2

H == INSTANCE Handshake WITH
         said  <- [p \in Peers |-> SaidBy(p)],
         heard <- [p \in Peers |-> HeardBy(p)]

\* Begins and ends implement the first two stages of the handshake: nothing is
\* heard that was not said, and no end overtakes a begin.
ImplementsHandshake == H!Init /\ [][H!Next]_(H!handshake)

\* Once either session is ending both end, whoever began it, whatever was in
\* flight, and whether or not the end carried an error.
EndCompletes ==
    (\E p \in Peers : session[p].state \in {"END_SENT", "END_RCVD", "DISCARDING"})
        ~> (\A p \in Peers : session[p].state = "UNMAPPED")
=============================================================================
