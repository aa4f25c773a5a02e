-------------------------------- MODULE Session --------------------------------
(***************************************************************************)
(* The session endpoint of lean/Spec/Session.lean without its links: the   *)
(* seven states, the channel map, the flow-control windows, begin and end, *)
(* the checks every frame passes before it is read (gate), and where a     *)
(* refusal leaves the session.  Pure operators; modules that own variables *)
(* EXTEND this one, through Links.                                         *)
(*                                                                         *)
(* A frame is a record.  `complete' stands for "every mandatory field is   *)
(* there and of its kind" (missingMandatory, and the role, handle and      *)
(* number a handler insists on: both refusals place the session alike).    *)
(* An optional field that is not set is Unset; Null is the one field,      *)
(* flow's delivery-count, where the code tells a null from an absence.     *)
(* Conditions, classes and texts of refusals are left out: no state        *)
(* depends on them.                                                        *)
(***************************************************************************)
EXTENDS Naturals, FiniteSets

CONSTANTS
    SerialModulus,     \* 2^32, the space of transfer numbers
    DefaultHandleMax,  \* handle-max of a begin that leaves it unset
    StartWindow,       \* 1000, each window before a begin says otherwise
    Unset, Null

ASSUME SessionAssumption ==
    /\ SerialModulus \in Nat \ {0}
    /\ DefaultHandleMax \in Nat /\ StartWindow \in Nat
    /\ Unset \notin Nat /\ Null \notin Nat /\ Null # Unset

Optional(S) == S \cup {Unset}

Given(value, default) == IF value = Unset THEN default ELSE value

\* Subtraction on the naturals, as Lean's: it stops at zero.
Minus(a, b) == IF a >= b THEN a - b ELSE 0

-----------------------------------------------------------------------------
(* States. *)

SessionStates == {"UNMAPPED", "BEGIN_SENT", "BEGIN_RCVD", "MAPPED", "END_SENT",
                  "END_RCVD", "DISCARDING"}

MaySend    == {"BEGIN_SENT", "MAPPED", "END_RCVD"}
MayReceive == {"BEGIN_RCVD", "MAPPED", "END_SENT", "DISCARDING"}

-----------------------------------------------------------------------------
(* Windows. *)

Windows == [nextIncoming    : Nat, incoming       : Nat,
            nextOutgoing    : Nat, outgoing       : Nat,
            remoteIncoming  : Nat, remoteOutgoing : Nat,
            initialOutgoing : Nat]

StartWindows == [nextIncoming   |-> 0,           incoming       |-> StartWindow,
                 nextOutgoing   |-> 0,           outgoing       |-> StartWindow,
                 remoteIncoming |-> StartWindow, remoteOutgoing |-> StartWindow,
                 initialOutgoing |-> 0]

AfterSendingBegin(w, f) ==
    [w EXCEPT !.nextOutgoing    = f.nextOutgoing % SerialModulus,
              !.initialOutgoing = f.nextOutgoing % SerialModulus,
              !.incoming        = f.incoming,
              !.outgoing        = f.outgoing]

\* Mutant: the room is counted from the partner's own ids.
MutRemoteIncoming(w, from, window) == (from + window) % SerialModulus

\* The transfers the partner still has room for, from the id it expects (or
\* this end's first) and the window it announces.
RemoteIncoming(w, from, window) ==
    Minus((from + window) % SerialModulus, w.nextOutgoing)

AfterReceivingBegin(w, f) ==
    [w EXCEPT !.nextIncoming   = f.nextOutgoing % SerialModulus,
              !.remoteIncoming = RemoteIncoming(w, w.initialOutgoing, f.incoming),
              !.remoteOutgoing = f.outgoing]

\* Both decrements the artifact leaves to policy are taken (startPolicy).
AfterSendingTransfer(w) ==
    [w EXCEPT !.nextOutgoing   = (@ + 1) % SerialModulus,
              !.remoteIncoming = Minus(@, 1),
              !.outgoing       = Minus(@, 1)]

AfterReceivingTransfer(w) ==
    [w EXCEPT !.nextIncoming   = (@ + 1) % SerialModulus,
              !.remoteOutgoing = Minus(@, 1),
              !.incoming       = Minus(@, 1)]

AfterReceivingFlow(w, f) ==
    [w EXCEPT !.nextIncoming   = f.nextOutgoing % SerialModulus,
              !.remoteOutgoing = f.outgoing,
              !.remoteIncoming =
                  RemoteIncoming(w, Given(f.nextIncoming, w.initialOutgoing), f.incoming)]

-----------------------------------------------------------------------------
(* Answers. *)

Admitted(s) == [session |-> s, ok |-> TRUE,  closes |-> FALSE]
Declined(s) == [session |-> s, ok |-> FALSE, closes |-> FALSE]

\* A refusal that closes the connection leaves the session alone.
Closing(s)  == [session |-> s, ok |-> FALSE, closes |-> TRUE]

\* A refused send moves nothing; a refused receive is answered by an END with
\* an error, where the session may receive at all.
Placed(s, out) ==
    Declined(IF out \/ s.state \notin MayReceive THEN s
             ELSE [s EXCEPT !.state = "DISCARDING"])

-----------------------------------------------------------------------------
(* The checks every frame passes. *)

\* Mutant: what arrives after an error is read.
MutFrameDiscarded(s, out, f) == FALSE

FrameDiscarded(s, out, f) == ~out /\ s.state = "DISCARDING" /\ f.body # "end"

OnChannel(s, out, f) ==
    f.body = "begin" \/ (IF out THEN s.outgoing ELSE s.incoming) = f.channel

Permitted(s, out, f) ==
    f.body = "begin" \/ s.state \in (IF out THEN MaySend ELSE MayReceive)

-----------------------------------------------------------------------------
(* Begin and end. *)

\* A begin that answers one names the channel that one arrived on.
BeginAdmits(s, out, f) ==
    IF out THEN \/ s.state = "UNMAPPED"   /\ f.remoteChannel = Unset
                \/ /\ s.state = "BEGIN_RCVD"
                   /\ f.remoteChannel # Unset
                   /\ f.remoteChannel = s.incoming
           ELSE s.state \in {"UNMAPPED", "BEGIN_SENT"}

AfterBegin(s, out, f) ==
    IF out
    THEN [s EXCEPT !.state     = IF @ = "UNMAPPED" THEN "BEGIN_SENT" ELSE "MAPPED",
                   !.outgoing  = f.channel,
                   !.windows   = AfterSendingBegin(@, f),
                   !.handleMax = Given(f.handleMax, DefaultHandleMax)]
    ELSE [s EXCEPT !.state     = IF @ = "UNMAPPED" THEN "BEGIN_RCVD" ELSE "MAPPED",
                   !.incoming  = f.channel,
                   !.peerBegun = TRUE,
                   !.windows   = AfterReceivingBegin(@, f),
                   !.peerHandleMax = Given(f.handleMax, DefaultHandleMax)]

BeginStep(s, out, f) ==
    IF BeginAdmits(s, out, f) THEN Admitted(AfterBegin(s, out, f)) ELSE Declined(s)

Unmapped(s) == [s EXCEPT !.state = "UNMAPPED", !.outgoing = Unset,
                         !.incoming = Unset, !.peerBegun = FALSE]

\* Mutant: the session keeps its label where an end before the partner's begin
\* releases the channel.
MutAfterEndLabel(s, out, f) ==
    IF out
    THEN CASE s.state = "MAPPED"   -> [s EXCEPT !.state = IF f.error THEN "DISCARDING"
                                                          ELSE "END_SENT",
                                                !.outgoing = Unset]
           [] s.state = "END_RCVD" -> Unmapped(s)
           [] OTHER                -> [s EXCEPT !.outgoing = Unset]
    ELSE IF s.state \in {"END_SENT", "DISCARDING"} THEN Unmapped(s)
         ELSE [s EXCEPT !.state = "END_RCVD", !.incoming = Unset, !.peerBegun = TRUE]

\* Mutant: an end that crosses this end's own leaves the channel mapped.
MutAfterEnd(s, out, f) ==
    IF out
    THEN CASE s.state = "MAPPED"     -> [s EXCEPT !.state = IF f.error THEN "DISCARDING"
                                                            ELSE "END_SENT",
                                                  !.outgoing = Unset]
           [] s.state = "END_RCVD"   -> Unmapped(s)
           [] s.state = "BEGIN_SENT" -> [s EXCEPT !.state = "END_SENT", !.outgoing = Unset]
           [] OTHER                  -> [s EXCEPT !.outgoing = Unset]
    ELSE IF s.state = "DISCARDING" THEN Unmapped(s)
         ELSE [s EXCEPT !.state = "END_RCVD", !.incoming = Unset, !.peerBegun = TRUE]

\* The links stay as they are: an end releases the channels only.
AfterEnd(s, out, f) ==
    IF out
    THEN CASE s.state = "MAPPED"     -> [s EXCEPT !.state = IF f.error THEN "DISCARDING"
                                                            ELSE "END_SENT",
                                                  !.outgoing = Unset]
           [] s.state = "END_RCVD"   -> Unmapped(s)
           [] s.state = "BEGIN_SENT" -> [s EXCEPT !.state = "END_SENT", !.outgoing = Unset]
           [] OTHER                  -> [s EXCEPT !.outgoing = Unset]
    ELSE IF s.state \in {"END_SENT", "DISCARDING"} THEN Unmapped(s)
         ELSE [s EXCEPT !.state = "END_RCVD", !.incoming = Unset, !.peerBegun = TRUE]
=============================================================================
