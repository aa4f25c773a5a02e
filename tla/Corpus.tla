--------------------------------- MODULE Corpus ---------------------------------
(***************************************************************************)
(* The vocabulary of the exchange corpus: the frames and steps of          *)
(* scripts/gen/slices.py's Corpus class, in the units of Peer.  A body's   *)
(* default arguments are a default record, which a vector EXCEPTs.         *)
(*                                                                         *)
(* A step is a direction, a unit, and what the vector pins of the answer:  *)
(* the status, and the layer and name of the state, or Unset.  Conditions, *)
(* reason classes, clauses and notes are left out, and so are the octets   *)
(* of a frame beyond its size.                                             *)
(***************************************************************************)
EXTENDS Peer, TLC

C(state) == <<"connection", state>>
S(state) == <<"session", state>>

-----------------------------------------------------------------------------
(* Frames. *)

FrameHeader == 8

\* The frames no vector sizes fit every limit a vector declares.
OpenBody == [kind |-> "frame", body |-> "open", channel |-> 0, size |-> FrameHeader,
             complete |-> TRUE, declares |-> DeclaredLimits]

OpenLimited(size) == [OpenBody EXCEPT !.declares.maxFrameSize = size]

CloseBody == [kind |-> "frame", body |-> "close", channel |-> 0, size |-> FrameHeader,
              complete |-> TRUE]

SaslBody(body, names) == [kind |-> "frame", body |-> body, size |-> FrameHeader,
                          complete |-> TRUE, names |-> names, code |-> "ok"]
MechanismsBody(names) == SaslBody("mechanisms", names)
InitBody(name)        == SaslBody("init", {name})
OutcomeBody           == SaslBody("outcome", {})

\* The fields of every session frame; the vectors' channel is 1.
SessionBody(body) == [kind |-> "frame", body |-> body, channel |-> 1, size |-> FrameHeader,
                      complete |-> TRUE]

BeginBody == [remoteChannel |-> Unset, nextOutgoing |-> 0, incoming |-> 1000,
              outgoing |-> 1000, handleMax |-> Unset] @@ SessionBody("begin")

Answering(begin) == [begin EXCEPT !.remoteChannel = 1]

EndBody == [error |-> FALSE] @@ SessionBody("end")

\* The role and its initial-delivery-count go together: mandatory of a sender.
AttachBody(role) ==
    [name |-> "link", role |-> role, handle |-> 0, map |-> FALSE, nullKey |-> FALSE,
     initialCount |-> IF role = "sender" THEN 0 ELSE Unset, termini |-> TRUE,
     settleMode |-> Unset, second |-> FALSE, incomplete |-> FALSE,
     coordinator |-> Unset] @@ SessionBody("attach")

DetachBody == [handle |-> 0, closed |-> TRUE, error |-> FALSE] @@ SessionBody("detach")

FlowBody == [nextIncoming |-> 0, incoming |-> 1000, nextOutgoing |-> 0, outgoing |-> 1000,
             handle |-> 0, count |-> 0, credit |-> 0, linkFields |-> FALSE]
            @@ SessionBody("flow")

FlowWithoutCounts == [FlowBody EXCEPT !.count = Unset, !.credit = Unset]
FlowWithoutLink   == [FlowWithoutCounts EXCEPT !.handle = Unset]

TransferBody == [handle |-> 0, deliveryId |-> 0, tag |-> "tag", format |-> 0,
                 settled |-> Unset, aborted |-> FALSE, more |-> FALSE, resume |-> FALSE,
                 second |-> FALSE, value |-> NoValue] @@ SessionBody("transfer")

\* A continuation leaves the delivery's identity off.
TransferUnidentified == [TransferBody EXCEPT !.deliveryId = Unset, !.tag = Unset,
                                             !.format = Unset]

\* Transfer `index' (from 0) of a delivery split into `count'.
FragmentBody(index, count) ==
    [(IF index = 0 THEN TransferBody ELSE TransferUnidentified)
     EXCEPT !.more = index < count - 1]

DispositionBody(role) ==
    [role |-> role, first |-> 0, last |-> 0, settled |-> FALSE, value |-> NoValue]
    @@ SessionBody("disposition")

-----------------------------------------------------------------------------
(* Steps. *)

Step(out, unit, ok, state) == [out |-> out, unit |-> unit, ok |-> ok, state |-> state]

Send(unit, state)    == Step(TRUE,  unit, TRUE, state)
Receive(unit, state) == Step(FALSE, unit, TRUE, state)

SendRefused(unit, state)    == Step(TRUE,  unit, FALSE, state)
ReceiveRefused(unit, state) == Step(FALSE, unit, FALSE, state)

\* A session step that leaves the session MAPPED; a send it declines, which
\* does too; a receive it cannot process, which is answered by an END.
Sent(unit)     == Send(unit, S("MAPPED"))
Received(unit) == Receive(unit, S("MAPPED"))
Declines(unit) == SendRefused(unit, S("MAPPED"))
Discards(unit) == ReceiveRefused(unit, S("DISCARDING"))

SendHeader           == Send(Header("amqp"), C("HDR_SENT"))
SendSaslHeader       == Send(Header("sasl"), C("HDR_SENT"))
RefusedCloseInEnd    == ReceiveRefused(CloseBody, C("END"))
RefusedHeaderInEnd   == ReceiveRefused(Header("amqp"), C("END"))

Exchange(vector, start, steps) == [vector |-> vector, start |-> start, steps |-> steps]
=============================================================================
