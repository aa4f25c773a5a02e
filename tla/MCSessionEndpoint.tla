--------------------------- MODULE MCSessionEndpoint ---------------------------
(***************************************************************************)
(* SessionEndpoint for TLC: one channel and one link name.  This end is    *)
(* the sender, and the transactional controller, of one link, which        *)
(* carries deliveries of up to two transfers; it is the receiver of the    *)
(* other, which competes for the handles.  Two handles, windows of two.    *)
(***************************************************************************)
EXTENDS SessionEndpoint, TLC

Plain(body) == [kind |-> "frame", body |-> body, channel |-> 1, size |-> 8, complete |-> TRUE]

BeginOf(remoteChannel) ==
    [remoteChannel |-> remoteChannel, nextOutgoing |-> 0, incoming |-> 2, outgoing |-> 2,
     handleMax |-> Unset] @@ Plain("begin")

Ends == {[error |-> e] @@ Plain("end") : e \in BOOLEAN}

AttachOf(role, handle, map) ==
    [name |-> "link", role |-> role, handle |-> handle, map |-> map, nullKey |-> FALSE,
     initialCount |-> 0, termini |-> TRUE, settleMode |-> Unset, second |-> FALSE,
     incomplete |-> FALSE, coordinator |-> Unset] @@ Plain("attach")

ControlAttachOf(role, handle, map) ==
    [AttachOf(role, handle, map) EXCEPT !.coordinator = FALSE]

DetachOf(handle, closed, error) ==
    [handle |-> handle, closed |-> closed, error |-> error] @@ Plain("detach")

FlowOf(count, credit) ==
    [nextIncoming |-> 0, incoming |-> 2, nextOutgoing |-> 0, outgoing |-> 2, handle |-> 0,
     count |-> count, credit |-> credit, linkFields |-> FALSE] @@ Plain("flow")

\* A first transfer names the delivery; a continuation names nothing.
TransferOf(id, settled, more, value) ==
    [handle |-> 0, deliveryId |-> id, tag |-> IF id = Unset THEN Unset ELSE "tag",
     format |-> IF id = Unset THEN Unset ELSE 0, settled |-> settled, aborted |-> FALSE,
     more |-> more, resume |-> FALSE, second |-> FALSE, value |-> value]
    @@ Plain("transfer")

DispositionOf(role, settled, value) ==
    [role |-> role, first |-> 0, last |-> 0, settled |-> settled, value |-> value]
    @@ Plain("disposition")

MCSends ==
    {BeginOf(Unset), BeginOf(1)} \cup Ends
    \cup {AttachOf("sender", h, m) : h \in {0, 1}, m \in BOOLEAN}
    \cup {AttachOf("receiver", 1, FALSE)}
    \cup {DetachOf(0, FALSE, FALSE), DetachOf(0, TRUE, FALSE), DetachOf(0, FALSE, TRUE),
          DetachOf(1, FALSE, FALSE)}
    \cup {TransferOf(0, s, m, NoValue) : s \in {Unset, TRUE}, m \in BOOLEAN}
    \cup {TransferOf(Unset, s, FALSE, NoValue) : s \in {Unset, TRUE}}
    \cup {TransferOf(1, Unset, FALSE, Discharge(0, FALSE))}

MCReceives ==
    {BeginOf(1)} \cup Ends
    \cup {ControlAttachOf("receiver", 0, FALSE)}
    \cup {AttachOf("sender", h, FALSE) : h \in {0, 1}}
    \cup {DetachOf(0, FALSE, FALSE), DetachOf(1, TRUE, FALSE)}
    \cup {FlowOf(0, 1), FlowOf(1, 0), FlowOf(1, 1)}
    \cup {DispositionOf("sender", TRUE, NoValue), DispositionOf("sender", FALSE, Declared(0))}
=============================================================================
