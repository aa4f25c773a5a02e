---------------------------- MODULE SessionCorpus ----------------------------
(***************************************************************************)
(* The vectors of scripts/gen/slices.py's session_corpus up to the credit  *)
(* echo: the session, its windows, its handles and the deliveries of one   *)
(* link.                                                                   *)
(***************************************************************************)
EXTENDS Corpus

\* A link brought up on a MAPPED session: both attaches, then the partner's flow.
LinkUp(own, peer, credit) ==
    <<Sent(own), Received(peer), Received([FlowBody EXCEPT !.credit = credit])>>

AsSender(credit) == LinkUp(AttachBody("sender"), AttachBody("receiver"), credit)
AsReceiver       == LinkUp(AttachBody("receiver"), AttachBody("sender"), 0)

\* A delivery left unsettled, its link destroyed by the partner and resumed by
\* both ends on another handle.
ResumedLink ==
    AsReceiver \o
    <<Received(TransferBody), Received(DetachBody),
      Received([AttachBody("sender") EXCEPT !.handle = 1, !.map = TRUE]),
      Sent([AttachBody("receiver") EXCEPT !.handle = 1, !.map = TRUE])>>

\* A session begun and ended from either end, or ended by an error.
Establishing == {
    Exchange("session-begin-then-end", S("UNMAPPED"),
        <<Send(BeginBody, S("BEGIN_SENT")), Received(Answering(BeginBody)),
          Send(EndBody, S("END_SENT")), Receive(EndBody, S("UNMAPPED"))>>),
    Exchange("session-begin-remotely-initiated", S("UNMAPPED"),
        <<Receive(BeginBody, S("BEGIN_RCVD")), Sent(Answering(BeginBody)),
          Receive(EndBody, S("END_RCVD")), Send(EndBody, S("UNMAPPED"))>>),
    Exchange("session-end-with-error-discards", S("MAPPED"),
        <<Send([EndBody EXCEPT !.error = TRUE], S("DISCARDING")),
          Receive(TransferBody, Unset), Receive(EndBody, S("UNMAPPED")),
          SendRefused(TransferBody, S("UNMAPPED"))>>)}

\* A message in one transfer, with and without its data section.
OneDataSection == {
    Exchange("session-transfer-one-data-section", S("UNMAPPED"),
        <<Send(BeginBody, S("BEGIN_SENT")), Received(Answering(BeginBody)),
          Declines(TransferBody), Discards(TransferBody)>>)}

\* A frame without a field its clause makes mandatory.
MandatoryFields == {
    Exchange("session-attach-missing-role", S("MAPPED"),
        <<Declines([AttachBody("sender") EXCEPT !.complete = FALSE]),
          Send(AttachBody("sender"), Unset)>>),
    Exchange("session-attach-defaults-admitted", S("MAPPED"),
        <<Send(AttachBody("sender"), Unset), Send(DetachBody, Unset)>>),
    Exchange("session-flow-missing-next-incoming-id", S("MAPPED"),
        <<Discards([FlowWithoutLink EXCEPT !.nextIncoming = Unset]),
          Receive(EndBody, S("UNMAPPED"))>>)}

\* A frame on a channel that is not the session's, and a begin that answers
\* another.
Channels == {
    Exchange("session-transfer-before-begin", S("UNMAPPED"),
        <<SendRefused(TransferBody, S("UNMAPPED")),
          Send(BeginBody, S("BEGIN_SENT"))>>),
    Exchange("session-frame-on-unmapped-channel", S("MAPPED"),
        <<ReceiveRefused([TransferBody EXCEPT !.channel = 2], S("MAPPED")),
          Sent(AttachBody("receiver")), Received(AttachBody("sender")),
          Received(FlowBody), Receive(TransferBody, Unset)>>),
    Exchange("session-incoming-id-must-be-set", S("MAPPED"),
        <<Receive(FlowWithoutLink, Unset), Send(FlowWithoutLink, Unset)>>)}

\* The partner's window recomputed from its flows, and this end's own
\* exhausted.
WindowArithmetic == {
    Exchange("session-window-remote-incoming", S("MAPPED"),
        AsSender(1000) \o <<Receive([FlowWithoutLink EXCEPT !.incoming = 1], Unset),
                            Send(TransferBody, Unset), Declines(TransferBody)>>),
    Exchange("session-window-recomputed", S("MAPPED"),
        AsSender(1000) \o <<Receive([FlowWithoutLink EXCEPT !.incoming = 0], Unset),
                            Declines(TransferBody),
                            Receive([FlowWithoutLink EXCEPT !.incoming = 5], Unset),
                            Send(TransferBody, Unset)>>),
    Exchange("session-window-incoming-exhausted", S("UNMAPPED"),
        <<Send([BeginBody EXCEPT !.incoming = 1, !.outgoing = 10], S("BEGIN_SENT")),
          Received(BeginBody), Sent(AttachBody("receiver")),
          Received(AttachBody("sender")), Received(FlowBody),
          Receive(TransferBody, Unset), Discards(TransferBody)>>)}

\* A frame of a session that has none.
Dispatch == {
    Exchange("session-close-on-a-session-channel", S("MAPPED"),
        <<Send([CloseBody EXCEPT !.channel = 1], C("CLOSE_SENT")),
          Receive([CloseBody EXCEPT !.channel = 1], C("END"))>>),
    Exchange("connection-discarding-discards-session-frames", S("MAPPED"),
        <<ReceiveRefused([OpenBody EXCEPT !.channel = 1], C("DISCARDING")),
          Receive(TransferBody, C("DISCARDING"))>>)}

\* A handle belongs to one link, and is bounded by the partner's handle-max.
LinkHandles == {
    Exchange("link-handle-in-use", S("MAPPED"),
        AsReceiver \o <<SendRefused(AttachBody("sender"), C("CLOSE_SENT"))>>),
    Exchange("link-handle-out-of-range", S("UNMAPPED"),
        <<Send(BeginBody, S("BEGIN_SENT")),
          Received([Answering(BeginBody) EXCEPT !.handleMax = 2]),
          SendRefused([AttachBody("sender") EXCEPT !.handle = 5], C("CLOSE_SENT"))>>)}

\* A transfer without credit, and a message over several transfers.
CreditAndFraming == {
    Exchange("link-credit-granted-and-spent", S("MAPPED"),
        AsSender(1) \o <<Sent(TransferBody),
                         Declines([TransferBody EXCEPT !.deliveryId = 1])>>),
    Exchange("link-credit-regranted", S("MAPPED"),
        AsSender(1) \o <<Sent(TransferBody),
                         Received([FlowBody EXCEPT !.count = 1, !.credit = 1]),
                         Sent([TransferBody EXCEPT !.deliveryId = 1,
                                                   !.tag = "other"])>>),
    Exchange("link-fragments-1-transfer", S("MAPPED"),
        AsReceiver \o <<Received(TransferBody)>>),
    Exchange("link-fragments-2-transfers", S("MAPPED"),
        AsReceiver \o <<Received([TransferBody EXCEPT !.more = TRUE]),
                        Received(TransferUnidentified)>>),
    Exchange("link-fragments-3-transfers", S("MAPPED"),
        AsReceiver \o <<Received([TransferBody EXCEPT !.more = TRUE]),
                        Received([TransferUnidentified EXCEPT !.more = TRUE]),
                        Received(TransferUnidentified)>>),
    Exchange("link-settled-inherited", S("MAPPED"),
        AsReceiver \o <<Received([TransferBody EXCEPT !.settled = TRUE,
                                                      !.more = TRUE]),
                        Received(TransferUnidentified)>>),
    Exchange("link-sender-settle-mode-unmet", S("MAPPED"),
        LinkUp(AttachBody("receiver"),
               [AttachBody("sender") EXCEPT !.settleMode = "settled"], 0)
        \o <<Discards(TransferBody)>>)}

\* A delivery ends where its detach or its disposition ends it.
DeliveriesEnded == {
    Exchange("link-first-transfer-needs-its-fields", S("MAPPED"),
        AsReceiver \o <<Received(TransferBody), Discards(TransferUnidentified)>>),
    Exchange("link-detach-releases-handle", S("MAPPED"),
        AsReceiver \o <<Received(DetachBody), Discards(TransferBody)>>),
    Exchange("link-aborted-discarded", S("MAPPED"),
        AsReceiver \o <<Received([TransferBody EXCEPT !.aborted = TRUE]),
                        Received([TransferBody EXCEPT !.deliveryId = 1])>>),
    Exchange("link-disposition-direction", S("MAPPED"),
        AsReceiver \o <<Received(DispositionBody("receiver")),
                        Discards(DispositionBody("sender"))>>)}

\* A frame whose handle no link holds, and a flow's link fields without one.
UnattachedHandles == {
    Exchange("link-flow-unattached-handle", S("MAPPED"),
        AsReceiver \o <<Declines([FlowBody EXCEPT !.handle = 7, !.credit = 1]),
                        Discards([FlowBody EXCEPT !.handle = 7, !.credit = 1])>>),
    Exchange("link-detach-unattached-handle", S("MAPPED"),
        AsSender(1000) \o <<Received([DetachBody EXCEPT !.handle = 7]),
                            Sent([DetachBody EXCEPT !.handle = 7]),
                            Sent(TransferBody)>>)} \cup
    {Exchange(v, S("MAPPED"), AsReceiver \o <<Discards([FlowWithoutLink EXCEPT !.linkFields = TRUE])>>) : v \in
        {"link-flow-field-without-handle",
         "flow-properties-without-handle"}}

\* Credit is the receiver's to set, and the sender's to echo.
CreditEcho == {
    Exchange("link-credit-echoed", S("MAPPED"),
        AsReceiver \o <<Received(FlowBody),
                        Discards([FlowBody EXCEPT !.credit = 7])>>),
    Exchange("link-credit-echo-sent-not-the-last-known", S("MAPPED"),
        AsSender(3) \o <<Declines([FlowBody EXCEPT !.credit = 5])>>),
    Exchange("link-credit-echo-sent-the-last-known", S("MAPPED"),
        AsSender(3) \o <<Sent([FlowBody EXCEPT !.credit = 3])>>),
    Exchange("link-credit-counts-messages-not-frames", S("MAPPED"),
        AsSender(1) \o <<Sent([TransferBody EXCEPT !.more = TRUE]),
                         Sent([TransferUnidentified EXCEPT !.more = TRUE]),
                         Sent(TransferUnidentified),
                         Declines([TransferBody EXCEPT !.deliveryId = 1])>>),
    Exchange("link-attach-keeps-the-credit", S("MAPPED"),
        AsSender(1) \o <<Received([AttachBody("receiver") EXCEPT !.handle = 1]),
                         Sent(TransferBody)>>)}

SessionVectors == Establishing \cup
    OneDataSection \cup
    MandatoryFields \cup
    Channels \cup
    WindowArithmetic \cup
    Dispatch \cup
    LinkHandles \cup
    CreditAndFraming \cup
    DeliveriesEnded \cup
    UnattachedHandles \cup
    CreditEcho
=============================================================================
