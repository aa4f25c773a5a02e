------------------------------ MODULE LinkCorpus ------------------------------
(***************************************************************************)
(* The rest of scripts/gen/slices.py's session_corpus, and its             *)
(* widening_corpus: the states' columns, settlement, flow counts,          *)
(* continuations, suspended and resumed links.                             *)
(***************************************************************************)
EXTENDS SessionCorpus

\* What each session state lets through.
StateColumns == {
    Exchange("session-receive-in-end-sent", S("END_SENT"),
        <<Receive(FlowWithoutLink, S("END_SENT")), Receive(EndBody, S("UNMAPPED"))>>),
    Exchange("session-send-in-end-rcvd", S("END_RCVD"),
        <<Send(FlowWithoutLink, S("END_RCVD")), Send(EndBody, S("UNMAPPED"))>>),
    Exchange("link-transfer-direction-received", S("MAPPED"),
        AsSender(1000) \o <<Discards(TransferBody)>>),
    Exchange("link-transfer-direction-sent", S("MAPPED"),
        AsReceiver \o <<Declines(TransferBody)>>),
    Exchange("session-send-end-in-begin-sent", S("BEGIN_SENT"),
        <<Send(EndBody, S("END_SENT")), ReceiveRefused(EndBody, S("END_SENT"))>>),
    Exchange("session-refusal-in-end-sent-discards", S("END_SENT"),
        <<Discards([FlowBody EXCEPT !.handle = 7, !.credit = 1]),
          Receive(EndBody, S("UNMAPPED"))>>)}

\* The sender's settle mode, over one transfer and over several.
SettlementNegotiation == {
    Exchange("link-settled-over-unsettled-negotiation", S("MAPPED"),
        LinkUp(AttachBody("receiver"),
               [AttachBody("sender") EXCEPT !.settleMode = "unsettled"], 0)
        \o <<Discards([TransferBody EXCEPT !.settled = TRUE])>>),
    Exchange("link-settled-over-unsettled-negotiation-aborted", S("MAPPED"),
        LinkUp(AttachBody("receiver"),
               [AttachBody("sender") EXCEPT !.settleMode = "unsettled"], 0)
        \o <<Received([TransferBody EXCEPT !.settled = TRUE, !.aborted = TRUE])>>),
    Exchange("link-settled-over-unsettled-negotiation-sent", S("MAPPED"),
        LinkUp([AttachBody("sender") EXCEPT !.settleMode = "unsettled"],
               AttachBody("receiver"), 1)
        \o <<Declines([TransferBody EXCEPT !.settled = TRUE])>>),
    Exchange("link-settled-over-unsettled-negotiation-sent-aborted", S("MAPPED"),
        LinkUp([AttachBody("sender") EXCEPT !.settleMode = "unsettled"],
               AttachBody("receiver"), 1)
        \o <<Sent([TransferBody EXCEPT !.settled = TRUE, !.aborted = TRUE])>>),
    Exchange("link-settled-on-a-continuation-suffices", S("MAPPED"),
        LinkUp(AttachBody("receiver"),
               [AttachBody("sender") EXCEPT !.settleMode = "settled"], 0)
        \o <<Received([TransferBody EXCEPT !.more = TRUE]),
             Received([TransferUnidentified EXCEPT !.settled = TRUE]),
             Discards([TransferBody EXCEPT !.deliveryId = 1])>>),
    Exchange("link-settled-false-under-settled-negotiation", S("MAPPED"),
        LinkUp(AttachBody("receiver"),
               [AttachBody("sender") EXCEPT !.settleMode = "settled"], 0)
        \o <<Discards([TransferBody EXCEPT !.settled = FALSE])>>),
    Exchange("link-mixed-negotiation-neither-obligation", S("MAPPED"),
        LinkUp(AttachBody("receiver"),
               [AttachBody("sender") EXCEPT !.settleMode = "mixed"], 0)
        \o <<Received([TransferBody EXCEPT !.settled = TRUE]),
             Received([TransferBody EXCEPT !.deliveryId = 1])>>)}

\* The receiver's settle mode, and a transfer that asks for another.
ReceiverSettleMode == {
    Exchange("link-rcv-settle-second-over-first", S("MAPPED"),
        AsReceiver \o <<Discards([TransferBody EXCEPT !.second = TRUE])>>),
    Exchange("link-rcv-settle-second-over-first-ignored-when-settled", S("MAPPED"),
        AsReceiver \o <<Received([TransferBody EXCEPT !.settled = TRUE,
                                                      !.second = TRUE])>>),
    Exchange("link-rcv-settle-second-over-second", S("MAPPED"),
        LinkUp([AttachBody("receiver") EXCEPT !.second = TRUE],
               AttachBody("sender"), 0)
        \o <<Received([TransferBody EXCEPT !.second = TRUE])>>)}

\* Which counts a flow carries before and after the sender has attached.
FlowCounts == {
    Exchange("flow-sender-count-not-its-current", S("MAPPED"),
        AsReceiver \o <<Discards([FlowBody EXCEPT !.count = 5])>>),
    Exchange("flow-sender-count-null", S("MAPPED"),
        AsReceiver \o <<Discards([FlowBody EXCEPT !.count = Null])>>),
    Exchange("flow-sender-count-absent", S("MAPPED"),
        AsReceiver \o <<Discards(FlowWithoutCounts)>>),
    Exchange("flow-sender-count-absent-sent", S("MAPPED"),
        <<Sent(AttachBody("sender")), Declines(FlowWithoutCounts)>>),
    Exchange("flow-sender-count-not-its-current-sent", S("MAPPED"),
        <<Sent(AttachBody("sender")), Declines([FlowBody EXCEPT !.count = 5])>>),
    Exchange("flow-receiver-count-echoed", S("MAPPED"),
        AsSender(1) \o <<Sent(TransferBody),
                         Received([FlowBody EXCEPT !.count = 1, !.credit = 1])>>),
    Exchange("flow-receiver-count-not-echoed", S("MAPPED"),
        AsSender(1) \o <<Sent(TransferBody),
                         Discards([FlowBody EXCEPT !.credit = 1])>>),
    Exchange("flow-receiver-count-set-before-sender-attach", S("MAPPED"),
        <<Received(AttachBody("receiver")), Discards(FlowBody)>>),
    Exchange("flow-receiver-count-absent-before-sender-attach", S("MAPPED"),
        <<Received(AttachBody("receiver")), Received(FlowWithoutCounts)>>)}

\* A delivery continued, aborted and left unfinished.
MoreAndAborted == {
    Exchange("link-aborted-continuation-discards-prior", S("MAPPED"),
        AsReceiver \o <<Received([TransferBody EXCEPT !.more = TRUE]),
                        Received([TransferUnidentified EXCEPT !.more = TRUE,
                                                              !.aborted = TRUE]),
                        Discards(TransferUnidentified)>>),
    Exchange("link-aborted-then-next-delivery", S("MAPPED"),
        AsReceiver \o <<Received([TransferBody EXCEPT !.more = TRUE,
                                                      !.aborted = TRUE]),
                        Received([TransferBody EXCEPT !.deliveryId = 1])>>),
    Exchange("link-aborted-false-spends-no-credit", S("MAPPED"),
        AsSender(1) \o <<Sent(TransferBody),
                         Declines([TransferBody EXCEPT !.deliveryId = 1])>>),
    Exchange("link-aborted-spends-the-credit", S("MAPPED"),
        AsSender(1) \o <<Sent([TransferBody EXCEPT !.aborted = TRUE]),
                         Declines([TransferBody EXCEPT !.deliveryId = 1])>>),
    Exchange("link-more-false-completes-the-delivery", S("MAPPED"),
        AsReceiver \o <<Received(TransferBody), Discards(TransferUnidentified)>>)}

\* The resume flag on a delivery that was not resumed.
Resumption == {
    Exchange("link-resume-on-first-transfer", S("MAPPED"),
        ResumedLink \o <<Received([TransferBody EXCEPT !.handle = 1, !.more = TRUE,
                                                       !.resume = TRUE]),
                         Received([TransferUnidentified EXCEPT !.handle = 1])>>)}

\* An attach without its initial count, or with a null among its unsettled
\* keys.
AttachFields == {
    Exchange("link-attach-sender-without-initial-count", S("MAPPED"),
        <<Sent(AttachBody("receiver")),
          Discards([AttachBody("sender") EXCEPT !.initialCount = Unset])>>),
    Exchange("link-attach-receiver-without-initial-count", S("MAPPED"),
        <<Sent(AttachBody("receiver")), Received(AttachBody("receiver"))>>)}

\* A begin's remote-channel, set and unset, in either direction.
RemoteChannel == {
    Exchange("session-begin-with-remote-channel", S("UNMAPPED"),
        <<SendRefused(Answering(BeginBody), S("UNMAPPED")),
          Send(BeginBody, S("BEGIN_SENT"))>>),
    Exchange("session-begin-answer-without-remote-channel", S("BEGIN_RCVD"),
        <<SendRefused(BeginBody, S("BEGIN_RCVD")), Sent(Answering(BeginBody))>>)}

\* A flow names the next id it expects once the partner has begun, and not
\* before.
NextIncomingId == {
    Exchange("session-flow-next-incoming-id-before-begin", S("BEGIN_SENT"),
        <<SendRefused(FlowWithoutLink, S("BEGIN_SENT")),
          Send([FlowWithoutLink EXCEPT !.nextIncoming = Unset], S("BEGIN_SENT"))>>)}

\* No session is on channel zero.
ChannelZero == {
    Exchange("session-frame-on-channel-zero", S("MAPPED"),
        <<SendRefused([TransferBody EXCEPT !.channel = 0], C("OPENED")),
          Sent(FlowWithoutLink)>>)}

\* Re-attaching a link that is up, with and without what is held unsettled.
ReattachAndMaps == {
    Exchange("link-resume-sent-not-in-map", S("MAPPED"),
        AsSender(1) \o <<Declines([TransferBody EXCEPT !.resume = TRUE])>>),
    Exchange("link-resume-only-on-continuation", S("MAPPED"),
        ResumedLink \o <<Received([TransferBody EXCEPT !.handle = 1, !.more = TRUE]),
                         Discards([TransferUnidentified EXCEPT !.handle = 1,
                                                               !.resume = TRUE])>>),
    Exchange("link-attach-unsettled-null-key", S("MAPPED"),
        <<Sent(AttachBody("receiver")),
          Discards([AttachBody("sender") EXCEPT !.map = TRUE, !.nullKey = TRUE])>>)}

\* A link detached or destroyed, and attached again.
SuspendedLinks == {
    Exchange("link-second-attach-same-name", S("MAPPED"),
        AsReceiver \o <<Declines([AttachBody("receiver") EXCEPT !.handle = 1])>>),
    Exchange("link-pipelined-reattach", S("MAPPED"),
        AsReceiver \o <<Received(DetachBody),
                        Discards([AttachBody("sender") EXCEPT !.handle = 1])>>),
    Exchange("link-reattach-with-unsettled-map", S("MAPPED"),
        AsReceiver \o <<Received([DetachBody EXCEPT !.closed = FALSE]),
                        Discards([AttachBody("sender") EXCEPT !.handle = 1,
                                                              !.map = TRUE])>>)}

\* No new delivery before an incomplete map is complete, on either end.
IncompleteMaps == {
    Exchange("link-incomplete-map-latch", S("MAPPED"),
        AsSender(1000) \o <<Received(DetachBody),
                            Received([AttachBody("receiver") EXCEPT !.handle = 1,
                                                                    !.map = TRUE, !.incomplete = TRUE]),
                            Declines(TransferBody),
                            Received([DetachBody EXCEPT !.handle = 1]),
                            Received([AttachBody("receiver") EXCEPT !.handle = 2,
                                                                    !.map = TRUE]),
                            Sent(TransferBody)>>),
    Exchange("link-incomplete-map-receipt", S("MAPPED"),
        LinkUp([AttachBody("receiver") EXCEPT !.map = TRUE, !.incomplete = TRUE],
               AttachBody("sender"), 0)
        \o <<Discards(TransferBody)>>)}

\* A resumed delivery this end does not hold is ignored; a tag it holds is
\* not another's.
TagsHeld == {
    Exchange("link-resume-not-in-receiver-map", S("MAPPED"),
        AsReceiver \o <<Received([TransferBody EXCEPT !.more = TRUE,
                                                      !.resume = TRUE]),
                        Discards(TransferUnidentified)>>),
    Exchange("link-duplicate-delivery-tag", S("MAPPED"),
        AsSender(1000) \o <<Sent(TransferBody),
                            Declines([TransferBody EXCEPT !.deliveryId = 1])>>)}

\* A disposition settles what a detached link still holds.
SettledAfterDetach == {
    Exchange("disposition-after-detach", S("MAPPED"),
        AsSender(1000) \o <<Sent([TransferBody EXCEPT !.more = TRUE]),
                            Received([DetachBody EXCEPT !.closed = FALSE]),
                            Received([DispositionBody("sender") EXCEPT !.settled = TRUE]),
                            Declines([TransferBody EXCEPT !.resume = TRUE])>>),
    Exchange("disposition-completed-after-detach", S("MAPPED"),
        AsSender(1000) \o <<Sent(TransferBody),
                            Received([DetachBody EXCEPT !.closed = FALSE]),
                            Received([DispositionBody("sender") EXCEPT !.settled = TRUE]),
                            Declines([TransferBody EXCEPT !.resume = TRUE])>>)}

LinkVectors == StateColumns \cup
    SettlementNegotiation \cup
    ReceiverSettleMode \cup
    FlowCounts \cup
    MoreAndAborted \cup
    Resumption \cup
    AttachFields \cup
    RemoteChannel \cup
    NextIncomingId \cup
    ChannelZero \cup
    ReattachAndMaps \cup
    SuspendedLinks \cup
    IncompleteMaps \cup
    TagsHeld \cup
    SettledAfterDetach
=============================================================================
