--------------------------- MODULE ConnectionCorpus ---------------------------
(***************************************************************************)
(* The vectors of scripts/gen/slices.py's corpus, about the connection and *)
(* its SASL layer, and the controls of its mutation_corpus.                *)
(***************************************************************************)
EXTENDS Corpus

\* The client's order, the server's, and the pipelined ones: every path the
\* table permits.
NegotiationPaths == {
    Exchange("client-open", C("START"),
        <<SendHeader, Receive(Header("amqp"), C("HDR_EXCH")),
          Send(OpenBody, C("OPEN_SENT")), Receive(OpenBody, C("OPENED"))>>),
    Exchange("server-open", C("START"),
        <<Receive(Header("amqp"), C("HDR_RCVD")), Send(Header("amqp"), C("HDR_EXCH")),
          Receive(OpenBody, C("OPEN_RCVD")), Send(OpenBody, C("OPENED"))>>),
    Exchange("pipelined-open", C("START"),
        <<SendHeader, Send(OpenBody, C("OPEN_PIPE")),
          Receive(Header("amqp"), C("OPEN_SENT")), Receive(OpenBody, C("OPENED"))>>),
    Exchange("pipelined-close", C("START"),
        <<SendHeader, Send(OpenBody, C("OPEN_PIPE")), Send(CloseBody, C("OC_PIPE")),
          Receive(Header("amqp"), C("CLOSE_PIPE")),
          Receive(OpenBody, C("CLOSE_SENT")), Receive(CloseBody, C("END"))>>),
    Exchange("close-sent-first", C("OPENED"),
        <<Send(CloseBody, C("CLOSE_SENT")), Receive(CloseBody, C("END"))>>),
    Exchange("close-received-first", C("OPENED"),
        <<Receive(CloseBody, C("CLOSE_RCVD")), Send(CloseBody, C("END"))>>)}

\* Headers for a protocol or version this peer does not speak, and octets
\* that are no header: whichever it is, the negotiation fails.
VersionRefusals == {Exchange(v, C("START"), <<ReceiveRefused(Garbage, C("END")), RefusedHeaderInEnd>>) : v \in
        {"header-protocol-id-unsupported",
         "header-protocol-id-unassigned",
         "header-version-unsupported",
         "header-truncated",
         "header-malformed"}}

\* The header precedes every frame, the open comes once and on channel 0, the
\* headers agree.
OrderingRules == {
    Exchange("open-before-header", C("START"),
        <<SendRefused(OpenBody, C("START")), SendHeader>>),
    Exchange("open-twice", C("HDR_EXCH"),
        <<Send(OpenBody, C("OPEN_SENT")), SendRefused(OpenBody, C("OPEN_SENT"))>>),
    Exchange("open-on-channel-one-send", C("HDR_EXCH"),
        <<SendRefused([OpenBody EXCEPT !.channel = 1], C("HDR_EXCH")),
          Send(OpenBody, C("OPEN_SENT"))>>),
    Exchange("open-on-channel-one-receive", C("HDR_EXCH"),
        <<ReceiveRefused([OpenBody EXCEPT !.channel = 1], C("DISCARDING")),
          Receive(CloseBody, C("END"))>>),
    Exchange("frame-where-header-belongs", C("START"),
        <<ReceiveRefused(OpenBody, C("END")), RefusedHeaderInEnd>>),
    Exchange("two-headers", C("START"),
        <<Receive(Header("amqp"), C("HDR_RCVD")),
          ReceiveRefused(Header("amqp"), C("DISCARDING"))>>),
    Exchange("header-mismatch-in-hdr-sent", C("HDR_SENT"),
        <<ReceiveRefused(Header("sasl"), C("END")), RefusedHeaderInEnd>>)}

\* A column that admits what is known to conform is not one that admits
\* nothing.
AdmittedSends == {
    Exchange("conforming-frame-in-open-sent", C("OPEN_SENT"),
        <<Send(CloseBody, C("CLOSE_PIPE")), SendRefused(CloseBody, C("CLOSE_PIPE"))>>),
    Exchange("frame-in-end-refused", C("END"),
        <<SendRefused(CloseBody, C("END")), RefusedCloseInEnd>>),
    Exchange("bodyless-frame-in-end-refused", C("END"),
        <<ReceiveRefused(EmptyFrame, C("END")),
          ReceiveRefused(EmptyFrame, C("END"))>>)}

\* The a priori limits bound a frame until the partner's open raises them;
\* this peer's own open bounds what it receives.
PipelinedLimits == {
    Exchange("pipelined-channel-limit", C("START"),
        <<SendHeader, Send(OpenBody, C("OPEN_PIPE")),
          SendRefused(TransferBody, C("OPEN_PIPE")),
          Receive(Header("amqp"), C("OPEN_SENT")), Receive(OpenBody, C("OPENED")),
          Send(BeginBody, S("BEGIN_SENT")), Received(Answering(BeginBody)),
          Sent(AttachBody("sender")), Received(AttachBody("receiver")),
          Received([FlowBody EXCEPT !.credit = 1000]), Sent(TransferBody)>>),
    Exchange("pipelined-frame-size-limit", C("START"),
        <<SendHeader, Send(OpenBody, C("OPEN_PIPE")),
          SendRefused([TransferBody EXCEPT !.channel = 0,
                                           !.size = MinMaxFrameSize + 1], C("OPEN_PIPE")),
          Receive(Header("amqp"), C("OPEN_SENT")), Receive(OpenBody, C("OPENED")),
          Send(BeginBody, S("BEGIN_SENT")), Received(Answering(BeginBody)),
          Sent(AttachBody("sender")), Received(AttachBody("receiver")),
          Received([FlowBody EXCEPT !.credit = 1000]),
          Sent([TransferBody EXCEPT !.size = MinMaxFrameSize + 1])>>),
    Exchange("oversized-frame-received", C("START"),
        <<SendHeader, Send(OpenLimited(MinMaxFrameSize), C("OPEN_PIPE")),
          Receive(Header("amqp"), C("OPEN_SENT")), Receive(OpenBody, C("OPENED")),
          ReceiveRefused([TransferBody EXCEPT !.size = MinMaxFrameSize + 1], C("DISCARDING"))>>)}

\* Both ends of ANONYMOUS, a mechanism nobody offered, and frames of one
\* layer in the other.
SaslDialogues == {
    Exchange("sasl-anonymous-to-open", C("START"),
        <<SendSaslHeader, Receive(Header("sasl"), C("HDR_EXCH")),
          Receive(MechanismsBody({"ANONYMOUS"}), Unset),
          Send(InitBody("ANONYMOUS"), C("HDR_EXCH")),
          Receive(OutcomeBody, C("START")), SendHeader,
          Receive(Header("amqp"), C("HDR_EXCH")), Send(OpenBody, C("OPEN_SENT")),
          Receive(OpenBody, C("OPENED"))>>),
    Exchange("sasl-anonymous-server", C("START"),
        <<Receive(Header("sasl"), C("HDR_RCVD")), Send(Header("sasl"), C("HDR_EXCH")),
          Send(MechanismsBody({"ANONYMOUS"}), C("HDR_EXCH")),
          Receive(InitBody("ANONYMOUS"), C("HDR_EXCH")),
          Send(OutcomeBody, C("START")), Receive(Header("amqp"), C("HDR_RCVD")),
          Send(Header("amqp"), C("HDR_EXCH")), Receive(OpenBody, C("OPEN_RCVD")),
          Send(OpenBody, C("OPENED"))>>),
    Exchange("sasl-mechanism-not-offered", C("START"),
        <<Receive(Header("sasl"), C("HDR_RCVD")), Send(Header("sasl"), C("HDR_EXCH")),
          Send(MechanismsBody({"ANONYMOUS"}), C("HDR_EXCH")),
          ReceiveRefused(InitBody("PLAIN"), C("END"))>>),
    Exchange("sasl-mechanism-case-sensitive", C("START"),
        <<Receive(Header("sasl"), C("HDR_RCVD")), Send(Header("sasl"), C("HDR_EXCH")),
          Send(MechanismsBody({"ANONYMOUS"}), C("HDR_EXCH")),
          ReceiveRefused(InitBody("anonymous"), C("END"))>>),
    Exchange("sasl-frame-before-header", C("START"),
        <<SendRefused(MechanismsBody({"ANONYMOUS"}), C("START")), SendSaslHeader>>),
    Exchange("amqp-frame-in-sasl-layer", C("START"),
        <<SendSaslHeader, Receive(Header("sasl"), C("HDR_EXCH")),
          SendRefused(OpenBody, C("HDR_EXCH"))>>),
    Exchange("sasl-frame-in-amqp-layer", C("START"),
        <<Receive(Header("amqp"), C("HDR_RCVD")), Send(Header("amqp"), C("HDR_EXCH")),
          ReceiveRefused(MechanismsBody({"ANONYMOUS"}), C("DISCARDING"))>>)}

\* DISCARDING answers nothing, and ends at the partner's close.
DiscardingFrames == {
    Exchange("discarding-ignores-frames", C("DISCARDING"),
        <<Receive(CloseBody, C("END")), SendRefused(CloseBody, C("END"))>>)}

\* The frame-size and channel bounds at the value they were declared with,
\* one octet over, and one channel over.
FrameBounds == {
    Exchange("frame-size-at-the-declared-maximum", C("START"),
        <<SendHeader, Send(OpenLimited(MinMaxFrameSize), C("OPEN_PIPE")),
          Receive(Header("amqp"), C("OPEN_SENT")), Receive(OpenBody, C("OPENED")),
          Send(BeginBody, S("BEGIN_SENT")), Received(Answering(BeginBody)),
          Received([FlowWithoutLink EXCEPT !.size = MinMaxFrameSize]),
          ReceiveRefused([FlowWithoutLink EXCEPT !.size = MinMaxFrameSize + 1], C("DISCARDING"))>>),
    Exchange("frame-size-below-the-header", C("OPENED"),
        <<ReceiveRefused(Garbage, C("DISCARDING")),
          ReceiveRefused(Garbage, C("DISCARDING"))>>),
    Exchange("empty-frame-any-channel", C("OPENED"),
        <<Receive(EmptyFrame, C("OPENED")), Receive(EmptyFrame, C("OPENED"))>>),
    Exchange("extended-header-relayed", C("OPENED"),
        <<Receive(CloseBody, C("CLOSE_RCVD")), Send(CloseBody, C("END"))>>),
    Exchange("frame-above-our-declared-channel-max", C("START"),
        <<SendHeader,
          Send([OpenLimited(MinMaxFrameSize) EXCEPT !.declares.channelMax = 2], C("OPEN_PIPE")),
          Receive(Header("amqp"), C("OPEN_SENT")), Receive(OpenBody, C("OPENED")),
          ReceiveRefused([TransferBody EXCEPT !.channel = 3], C("DISCARDING"))>>),
    Exchange("oversized-sasl-frame", C("START"),
        <<SendSaslHeader, Receive(Header("sasl"), C("HDR_EXCH")),
          ReceiveRefused([MechanismsBody({"ANONYMOUS"}) EXCEPT !.size = MinMaxFrameSize + 1], C("END"))>>)}

\* Vectors that assert what the artifact does not permit: each must fail.
Controls == {
    Exchange("end-send-asserted", C("END"),
        <<Send(CloseBody, C("END")), RefusedCloseInEnd>>),
    Exchange("wrong-expected-state", C("START"),
        <<Send(Header("amqp"), C("HDR_RCVD")), Send(OpenBody, C("OPEN_PIPE"))>>),
    Exchange("refusal-expected-admitted", C("START"),
        <<Receive(Garbage, C("HDR_RCVD")), RefusedHeaderInEnd>>)}

ConnectionVectors == NegotiationPaths \cup
    VersionRefusals \cup
    OrderingRules \cup
    AdmittedSends \cup
    PipelinedLimits \cup
    SaslDialogues \cup
    DiscardingFrames \cup
    FrameBounds
=============================================================================
