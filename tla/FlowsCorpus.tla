------------------------------ MODULE FlowsCorpus ------------------------------
(***************************************************************************)
(* The vectors of scripts/gen/flows.py, one message framed in every way    *)
(* the split rule permits and in some it does not, and those of            *)
(* scripts/gen/probe-session-settle-counts.py.                             *)
(*                                                                         *)
(* Where in its octets a message is cut is left out: the session does not  *)
(* read them, so the sweep over split points is one vector per number of   *)
(* transfers.                                                              *)
(***************************************************************************)
EXTENDS SessionCorpus

\* One delivery of id `deliveryId' in `count' transfers.
Fragments(count, deliveryId) ==
    [i \in 1 .. count |->
        Received(IF i = 1 THEN [FragmentBody(0, count) EXCEPT !.deliveryId = deliveryId]
                          ELSE FragmentBody(i - 1, count))]

Framed(steps) == AsReceiver \o steps

\* A message in one, two and three transfers, and a continuation that repeats
\* what the first transfer carried.
FlowCorpus ==
    {Exchange("flow-fragment", S("MAPPED"), Framed(Fragments(count, 0))) : count \in 1 .. 3}
    \cup
    {Exchange("flow-fragment-continuation-repeats-the-first-fields", S("MAPPED"),
        Framed(<<Received(FragmentBody(0, 2)), Received(TransferBody)>>))}

Continues == [TransferUnidentified EXCEPT !.more = TRUE]

\* A continuation that contradicts its first transfer, in each of three fields.
DifferingContinuations ==
    {[Continues EXCEPT !.deliveryId = 1],
     [Continues EXCEPT !.tag        = "elsewhere"],
     [Continues EXCEPT !.format     = 1]}

ContinuationNegatives ==
    {Exchange("flow-negative-continuation-differs", S("MAPPED"),
        Framed(<<Received(FragmentBody(0, 3)), Received(FragmentBody(1, 3)), Discards(body)>>))
     : body \in DifferingContinuations}

\* A transfer after the message ended; a first frame one octet over the size
\* this end announced, after one that fits.
FlowNegatives ==
    {Exchange("flow-negative-transfer-after-the-message-ended", S("MAPPED"),
        Framed(Fragments(2, 0) \o <<Discards(Continues)>>)),
     Exchange("flow-negative-fragment-over-the-announced-frame-size", C("START"),
        <<SendHeader, Send(OpenLimited(MinMaxFrameSize), C("OPEN_PIPE")),
          Receive(Header("amqp"), C("OPEN_SENT")), Receive(OpenBody, C("OPENED")),
          Send(BeginBody, S("BEGIN_SENT")), Received(Answering(BeginBody))>>
        \o Framed(<<Received([FragmentBody(0, 2) EXCEPT !.size = MinMaxFrameSize - 1]),
                    Received(FragmentBody(1, 2)),
                    ReceiveRefused([FragmentBody(0, 2) EXCEPT !.deliveryId = 1,
                                                              !.size = MinMaxFrameSize + 1],
                                   C("DISCARDING"))>>))}
    \cup ContinuationNegatives

-----------------------------------------------------------------------------
(* The settle and count probe. *)

\* Counts before and after the sender's attach, in the direction a test seldom
\* takes, the exemption of an aborted delivery, and the echo of credit.
ProbeVectors ==
    LET unsettled == LinkUp([AttachBody("sender") EXCEPT !.settleMode = "unsettled"],
                            AttachBody("receiver"), 1)
    IN  {Exchange("probe-flow-count-before-sender-attach", S("MAPPED"),
            <<Received(AttachBody("receiver")), step>>)
         : step \in {Discards(FlowBody), Received(FlowWithoutCounts)}}
        \cup
        {Exchange("probe-flow-count-sent", S("MAPPED"),
            <<Sent(AttachBody("sender")), Declines(flow)>>)
         : flow \in {FlowWithoutCounts, [FlowBody EXCEPT !.count = 5]}}
        \cup
        {Exchange("probe-settled-sent", S("MAPPED"), unsettled \o <<step>>)
         : step \in {Sent([TransferBody EXCEPT !.settled = TRUE, !.aborted = TRUE]),
                     Declines([TransferBody EXCEPT !.settled = TRUE])}}
        \cup
        {Exchange("probe-credit-echo", S("MAPPED"), AsSender(3) \o <<step>>)
         : step \in {Declines([FlowBody EXCEPT !.credit = 5]),
                     Sent([FlowBody EXCEPT !.credit = 3])}}

FlowVectors == FlowCorpus \cup FlowNegatives \cup ProbeVectors
=============================================================================
