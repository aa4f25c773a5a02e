--------------------------- MODULE MCWireDifferential ---------------------------
(* WireDifferential for TLC: the slice, and vectors of the other corpora that *)
(* the driver would also select.                                              *)
EXTENDS WireDifferential

MCMechanisms == {"ANONYMOUS", "PLAIN", "anonymous"}

\* A dialogue of sasl.ndjson, as far as the initiation.
ClientDialogue ==
    Exchange("client-dialogue", C("START"), SaslHeaders \o
        <<Receive(MechanismsBody({"PLAIN"}), Unset), Send(InitBody("PLAIN"), Unset),
          Receive(OutcomeBody, C("START"))>>)

MCVectors == Slice \cup VersionRefusals \cup Controls
             \cup {AdmittedHeader, ThirdSend, ClientDialogue}
=================================================================================
