------------------------------ MODULE CorpusReplay ------------------------------
(***************************************************************************)
(* The exchange corpus replayed against the model: what                    *)
(* lean/Harness/Runner.lean's runExchange and checkExchangeStep do with    *)
(* the reference codec.  A vector is chosen, the peer is put in the state  *)
(* it starts at, and each step's verdict is compared with what the vector  *)
(* pins.  A step that pins no state means "where that layer was last left".*)
(***************************************************************************)
EXTENDS ConnectionCorpus, LinkCorpus, FlowsCorpus

VARIABLES
    vector,      \* the vector being replayed
    position,    \* the step that is next
    peer,        \* the peer the steps have made
    remembered,  \* per layer, the state name last reported, or Unset
    failed       \* the positions whose verdict was not the vector's

vars == <<vector, position, peer, remembered, failed>>

Corpus == ConnectionVectors \cup SessionVectors \cup LinkVectors \cup FlowVectors

Done == position > Len(vector.steps)

-----------------------------------------------------------------------------

Init ==
    /\ vector \in Corpus \cup Controls
    /\ position = 1
    /\ peer = StartPeer(vector.start[1], vector.start[2])
    /\ remembered = [layer \in {"connection", "session"} |->
                        IF layer = vector.start[1] THEN vector.start ELSE Unset]
    /\ failed = {}

\* Mutant: the state is compared and the status is not.
MutAgrees(step, answer) ==
    answer.state = IF step.state = Unset THEN remembered[answer.state[1]] ELSE step.state

\* A layer nothing has named yet has no state to agree with.
Agrees(step, answer) ==
    /\ step.ok = answer.ok
    /\ answer.state = IF step.state = Unset THEN remembered[answer.state[1]]
                                            ELSE step.state

Replay ==
    /\ ~Done
    /\ LET step   == vector.steps[position]
           answer == PeerStep(peer, step.out, step.unit)
       IN  /\ peer' = answer.peer
           /\ remembered' = [remembered EXCEPT ![answer.state[1]] = answer.state]
           /\ failed' = IF Agrees(step, answer) THEN failed ELSE failed \cup {position}
    /\ position' = position + 1
    /\ UNCHANGED vector

Spec == Init /\ [][Replay]_vars

-----------------------------------------------------------------------------
(* Properties. *)

\* The model answers every step of the corpus as the vector pins it, with the
\* state each answer leaves.
CorpusConforms == vector \in Corpus => failed = {}

\* The replay can fail: each control, which asserts what the artifact forbids,
\* is found out.
ControlsFail == vector \in Controls /\ Done => failed # {}
=============================================================================
