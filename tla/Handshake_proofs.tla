--------------------------- MODULE Handshake_proofs ---------------------------
(* The promise of the state table, proved of its abstract form. *)
EXTENDS Handshake, TLAPS

\* A stage is spoken only when the partner's previous one was heard, and heard
\* only when it was spoken: both orders are kept by every step.
THEOREM KeepsInStep == Spec => []InStep
<1>1. Init => TypeOK /\ InStep
  BY SMT DEF Init, TypeOK, InStep, Stages, Peers, Other
<1>2. TypeOK /\ InStep /\ [Next]_handshake => (TypeOK /\ InStep)'
  <2> SUFFICES ASSUME TypeOK, InStep, [Next]_handshake PROVE (TypeOK /\ InStep)'
    OBVIOUS
  <2> USE DEF TypeOK, InStep, Stages
  <2>1. ASSUME NEW p \in Peers, Speak(p) PROVE (TypeOK /\ InStep)'
    BY <2>1 DEF Speak, Peers, Other
  <2>2. ASSUME NEW p \in Peers, Hear(p) PROVE (TypeOK /\ InStep)'
    BY <2>2 DEF Hear, Peers, Other
  <2>3. CASE UNCHANGED handshake
    BY <2>3 DEF handshake
  <2> QED
    BY <2>1, <2>2, <2>3 DEF Next
<1> QED
  BY <1>1, <1>2, PTL DEF Spec
=============================================================================
