----------------------------- MODULE MCSessionPair -----------------------------
(* SessionPair for TLC: the settle modes and the credits. *)
EXTENDS SessionPair

MCModes  == {Unset, "settled"}
MCGrants == {1}
=============================================================================
