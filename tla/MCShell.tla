-------------------------------- MODULE MCShell --------------------------------
(* Shell for TLC: the shipped applications, and one that may ask for anything. *)
EXTENDS Shell

Plain(body) == [kind |-> "frame", body |-> body, channel |-> 0, size |-> 1,
                complete |-> TRUE]

Open == [kind |-> "frame", body |-> "open", channel |-> 0, size |-> 1,
         complete |-> TRUE, declares |-> APriori]

\* Single sends, the batches a pipelining application writes, and octets that
\* are no unit.  A finished application has nothing more to send, or a close.
Batches == {<<>>, <<Header("amqp"), Open>>, <<Open>>, <<Plain("close")>>,
            <<Plain("other"), Plain("close")>>, <<Garbage>>}

AnyApp == {r \in [octets : Batches, done : BOOLEAN] :
              r.done => r.octets \in {<<>>, <<Plain("close")>>}}

MCApp(p, command, e) == IF command.program = "shipped" THEN ShippedApp(p, command, e) ELSE AnyApp

MCMechanisms == {}
MCPrograms   == {"shipped", "any"}

\* Any application asks without regard to the switch it is run with.
MCRuns == {[program |-> "shipped", layer |-> [p \in Peers |-> l]] : l \in Layers}
          \cup {[program |-> "any", layer |-> [p \in Peers |-> "amqp"]]}
=============================================================================
