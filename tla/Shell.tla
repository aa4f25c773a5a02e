--------------------------------- MODULE Shell ---------------------------------
(***************************************************************************)
(* Two amqp-endpoint processes (lean/Shell) over one TCP connection: the   *)
(* server that accepted it and the client that dialled it.  Each is one    *)
(* thread: it asks its application, submits what the application wants     *)
(* sent, reads, serves what it read one unit at a time, and closes.  A     *)
(* step is one call of the core or of the socket.                          *)
(*                                                                         *)
(* The socket is modelled from how the shell uses it: a write waits until  *)
(* it is accepted whole (sendAll), a read takes any number of the units    *)
(* that have arrived (the octets of a partial unit wait in the inbox and   *)
(* change nothing), a closed partner is an orderly end of the stream, and  *)
(* a partner that closed with units unread may show as a reset instead.    *)
(***************************************************************************)
EXTENDS Connection

CONSTANTS
    App(_, _, _),          \* App(p, run, e): the replies the application at p
                           \* may give when its core is in e
    Programs,              \* the applications the processes may be built with
    Runs,                  \* the programs and --layer switches they may be run with
    maxApplicationRounds,  \* the shell's bound on asking in one state (8)
    SocketBuffer           \* the units the kernel holds for a process that does
                           \* not read

Peers == {"client", "server"}
Other(p) == IF p = "client" THEN "server" ELSE "client"

ASSUME ShellAssumption == /\ Runs \subseteq [program : Programs, layer : [Peers -> Layers]]
                          /\ maxApplicationRounds \in Nat
                          /\ SocketBuffer \in Nat \ {0}

VARIABLES
    run,     \* the program, and run.layer[p] the switch p was run with
    core,    \* core[p]: the connection state of its core
    at,      \* at[p]: where its thread is
    reply,   \* reply[p]: what is left of the application's reply
    live,    \* live[p]: serveApp's verdict so far
    rounds,  \* rounds[p]: consecutive rounds the application asked to send
    inbox,   \* inbox[p]: units read and not served
    wire     \* wire[p]: units written and not read by p

vars == <<run, core, at, reply, live, rounds, inbox, wire>>

Running == {"asking", "submitting", "serving", "reading"}
Gone(p) == at[p] \in {"closed", "failed"}

NoReply == [octets |-> <<>>, done |-> FALSE]

-----------------------------------------------------------------------------

\* runConnection begins with the application's opening move, before any read.
Init == /\ run \in Runs
        /\ core   = [p \in Peers |-> InitialEndpoint]
        /\ at     = [p \in Peers |-> "asking"]
        /\ reply  = [p \in Peers |-> NoReply]
        /\ live   = [p \in Peers |-> TRUE]
        /\ rounds = [p \in Peers |-> 0]
        /\ inbox  = [p \in Peers |-> <<>>]
        /\ wire   = [p \in Peers |-> <<>>]

Goto(p, place) == at' = [at EXCEPT ![p] = place]

\* An exception unwinds to serveConn or dial, which closes the socket.
Fail(p) == /\ Goto(p, "failed")
           /\ UNCHANGED <<run, core, reply, live, rounds, inbox, wire>>

\* writeOutputs: the core moved to e, and its outputs go on the wire.  sendAll
\* blocks while the kernel has no room for them.
Write(p, e, units) ==
    /\ units # <<>> => Len(wire[Other(p)]) + Len(units) <= SocketBuffer
    /\ core' = [core EXCEPT ![p] = e]
    /\ wire' = [wire EXCEPT ![Other(p)] = @ \o units]

\* Where serveApp's caller goes on: the loop while live, the socket's close else.
Return(p, alive) == /\ live' = [live EXCEPT ![p] = alive]
                    /\ Goto(p, IF alive THEN "serving" ELSE "closed")

\* Mutant: the rounds are compared before the new one is counted.
MutTooMany(asked) == asked > maxApplicationRounds

\* One round more than the bound is an error.
TooMany(asked) == asked = maxApplicationRounds

\* Mutant: a reply with octets does not count as a round.
MutCounted(asked) == asked

Counted(asked) == asked + 1

\* Mutant: a reply with nothing to send is never the last.
MutGoesOn(alive, r) == alive /\ (r.done => r.octets = <<>>)

GoesOn(alive, r) == alive /\ ~r.done

\* serveApp: ask the application once more.  A reply with nothing to send ends
\* the asking.
Ask(p) ==
    /\ at[p] = "asking"
    /\ \E r \in App(p, run, core[p]) :
         IF r.octets = <<>>
         THEN /\ Return(p, GoesOn(live[p], r))
              /\ UNCHANGED <<run, core, reply, rounds, inbox, wire>>
         ELSE IF TooMany(rounds[p])
              THEN Fail(p)
              ELSE /\ reply'  = [reply EXCEPT ![p] = r]
                   /\ rounds' = [rounds EXCEPT ![p] = Counted(@)]
                   /\ Goto(p, "submitting")
                   /\ UNCHANGED <<run, core, live, inbox, wire>>

\* serveApp: submit the next octets of the reply.  What the core cannot read
\* is an error; a submission that leaves the core at END is the last round.
Submit(p) ==
    /\ at[p] = "submitting"
    /\ reply[p].octets # <<>>
    /\ LET u == Head(reply[p].octets)
           r == Sending(core[p], u)
       IN  IF u.kind = "garbage"
           THEN Fail(p)
           ELSE /\ Write(p, r.conn, r.wrote)
                /\ live'  = [live EXCEPT ![p] = @ /\ r.conn.state # "END"]
                /\ reply' = [reply EXCEPT ![p].octets = Tail(@)]
                /\ UNCHANGED <<run, at, rounds, inbox>>

\* The units the thread's next call of sendAll has to write.
NextWrite(p) ==
    CASE at[p] = "submitting" /\ reply[p].octets # <<>> /\ Head(reply[p].octets) # Garbage ->
           Sending(core[p], Head(reply[p].octets)).wrote
      [] at[p] = "serving" /\ inbox[p] # <<>> -> Arriving(core[p], Head(inbox[p])).wrote
      [] OTHER -> <<>>

\* A write to a partner that has gone may fail.
WriteFails(p) == /\ NextWrite(p) # <<>>
                 /\ Gone(Other(p))
                 /\ Fail(p)

\* serveApp: the reply is submitted.  Stop if the application is done or the
\* connection ended; ask again otherwise.
EndReply(p) ==
    /\ at[p] = "submitting"
    /\ reply[p].octets = <<>>
    /\ IF GoesOn(live[p], reply[p])
       THEN Goto(p, "asking") /\ UNCHANGED live
       ELSE Return(p, FALSE)
    /\ reply' = [reply EXCEPT ![p] = NoReply]
    /\ UNCHANGED <<run, core, rounds, inbox, wire>>

\* serveUnits: answer one unit, write the outputs, and ask the application.
Serve(p) ==
    /\ at[p] = "serving"
    /\ inbox[p] # <<>>
    /\ LET r == Arriving(core[p], Head(inbox[p]))
       IN  Write(p, r.conn, r.wrote)
    /\ inbox'  = [inbox EXCEPT ![p] = Tail(@)]
    /\ rounds' = [rounds EXCEPT ![p] = 0]
    /\ Goto(p, "asking")
    /\ UNCHANGED <<run, reply, live>>

\* pump: nothing complete is left, so read again.
ReadAgain(p) == /\ at[p] = "serving"
                /\ inbox[p] = <<>>
                /\ Goto(p, "reading")
                /\ UNCHANGED <<run, core, reply, live, rounds, inbox, wire>>

\* readOnce: recv returns as much of the stream as the kernel chooses.
Read(p) ==
    /\ at[p] = "reading"
    /\ \E n \in 1..Len(wire[p]) :
         /\ inbox' = [inbox EXCEPT ![p] = SubSeq(wire[p], 1, n)]
         /\ wire'  = [wire EXCEPT ![p] = SubSeq(@, n + 1, Len(@))]
    /\ Goto(p, "serving")
    /\ UNCHANGED <<run, core, reply, live, rounds>>

\* pump: recv's none, the partner's orderly close.
EndOfStream(p) == /\ at[p] = "reading"
                  /\ Gone(Other(p))
                  /\ wire[p] = <<>>
                  /\ Goto(p, "closed")
                  /\ UNCHANGED <<run, core, reply, live, rounds, inbox, wire>>

\* The partner went away with units it never read.
Reset(p) == /\ at[p] = "reading"
            /\ Gone(Other(p))
            /\ wire[Other(p)] # <<>>
            /\ Fail(p)

Step(p) == \/ Ask(p) \/ Submit(p) \/ WriteFails(p) \/ EndReply(p)
           \/ Serve(p) \/ ReadAgain(p) \/ Read(p) \/ EndOfStream(p) \/ Reset(p)

Next == \E p \in Peers : Step(p)

\* A process whose next call does not block makes it.
Fairness == \A p \in Peers : WF_vars(Step(p))

Spec == Init /\ [][Next]_vars /\ Fairness

-----------------------------------------------------------------------------
(* The applications of Main: announce the header of the switch, and, the     *)
(* client only, finish once both headers have crossed.                       *)

clientApp(offered, e) ==
    [octets |-> IF e.state = "START" THEN <<Header(offered)>> ELSE <<>>,
     done   |-> e.state = "HDR_EXCH"]

serverApp(offered, e) ==
    [octets |-> IF e.state = "START" THEN <<Header(offered)>> ELSE <<>>,
     done   |-> FALSE]

ShippedApp(p, command, e) ==
    {IF p = "client" THEN clientApp(command.layer[p], e) ELSE serverApp(command.layer[p], e)}

-----------------------------------------------------------------------------
(* Properties. *)

TypeOK == /\ run \in Runs
          /\ core \in [Peers -> Endpoints]
          /\ at \in [Peers -> Running \cup {"closed", "failed"}]
          /\ \A p \in Peers : /\ reply[p].octets \in Seq(Units \cup {Garbage})
                              /\ reply[p].done \in BOOLEAN
          /\ live \in [Peers -> BOOLEAN]
          /\ rounds \in [Peers -> 0..maxApplicationRounds]
          /\ inbox \in [Peers -> Seq(Units)]
          /\ wire \in [Peers -> Seq(Units)]

\* Whatever two applications that submit no frame of the SASL dialogue ask for,
\* in whatever order and however the reads split, a close is the last unit on
\* its way to a process.  (With the dialogue a header may follow it: the answer
\* of a server that pipelined header, open and close behind its outcome to a
\* response that was still on its way.)
CloseLastOnWire == \A p \in Peers :
    LET stream == inbox[p] \o wire[p]
    IN  \A i \in DOMAIN stream :
          stream[i].kind = "frame" /\ stream[i].body = "close" => i = Len(stream)

\* When one process has gone the other goes too, whatever its application
\* does: the bound on asking keeps it from being asked for ever.
GoneTogether == (\E p \in Peers : Gone(p)) ~> (\A p \in Peers : Gone(p))

\* Two shipped processes run with the same switch exchange headers and exit 0.
ShippedExit ==
    (run.program = "shipped") ~>
        (\A p \in Peers : at[p] = "closed" /\ core[p].state = "HDR_EXCH")
=============================================================================
