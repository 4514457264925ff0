---------------------------- MODULE MCGameServer ----------------------------
(***************************************************************************)
(* The two programs built on the library, for TLC: the test server, which  *)
(* runs a GameServer, and the test client.  A behaviour is a run of one.   *)
(***************************************************************************)
EXTENDS GameServer, TestClient

VARIABLE program  \* the one that runs

programVars == <<program, serverVars, clientVars>>

Server(A) == program = "server" /\ A /\ UNCHANGED <<program, clientVars>>
Client(A) == program = "client" /\ A /\ UNCHANGED <<program, serverVars>>

ProgramInit == program \in {"server", "client"} /\ ServerInit /\ ClientInit

ProgramNext == Server(ServerNext) \/ Client(ClientNext)

\* The fairness of GameServer; of the client, that its main thread runs, and
\* that the server reads what it is sent.
ProgramFairness ==
    /\ WF_programVars(Server(Works(Manager)))
    /\ \A s \in Objects : WF_programVars(Server(Works(PeerReads(s))))
    /\ \A t \in Threads : WF_programVars(Server(Works(Runs(t))))
    /\ WF_programVars(Client(Main))
    /\ WF_programVars(Client(ServerReads))

ProgramSpec == ProgramInit /\ [][ProgramNext]_programVars /\ ProgramFairness

=============================================================================
