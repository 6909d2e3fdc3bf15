--------------------------- MODULE MCGatewayAccess ---------------------------
(***************************************************************************)
(* The parts of the Gateway between a client and a Runtime.  They share no *)
(* state, so each behaviour runs one of them.                              *)
(***************************************************************************)
EXTENDS GatewayProxy, GatewayBrowser, SSHChannel, SSHAuthLimiter

VARIABLE focus  \* the part that this behaviour runs

mcVars == <<focus, proxyVars, browserVars, sshVars, limiterVars>>

\* Two requests from one address and one from another.
MCIp    == [r \in Requests |-> IF r = 3 THEN "ip2" ELSE "ip1"]
MCLimit == [s \in AllSlots |-> IF s \in {"session", "endpoint"} THEN 2 ELSE 1]

\* Two clients at one address, and one elsewhere with the public key of another.
MCItems == <<<<"ip1", "cs", "ip1cs", "key1">>, <<"ip1", "cs", "ip1cs", "key2">>,
             <<"ip2", "cs", "ip2cs", "key2">>>>
MCKeyLimit == [k \in LimitKeys |-> IF k \in {"ip1", "cs"} THEN 2 ELSE 1]

Init ==
    /\ ProxyInit /\ BrowserInit /\ SSHInit /\ LimiterInit
    /\ focus \in {"proxy", "browser", "ssh", "limiter"}

Next ==
    /\ UNCHANGED focus
    /\ \/ focus = "proxy" /\ ProxyNext /\ UNCHANGED <<browserVars, sshVars, limiterVars>>
       \/ focus = "browser" /\ BrowserNext /\ UNCHANGED <<proxyVars, sshVars, limiterVars>>
       \/ focus = "ssh" /\ SSHNext /\ UNCHANGED <<proxyVars, browserVars, limiterVars>>
       \/ focus = "limiter" /\ LimiterNext /\ UNCHANGED <<proxyVars, browserVars, sshVars>>

\* The fairness of SSHChannel and SSHAuthLimiter, where they run.
Channel(A) == focus = "ssh" /\ A
Limiter(A) == focus = "limiter" /\ A

Spec ==
    /\ Init /\ [][Next]_mcVars
    /\ WF_sshVars(Channel(CloseConn)) /\ WF_sshVars(Channel(Gone /\ UpRead))
    /\ WF_sshVars(Channel(Gone /\ AskRead))
    /\ SF_sshVars(Channel(UpLock)) /\ WF_sshVars(Channel(FeedLock)) /\ WF_sshVars(Channel(AskLock))
    /\ WF_sshVars(Channel(stream = "over" /\ Sending))
    /\ WF_sshVars(Channel(UpPipe)) /\ WF_sshVars(Channel(FeedRead)) /\ WF_sshVars(Channel(Receive))
    /\ WF_sshVars(Channel(RecvPipe)) /\ WF_sshVars(Channel(DownEnds))
    /\ WF_sshVars(Channel(Serve \/ Half \/ ExitStatus \/ ExitLate \/ Close \/ Return))
    /\ SF_sshVars(Channel(CloseSend))
    /\ WF_limiterVars(Limiter(LimiterTick))
=============================================================================
