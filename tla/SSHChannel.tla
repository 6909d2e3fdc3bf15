----------------------------- MODULE SSHChannel -----------------------------
(***************************************************************************)
(* One SSH channel of the Gateway and the Agent stream behind it: the      *)
(* handler, the goroutines that copy between the two, and the ways all of  *)
(* this ends.  A "command" is a shell or a command (serveWorkspaceSession  *)
(* over agentCommandSession), a "stream" is SFTP or a forwarded port       *)
(* (proxyWorkspaceStream over agentConn).                                  *)
(*                                                                         *)
(* Data is counted in chunks.  A client may stop reading or sending at any *)
(* time, and the Agent may stop accepting input; every other step of the   *)
(* Gateway is fair.  stderr is copied like stdout and is left out.  In the *)
(* SSH library closing a channel only tells the client: a blocked read or  *)
(* write of it returns when the client closes it too or the connection is  *)
(* over.                                                                   *)
(***************************************************************************)
EXTENDS Naturals

CONSTANTS Chunks      \* what the program writes before it exits

ASSUME ChunksAssumption == Chunks \in Nat

VARIABLES
    kind,     \* "command" or "stream"
    conn,     \* the SSH connection is open
    ctx,      \* sessionCtx is over
    client,   \* the client's side of the channel: "open", "eof" or "closed"
    closed,   \* the Gateway has closed the channel
    handler,  \* handleChannel after it has opened the Agent stream
    up,       \* goroutine: channel to session.Stdin() or agentConn.Write
    feed,     \* goroutine of openStream: requestBridge to the Agent
    recv,     \* goroutine: Agent to stdout pipe or responseBridge
    down,     \* goroutine: stdout pipe or agentConn.Read to channel
    asks,     \* goroutine: requests on the channel
    stream,   \* the Agent stream: "open", or "over" once cancelled or failed
    shut,     \* the Gateway's ends of the pipes are closed
    fed,      \* the write end of the pipe that feed reads is closed
    mu,       \* agentAccessStream.mu: who sends
    left,     \* chunks the program has yet to write
    got,      \* chunks the client has received
    exit      \* the exit status: "none", "sent" after all output, "late"

sshVars == <<kind, conn, ctx, client, closed, handler, up, feed, recv, down, asks,
             stream, shut, fed, mu, left, got, exit>>

goroutines == <<up, feed, recv, down, asks>>
outside    == <<kind, conn, ctx, client>>
pipes      == <<stream, shut, fed, mu>>
counts     == <<left, got, exit>>

SSHInit ==
    /\ kind = "command" /\ conn = TRUE /\ ctx = FALSE /\ client = "open" /\ closed = FALSE
    /\ handler = "new" /\ up = "done" /\ feed = "done" /\ recv = "done" /\ down = "done"
    /\ asks = "done" /\ stream = "over" /\ shut = FALSE /\ fed = FALSE /\ mu = "free"
    /\ left = Chunks /\ got = 0 /\ exit = "none"

\* handleChannel: the client opens a channel and the Agent accepts the stream.
OpenChannel(k) ==
    /\ handler = "new" /\ conn /\ handler' = "serve" /\ kind' = k
    /\ stream' = "open" /\ up' = "read" /\ recv' = "receive" /\ down' = "read" /\ asks' = "read"
    /\ feed' = IF k = "stream" THEN "read" ELSE "done"
    /\ UNCHANGED <<conn, ctx, client, closed, shut, fed, mu, counts>>

\* What a read or write of the channel in progress finds.
Gone == client = "closed" \/ ~conn

(***************************************************************************)
(* The connection and the client.                                          *)
(***************************************************************************)
\* revalidateSession, cancelIdleSession, the session registry, or the client
\* drops the connection; serveConn returns and closeGatewaySSHConnOnDone closes.
Cancel ==
    /\ ~ctx /\ ctx' = TRUE
    /\ UNCHANGED <<kind, conn, client, closed, handler, goroutines, pipes, counts>>

CloseConn ==
    /\ ctx /\ conn /\ conn' = FALSE
    /\ UNCHANGED <<kind, ctx, client, closed, handler, goroutines, pipes, counts>>

ClientCloses(to) ==
    /\ client # "closed" /\ client # to /\ client' = to
    /\ UNCHANGED <<kind, conn, ctx, closed, handler, goroutines, pipes, counts>>

\* The Agent, the Manager or the network ends the stream.
StreamFails ==
    /\ stream = "open" /\ stream' = "over"
    /\ UNCHANGED <<outside, closed, handler, goroutines, shut, fed, mu, counts>>

(***************************************************************************)
(* Input.  Each Send holds mu; it blocks while the Agent takes nothing and *)
(* returns when the stream is over.                                        *)
(***************************************************************************)
\* A goroutine g at pc takes mu, sends, and goes on to ok or bad.
Locks(who, pc) == pc \in {"lock", "last"} /\ mu = "free" /\ mu' = who
Sends(who) == mu = who /\ mu' = "free"

UpRead ==
    /\ up = "read"
    /\ up' = CASE kind = "command" /\ (Gone \/ client = "eof") -> "last"
               [] kind = "command" /\ ~(Gone \/ client = "eof") -> "lock"
               [] kind = "stream" /\ (Gone \/ client = "eof") -> "done"
               [] kind = "stream" /\ ~(Gone \/ client = "eof") -> "pipe"
    /\ fed' = (fed \/ up' = "done")                                 \* CloseWrite
    /\ UNCHANGED <<outside, closed, handler, feed, recv, down, asks, stream, shut, mu, counts>>

\* A command's input goes to the Agent, then stdin is closed.
UpLock ==
    /\ Locks("up", up) /\ up' = IF up = "lock" THEN "send" ELSE "sendLast"
    /\ UNCHANGED <<outside, closed, handler, feed, recv, down, asks, stream, shut, fed, counts>>
UpSend ==
    /\ up \in {"send", "sendLast"} /\ Sends("up")
    /\ up' = CASE up = "sendLast" -> "done" [] up = "send" /\ stream = "open" -> "read"
               [] up = "send" /\ stream # "open" -> "last"
    /\ UNCHANGED <<outside, closed, handler, feed, recv, down, asks, stream, shut, fed, counts>>

\* A stream's input goes through a pipe: the two goroutines meet, or the write
\* fails because one end is closed.
UpPipe ==
    /\ up = "pipe"
    /\ \/ feed = "read" /\ ~shut /\ feed' = "lock" /\ up' = "read" /\ UNCHANGED fed
       \/ (shut \/ recv = "done" \/ feed = "done") /\ up' = "done" /\ fed' = TRUE /\ UNCHANGED feed
    /\ UNCHANGED <<outside, closed, handler, recv, down, asks, stream, shut, mu, counts>>
FeedRead ==
    /\ feed = "read" /\ (shut \/ fed \/ recv = "done") /\ feed' = "last"
    /\ UNCHANGED <<outside, closed, handler, up, recv, down, asks, pipes, counts>>
FeedLock ==
    /\ Locks("feed", feed) /\ feed' = IF feed = "lock" THEN "send" ELSE "sendLast"
    /\ UNCHANGED <<outside, closed, handler, up, recv, down, asks, stream, shut, fed, counts>>
FeedSend ==
    /\ feed \in {"send", "sendLast"} /\ Sends("feed")
    /\ feed' = CASE feed = "sendLast" -> "done" [] feed = "send" /\ stream = "open" -> "read"
                 [] feed = "send" /\ stream # "open" -> "last"
    /\ UNCHANGED <<outside, closed, handler, up, recv, down, asks, stream, shut, fed, counts>>

\* Resize and Signal of a command; a stream rejects all requests.
AskRead ==
    /\ asks = "read"
    /\ \/ Gone /\ asks' = "done"
       \/ ~Gone /\ kind = "command" /\ asks' = "lock"
    /\ UNCHANGED <<outside, closed, handler, up, feed, recv, down, pipes, counts>>
AskLock ==
    /\ Locks("asks", asks) /\ asks' = "send"
    /\ UNCHANGED <<outside, closed, handler, up, feed, recv, down, stream, shut, fed, counts>>
AskSend ==
    /\ asks = "send" /\ Sends("asks") /\ asks' = "read"
    /\ UNCHANGED <<outside, closed, handler, up, feed, recv, down, stream, shut, fed, counts>>

(***************************************************************************)
(* Output.                                                                 *)
(***************************************************************************)
\* The next chunk or the exit status; a stream that ends is cancelled too.
Receive ==
    /\ recv = "receive"
    /\ \/ stream = "open" /\ left > 0 /\ left' = left - 1 /\ recv' = "pipe" /\ UNCHANGED stream
       \/ /\ stream = "over" \/ left = 0
          /\ recv' = "done" /\ UNCHANGED left
          /\ stream' = IF kind = "stream" THEN "over" ELSE stream
    /\ UNCHANGED <<outside, closed, handler, up, feed, down, asks, shut, fed, mu, got, exit>>

\* The chunk is written to the pipe: read, or refused because the pipe is shut.
RecvPipe ==
    /\ recv = "pipe"
    /\ \/ down = "read" /\ ~shut /\ down' = "write" /\ recv' = "receive" /\ UNCHANGED stream
       \/ /\ shut /\ recv' = "done" /\ UNCHANGED down
          /\ stream' = IF kind = "stream" THEN "over" ELSE stream
    /\ UNCHANGED <<outside, closed, handler, up, feed, asks, shut, fed, mu, counts>>

DownEnds ==
    /\ \/ down = "read" /\ (recv = "done" \/ shut)
       \/ down = "write" /\ Gone
    /\ down' = "done"
    /\ UNCHANGED <<outside, closed, handler, up, feed, recv, asks, pipes, counts>>

\* The client reads; once the Gateway has closed the channel the write fails.
ClientReads ==
    /\ down = "write" /\ ~Gone
    /\ IF closed THEN down' = "done" /\ UNCHANGED got ELSE down' = "read" /\ got' = got + 1
    /\ UNCHANGED <<outside, closed, handler, up, feed, recv, asks, pipes, left, exit>>

(***************************************************************************)
(* The handler.                                                            *)
(***************************************************************************)
handled == <<outside, closed, goroutines, pipes, counts>>

Serve ==
    /\ handler = "serve"
    /\ \/ (ctx \/ asks = "done" \/ (kind = "stream" /\ down = "done")) /\ handler' = "close"
       \/ kind = "stream" /\ up = "done" /\ handler' = "half"
       \/ kind = "command" /\ recv = "done" /\ handler' = "drain"
    /\ UNCHANGED handled

Half ==
    /\ handler = "half" /\ (ctx \/ asks = "done" \/ down = "done") /\ handler' = "close"
    /\ UNCHANGED handled

\* waitGatewaySSHChannels, then the exit status: the output is out, or a second
\* has passed.
Undrained == handler = "drain"
Drained == handler = "drain" /\ (ctx \/ down = "done")
ExitStatus ==
    /\ Drained /\ handler' = "close"
    /\ exit' = IF ctx \/ Gone THEN "none" ELSE "sent"
    /\ UNCHANGED <<outside, closed, goroutines, pipes, left, got>>
NoTimeout == handler = "drain" /\ down = "done"
Timeout == handler = "drain" /\ down # "done"
ExitLate ==
    /\ Timeout /\ handler' = "close" /\ exit' = "late"
    /\ UNCHANGED <<outside, closed, goroutines, pipes, left, got>>

\* channel.Close, then session.Close or conn.Close: the pipes, the RPC, and then
\* CloseSend, which needs mu.
ClosePipes == stream' = "over" /\ shut' = TRUE
Close ==
    /\ handler = "close" /\ handler' = "closeSend" /\ closed' = TRUE /\ ClosePipes
    /\ UNCHANGED <<outside, goroutines, fed, mu, counts>>
CloseSend ==
    /\ handler = "closeSend" /\ mu = "free" /\ handler' = "wait"
    /\ UNCHANGED handled

\* waitGatewaySSHChannels again; the slot of the channel is free.
Return ==
    /\ handler = "wait" /\ handler' = "done" /\ UNCHANGED handled

AllDone ==
    /\ handler \in {"new", "done"} /\ ~conn
    /\ \A g \in {up, feed, recv, down, asks} : g = "done"
    /\ UNCHANGED sshVars

Sending  == UpSend \/ FeedSend \/ AskSend
SSHNext ==
    \/ OpenChannel("command") \/ OpenChannel("stream")
    \/ Cancel \/ CloseConn \/ ClientCloses("eof") \/ ClientCloses("closed") \/ StreamFails
    \/ UpRead \/ UpLock \/ UpPipe \/ FeedRead \/ FeedLock \/ AskRead \/ AskLock \/ Sending
    \/ Receive \/ RecvPipe \/ DownEnds \/ ClientReads
    \/ Serve \/ Half \/ ExitStatus \/ ExitLate \/ Close \/ CloseSend \/ Return
    \/ AllDone

\* Sends and reads return once the stream or the channel is over.  A mutex that
\* others keep taking is granted in turn (Go's starvation mode).
SSHFairness ==
    /\ WF_sshVars(CloseConn) /\ WF_sshVars(Gone /\ UpRead)
    /\ WF_sshVars(Gone /\ AskRead)
    /\ SF_sshVars(UpLock) /\ WF_sshVars(FeedLock) /\ WF_sshVars(AskLock)
    /\ WF_sshVars(stream = "over" /\ Sending)
    /\ WF_sshVars(UpPipe) /\ WF_sshVars(FeedRead) /\ WF_sshVars(Receive)
    /\ WF_sshVars(RecvPipe) /\ WF_sshVars(DownEnds)
    /\ WF_sshVars((Serve \/ Half \/ ExitStatus \/ ExitLate \/ Close \/ Return))
    /\ SF_sshVars(CloseSend)

SSHSpec == SSHInit /\ [][SSHNext]_sshVars /\ SSHFairness

-----------------------------------------------------------------------------
\* serveWorkspaceSession, proxyWorkspaceStream: when the connection is over or
\* the program has ended, the handler returns and frees its slot, whether or not
\* the client still reads or the Agent still takes input; and
\* agentCommandSession.Close, agentConn.Close: once the connection is closed no
\* goroutine is left behind and the Agent stream is over.
ChannelEnds ==
    /\ ctx \/ (kind = "command" /\ recv = "done") ~> handler \in {"new", "done"}
    /\ ~conn ~> /\ \A g \in {up, feed, recv, down, asks} : g = "done"
                /\ handler \in {"new", "done"} /\ stream = "over"

\* serveWorkspaceSession: an exit status in time comes after all of the output.
ExitAfterOutput == exit = "sent" /\ stream = "open" => got = Chunks /\ left = 0
=============================================================================
