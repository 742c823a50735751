---------------------------- MODULE SSHTransport ----------------------------
(***************************************************************************)
(* The SSH transport: one caller making CreateFile, CopyPath, RunCommand    *)
(* and Close calls on a client that dials when it first has to and keeps    *)
(* its connection. Neither the ssh nor the sftp library takes a context, so *)
(* every blocking step goes through await: a goroutine runs the step while  *)
(* the caller selects between its end and the context's. The caller, that   *)
(* goroutine, the context and the server interleave freely here.            *)
(*                                                                          *)
(* The server and the two libraries are external. A server may drop a       *)
(* connection or fall silent: it then answers nothing, and the close of an  *)
(* sftp session, which waits for the session's end, waits for its answer.   *)
(***************************************************************************)
EXTENDS Integers

CONSTANTS
    MaxCalls,   \* bound: calls the caller makes
    MaxConns    \* bound: connections dialled

ASSUME BoundsAssumption == MaxCalls \in Nat /\ MaxConns \in Nat

VARIABLES
    pc,          \* where the caller is in the call
    call,        \* the method called
    calls,       \* number of calls made
    cancelled,   \* the call's context is done
    result,      \* what the last call returned
    client,      \* s.client: a connection, 0 for nil
    sftpClient,  \* s.sftpClient: the connection its session rides on, 0 for nil
    cur,         \* the connection the call has in hand
    awaited,     \* the step await runs: "handshake", "opensftp" or "operate"
    op,          \* await's goroutine: "none", "running", or its result on the channel
    conn,        \* conn[c]: "unused", "tcp", "open", "dead" or "closed"
    silent       \* the server no longer answers

vars == <<pc, call, calls, cancelled, result, client, sftpClient, cur, awaited, op, conn, silent>>

Conn == 1..MaxConns
Method == {"CreateFile", "CopyPath", "RunCommand", "Close"}
Awaits == {"handshake", "opensftp", "operate"}
UsesSftp == call \in {"CreateFile", "CopyPath"}
Gone(c) == conn[c] \in {"dead", "closed"}

Init ==
    /\ pc = "idle" /\ call = "Close" /\ calls = 0 /\ cancelled = FALSE /\ result = "none"
    /\ client = 0 /\ sftpClient = 0 /\ cur = 0
    /\ awaited = "operate" /\ op = "none"
    /\ conn = [c \in Conn |-> "unused"] /\ silent = FALSE

Return(r) ==
    /\ pc' = "idle" /\ result' = r
    /\ UNCHANGED <<call, calls, cancelled, cur, awaited, silent>>

Goto(next) == pc' = next /\ UNCHANGED <<call, calls, cancelled, result, silent>>

\* A call, whose context may already be done.
Call(m, done) ==
    /\ pc = "idle" /\ calls < MaxCalls
    /\ pc' = IF m = "Close" THEN "closeSftp" ELSE "connect"
    /\ call' = m /\ calls' = calls + 1 /\ cancelled' = done
    /\ UNCHANGED <<result, client, sftpClient, cur, awaited, op, conn, silent>>

\* CopyPath cannot stat its local path; or, before a dial, the user, the identity
\* or known_hosts cannot be read.
LocalError ==
    /\ pc = "connect"
    /\ call = "CopyPath" \/ client = 0
    /\ Return("error")
    /\ UNCHANGED <<client, sftpClient, op, conn>>

\* sftp() and connect() return what they hold, without asking whether it still lives.
UseHeld ==
    /\ pc = "connect"
    /\ \/ UsesSftp /\ sftpClient # 0 /\ cur' = sftpClient /\ Goto("operate")
       \/ UsesSftp /\ sftpClient = 0 /\ client # 0 /\ cur' = client /\ Goto("opensftp")
       \/ ~UsesSftp /\ client # 0 /\ cur' = client /\ Goto("operate")
    /\ UNCHANGED <<client, sftpClient, awaited, op, conn>>

\* DialContext looks at the context; its timeout and refusals are errors.
Dial ==
    /\ pc = "connect" /\ client = 0
    /\ UNCHANGED <<client, sftpClient>>
    /\ \/ /\ ~cancelled
          /\ \E c \in Conn :
                /\ conn[c] = "unused"
                /\ conn' = [conn EXCEPT ![c] = "tcp"] /\ cur' = c
          /\ Goto("handshake") /\ UNCHANGED <<awaited, op>>
       \/ /\ Return(IF cancelled THEN "cancelled" ELSE "error")
          /\ UNCHANGED <<op, conn>>

\* await returns at once under a context that is done, and starts nothing.
AwaitRefuses ==
    /\ pc \in Awaits /\ cancelled
    /\ Return("cancelled")
    /\ UNCHANGED <<client, sftpClient, op, conn>>

\* Mutant of AwaitStarts: the context is not looked at first.
AwaitStartsAnyway ==
    /\ pc \in Awaits
    /\ awaited' = pc /\ op' = "running"
    /\ Goto("select") /\ UNCHANGED <<client, sftpClient, cur, conn>>

AwaitStarts ==
    /\ pc \in Awaits /\ ~cancelled
    /\ awaited' = pc /\ op' = "running"
    /\ Goto("select") /\ UNCHANGED <<client, sftpClient, cur, conn>>

\* The goroutine's step ends. A failed handshake closes its connection itself.
OpEnds(ok) ==
    /\ op = "running"
    /\ IF ok THEN ~silent /\ ~Gone(cur) ELSE ~silent \/ Gone(cur)
    /\ op' = IF ok THEN "ok" ELSE "failed"
    /\ conn' = IF awaited = "handshake"
               THEN [conn EXCEPT ![cur] = IF ok THEN "open" ELSE "closed"] ELSE conn
    /\ UNCHANGED <<pc, call, calls, cancelled, result, client, sftpClient, cur, awaited, silent>>

\* The select takes the step's result; both may be ready, and either is taken.
SelectDone ==
    /\ pc = "select" /\ op \in {"ok", "failed"}
    /\ UNCHANGED conn /\ op' = "none"
    /\ IF op = "failed" THEN Return("error") /\ UNCHANGED <<client, sftpClient>>
       ELSE /\ client' = IF awaited = "handshake" THEN cur ELSE client
            /\ sftpClient' = IF awaited = "opensftp" THEN cur ELSE sftpClient
            /\ IF awaited = "operate" THEN Return("ok")
               ELSE /\ Goto(IF awaited = "handshake" /\ UsesSftp THEN "opensftp" ELSE "operate")
                    /\ UNCHANGED <<cur, awaited>>

\* Mutant of SelectCancelled: an unblock that leaves a dial's connection alone.
SelectCancelledKeepsDial ==
    /\ pc = "select" /\ cancelled
    /\ Goto(IF awaited = "handshake" THEN "drain" ELSE "closeSftp")
    /\ UNCHANGED <<client, sftpClient, cur, awaited, op, conn>>

\* The select sees the context done, and unblocks the step: a dial closes its
\* connection, everything else the whole transport.
SelectCancelled ==
    /\ pc = "select" /\ cancelled
    /\ IF awaited = "handshake"
       THEN conn' = [conn EXCEPT ![cur] = "closed"] /\ Goto("drain")
       ELSE UNCHANGED conn /\ Goto("closeSftp")
    /\ UNCHANGED <<client, sftpClient, cur, awaited, op>>

\* Mutant of CloseSftp: the ssh client goes first, and the session it carried after it.
CloseSftpLast ==
    /\ pc = "closeSftp"
    /\ client' = 0 /\ sftpClient' = 0
    /\ conn' = IF client = 0 THEN conn ELSE [conn EXCEPT ![client] = "closed"]
    /\ Goto(IF sftpClient = 0 THEN "closeClient" ELSE "sftpEnds")
    /\ UNCHANGED <<cur, awaited, op>>

\* Close forgets and closes the sftp client first, and waits for its session to end.
CloseSftp ==
    /\ pc = "closeSftp"
    /\ sftpClient' = 0
    /\ Goto(IF sftpClient = 0 THEN "closeClient" ELSE "sftpEnds")
    /\ UNCHANGED <<client, cur, awaited, op, conn>>

SftpEnds ==
    /\ pc = "sftpEnds"
    /\ ~silent \/ Gone(client)
    /\ Goto("closeClient")
    /\ UNCHANGED <<client, sftpClient, cur, awaited, op, conn>>

\* Mutants of CloseClient: the field is not cleared; the client is not closed.
CloseClientKeepsField ==
    /\ pc = "closeClient"
    /\ conn' = IF client = 0 THEN conn ELSE [conn EXCEPT ![client] = "closed"]
    /\ IF call = "Close" THEN Return("closed") ELSE Goto("drain") /\ UNCHANGED <<cur, awaited>>
    /\ UNCHANGED <<client, sftpClient, op>>

CloseClientForgetsOnly ==
    /\ pc = "closeClient"
    /\ client' = 0
    /\ IF call = "Close" THEN Return("closed") ELSE Goto("drain") /\ UNCHANGED <<cur, awaited>>
    /\ UNCHANGED <<sftpClient, op, conn>>

\* Then the ssh client, and with it the connection.
CloseClient ==
    /\ pc = "closeClient"
    /\ client' = 0
    /\ conn' = IF client = 0 THEN conn ELSE [conn EXCEPT ![client] = "closed"]
    /\ IF call = "Close" THEN Return("closed") ELSE Goto("drain") /\ UNCHANGED <<cur, awaited>>
    /\ UNCHANGED <<sftpClient, op>>

\* Mutant of Drain: await returns without its goroutine.
DrainNothing ==
    /\ pc = "drain"
    /\ Return("cancelled")
    /\ UNCHANGED <<client, sftpClient, op, conn>>

\* await takes the step's result before it returns.
Drain ==
    /\ pc = "drain" /\ op \in {"ok", "failed"} /\ op' = "none"
    /\ Return("cancelled")
    /\ UNCHANGED <<client, sftpClient, conn>>

-----------------------------------------------------------------------------
Cancel ==
    /\ pc # "idle" /\ call # "Close" /\ ~cancelled
    /\ cancelled' = TRUE
    /\ UNCHANGED <<pc, call, calls, result, client, sftpClient, cur, awaited, op, conn, silent>>

Drop(c) ==
    /\ conn[c] \in {"tcp", "open"}
    /\ conn' = [conn EXCEPT ![c] = "dead"]
    /\ UNCHANGED <<pc, call, calls, cancelled, result, client, sftpClient, cur, awaited, op,
                   silent>>

FallSilent ==
    /\ ~silent /\ silent' = TRUE
    /\ UNCHANGED <<pc, call, calls, cancelled, result, client, sftpClient, cur, awaited, op, conn>>

ClientStep ==
    \/ LocalError \/ UseHeld \/ Dial \/ AwaitRefuses \/ AwaitStarts
    \/ SelectDone \/ SelectCancelled \/ CloseSftp \/ SftpEnds \/ CloseClient \/ Drain

Step == ClientStep \/ \E ok \in BOOLEAN : OpEnds(ok)

Finished == pc = "idle" /\ calls = MaxCalls /\ UNCHANGED vars

Next ==
    \/ Step
    \/ \E m \in Method, done \in BOOLEAN : Call(m, done)
    \/ Cancel \/ (\E c \in Conn : Drop(c)) \/ FallSilent
    \/ Finished

\* The caller and await's goroutine are scheduled fairly. A server that is not
\* silent answers: its answers are steps of the goroutine.
Spec == Init /\ [][Next]_vars /\ WF_vars(Step)

-----------------------------------------------------------------------------
\* The variables' values; and what the libraries may be asked for: no step is awaited
\* without a connection in hand, and no session's end without the ssh client it rides on.
TypeOK ==
    /\ pc \in {"idle", "connect", "select", "closeSftp", "sftpEnds", "closeClient", "drain"}
                \union Awaits
    /\ call \in Method /\ calls \in 0..MaxCalls
    /\ cancelled \in BOOLEAN /\ silent \in BOOLEAN
    /\ result \in {"none", "ok", "error", "cancelled", "closed"}
    /\ client \in Conn \union {0} /\ sftpClient \in Conn \union {0} /\ cur \in Conn \union {0}
    /\ awaited \in Awaits /\ op \in {"none", "running", "ok", "failed"}
    /\ conn \in [Conn -> {"unused", "tcp", "open", "dead", "closed"}]
    /\ pc = "sftpEnds" => client # 0
    /\ pc \in Awaits \union {"select", "drain"} => cur # 0

\* The transport never hands out a connection it has closed itself, and an sftp
\* session always rides on the connection it holds: however a cancel fell, the next
\* call dials or finds both usable as far as the transport can know.
HeldIsNotClosed ==
    /\ client # 0 => conn[client] \in {"open", "dead"}
    /\ sftpClient # 0 => sftpClient = client

\* There is at most one authenticated connection, whose owner still knows it: the
\* transport, or the dial in progress that has yet to report it.
OneConnection ==
    \A c \in Conn : conn[c] = "open" =>
        c = client \/ (c = cur /\ awaited = "handshake" /\ pc \in {"select", "drain"})

\* No goroutine of a call outlives it, so no late write lands beside the next call.
NothingOutlivesCall == pc = "idle" => op = "none"

\* ssh_test.go: a call under a context that is already done dials nothing and starts
\* nothing; and one cancelled while it was blocked leaves no connection behind to reuse.
CancelledCallIsInert ==
    [][pc' # pc => /\ (cancelled /\ pc \in Awaits \union {"connect"})
                         => op' # "running" /\ conn' = conn
                   /\ pc = "drain" => client' = 0]_vars

\* A cancelled call returns, but for one place: the close of an sftp session whose
\* server is silent.
CancelReturnsUnlessSftp ==
    (cancelled /\ pc # "idle") ~> (pc = "idle" \/ (silent /\ pc = "sftpEnds"))

\* ssh.go:34: "a cancel closes the connection under the blocked call".
CancelReturns == (cancelled /\ pc # "idle") ~> (pc = "idle")

\* interface.go:5: "callers must Close it": once Close has returned nothing is open.
CloseLeavesNothingOpen ==
    (pc = "idle" /\ result = "closed") => \A c \in Conn : conn[c] \notin {"tcp", "open"}
=============================================================================
