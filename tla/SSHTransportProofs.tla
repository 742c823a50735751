------------------------- MODULE SSHTransportProofs -------------------------
(***************************************************************************)
(* Proofs about SSHTransport, for any number of calls and connections: a    *)
(* connection is never reused after its close nor doubled, no step of a     *)
(* call outlives it, and a cancelled call starts nothing.                   *)
(***************************************************************************)
EXTENDS SSHTransport, TLAPS

Closing == {"closeSftp", "sftpEnds", "closeClient"}

\* A dial whose handshake has been started, and whose result is not yet taken.
Handshaking == awaited = "handshake" /\ pc \in {"select", "drain"}

\* Where the caller is in a call decides whose connection it has in hand, and
\* whether await's goroutine is there.
PlaceInv ==
    /\ pc \in Awaits \union {"connect", "select", "drain"} => call # "Close"
    /\ op # "none" => call # "Close" /\ pc \in Closing \union {"select", "drain"}
    /\ pc \in {"select", "drain"} => op # "none"
    /\ pc \in Closing /\ call # "Close" => op # "none" /\ awaited # "handshake" /\ cur # 0
    /\ pc \in {"sftpEnds", "closeClient"} => sftpClient = 0
    /\ pc = "drain" => client = 0
    /\ pc = "handshake" \/ Handshaking => client = 0 /\ cur \in Conn
    /\ pc \in {"opensftp", "operate"} => cur = client /\ cur \in Conn
    /\ pc = "select" /\ awaited # "handshake" => cur = client /\ cur \in Conn

\* What a dial's connection has come to: it is in nobody's way when the dial ends
\* without handing it over.
DialInv ==
    /\ pc = "handshake" => conn[cur] \in {"tcp", "dead"}
    /\ Handshaking /\ pc = "select" =>
          /\ op = "running" => conn[cur] \in {"tcp", "dead"}
          /\ op = "ok"      => conn[cur] \in {"open", "dead"}
          /\ op = "failed"  => conn[cur] = "closed"
    /\ Handshaking /\ pc = "drain" => conn[cur] = "closed"

TransportInv ==
    /\ TypeOK /\ PlaceInv /\ DialInv
    /\ HeldIsNotClosed /\ OneConnection

-----------------------------------------------------------------------------
\* A transport that was just created holds nothing.
LEMMA InitInv == Init => TransportInv
<1> SUFFICES ASSUME Init PROVE TransportInv
  OBVIOUS
<1>1. TypeOK
  <2>1. conn \in [Conn -> {"unused", "tcp", "open", "dead", "closed"}]
    BY DEF Init
  <2>2. cancelled \in BOOLEAN /\ silent \in BOOLEAN
    BY DEF Init
  <2>3. calls \in 0..MaxCalls
    BY BoundsAssumption DEF Init
  <2>4. QED
    BY <2>1, <2>2, <2>3 DEF Init, TypeOK, Awaits, Method
<1>2. PlaceInv /\ DialInv
  BY DEF Init, PlaceInv, DialInv, Handshaking, Closing, Awaits
<1>3. HeldIsNotClosed /\ OneConnection
  BY DEF Init, HeldIsNotClosed, OneConnection
<1>4. QED
  BY <1>1, <1>2, <1>3 DEF TransportInv

\* A call begins with nothing of an earlier one going on.
LEMMA CallInv ==
  ASSUME TransportInv, NEW m \in Method, NEW done \in BOOLEAN, Call(m, done)
  PROVE  TransportInv'
BY BoundsAssumption
   DEF Call,
      TransportInv, TypeOK, PlaceInv, DialInv, HeldIsNotClosed, OneConnection,
      Handshaking, Closing, Awaits, Method, Conn

\* Nothing was dialled yet.
LEMMA LocalErrorInv ==
  ASSUME TransportInv, LocalError
  PROVE  TransportInv'
BY BoundsAssumption
   DEF LocalError, Return,
      TransportInv, TypeOK, PlaceInv, DialInv, HeldIsNotClosed, OneConnection,
      Handshaking, Closing, Awaits, Method, Conn

\* What is held is one connection, for both clients.
LEMMA UseHeldInv ==
  ASSUME TransportInv, UseHeld
  PROVE  TransportInv'
BY BoundsAssumption
   DEF UseHeld, UsesSftp, Goto,
      TransportInv, TypeOK, PlaceInv, DialInv, HeldIsNotClosed, OneConnection,
      Handshaking, Closing, Awaits, Method, Conn

\* A new connection is in hand and in nobody's field.
LEMMA DialsInv ==
  ASSUME TransportInv, Dial
  PROVE  TransportInv'
BY BoundsAssumption
   DEF Dial, Goto, Return,
      TransportInv, TypeOK, PlaceInv, DialInv, HeldIsNotClosed, OneConnection,
      Handshaking, Closing, Awaits, Method, Conn

\* A dial given up here leaves a connection that never opened.
LEMMA AwaitRefusesInv ==
  ASSUME TransportInv, AwaitRefuses
  PROVE  TransportInv'
BY BoundsAssumption
   DEF AwaitRefuses, Return,
      TransportInv, TypeOK, PlaceInv, DialInv, HeldIsNotClosed, OneConnection,
      Handshaking, Closing, Awaits, Method, Conn

\* The goroutine starts on the connection in hand.
LEMMA AwaitStartsInv ==
  ASSUME TransportInv, AwaitStarts
  PROVE  TransportInv'
BY BoundsAssumption
   DEF AwaitStarts, Goto,
      TransportInv, TypeOK, PlaceInv, DialInv, HeldIsNotClosed, OneConnection,
      Handshaking, Closing, Awaits, Method, Conn

\* A handshake opens its connection only if nobody closed it before.
LEMMA OpEndsInv ==
  ASSUME TransportInv, NEW ok \in BOOLEAN, OpEnds(ok)
  PROVE  TransportInv'
BY BoundsAssumption
   DEF OpEnds, Gone,
      TransportInv, TypeOK, PlaceInv, DialInv, HeldIsNotClosed, OneConnection,
      Handshaking, Closing, Awaits, Method, Conn

\* A handshake's connection passes from the dial to the transport.
LEMMA SelectDoneInv ==
  ASSUME TransportInv, SelectDone
  PROVE  TransportInv'
BY BoundsAssumption
   DEF SelectDone, UsesSftp, Goto, Return,
      TransportInv, TypeOK, PlaceInv, DialInv, HeldIsNotClosed, OneConnection,
      Handshaking, Closing, Awaits, Method, Conn

\* A dial's connection is closed by the dial, any other by Close.
LEMMA SelectCancelledInv ==
  ASSUME TransportInv, SelectCancelled
  PROVE  TransportInv'
<1> USE BoundsAssumption
<1>1. TypeOK'
  <2>1. cancelled' \in BOOLEAN /\ silent' \in BOOLEAN
    BY DEF SelectCancelled, Goto, TransportInv, TypeOK
  <2>2. conn' \in [Conn -> {"unused", "tcp", "open", "dead", "closed"}]
    BY DEF SelectCancelled, Goto, TransportInv, TypeOK
  <2>3. QED
    BY <2>1, <2>2 DEF SelectCancelled, Goto, TransportInv, TypeOK, Awaits
<1>2. PlaceInv'
  BY DEF SelectCancelled, Goto, TransportInv, TypeOK, PlaceInv, Handshaking, Closing, Awaits,
         Method, Conn
<1>3. DialInv'
  BY DEF SelectCancelled, Goto, TransportInv, TypeOK, PlaceInv, DialInv, Handshaking, Closing,
         Awaits, Conn
<1>4. HeldIsNotClosed'
  BY DEF SelectCancelled, Goto, TransportInv, TypeOK, PlaceInv, HeldIsNotClosed, Handshaking,
         Closing, Awaits, Conn
<1>5. OneConnection'
  BY DEF SelectCancelled, Goto, TransportInv, TypeOK, PlaceInv, OneConnection, Handshaking,
         Closing, Awaits, Conn
<1>6. QED
  BY <1>1, <1>2, <1>3, <1>4, <1>5 DEF TransportInv

\* The session is forgotten before the connection under it.
LEMMA CloseSftpInv ==
  ASSUME TransportInv, CloseSftp
  PROVE  TransportInv'
BY BoundsAssumption
   DEF CloseSftp, Goto,
      TransportInv, TypeOK, PlaceInv, DialInv, HeldIsNotClosed, OneConnection,
      Handshaking, Closing, Awaits, Method, Conn

\* The session's end changes no connection.
LEMMA SftpEndsInv ==
  ASSUME TransportInv, SftpEnds
  PROVE  TransportInv'
BY BoundsAssumption
   DEF SftpEnds, Goto,
      TransportInv, TypeOK, PlaceInv, DialInv, HeldIsNotClosed, OneConnection,
      Handshaking, Closing, Awaits, Method, Conn

\* The transport's connection is closed and forgotten in one step.
LEMMA CloseClientInv ==
  ASSUME TransportInv, CloseClient
  PROVE  TransportInv'
<1> USE BoundsAssumption
<1>1. TypeOK'
  <2>1. cancelled' \in BOOLEAN /\ silent' \in BOOLEAN
    BY DEF CloseClient, Goto, Return, TransportInv, TypeOK
  <2>2. conn' \in [Conn -> {"unused", "tcp", "open", "dead", "closed"}]
    BY DEF CloseClient, Goto, Return, TransportInv, TypeOK
  <2>3. pc' = "drain" => cur' # 0
    BY DEF CloseClient, Goto, Return, TransportInv, PlaceInv, Closing
  <2>4. QED
    BY <2>1, <2>2, <2>3 DEF CloseClient, Goto, Return, TransportInv, TypeOK, Awaits
<1>2. PlaceInv'
  <2> USE DEF CloseClient, TransportInv, PlaceInv, Handshaking, Closing, Awaits
  <2>1. CASE call = "Close"
    BY <2>1 DEF Return
  <2>2. CASE call # "Close"
    <3>1. op # "none" /\ awaited # "handshake" /\ sftpClient = 0
      BY <2>2
    <3>2. QED
      BY <2>2, <3>1 DEF Goto
  <2>3. QED
    BY <2>1, <2>2
<1>3. DialInv'
  BY DEF CloseClient, Goto, Return, TransportInv, TypeOK, PlaceInv, DialInv, Handshaking,
         Closing, Awaits, Conn
<1>4. HeldIsNotClosed'
  BY DEF CloseClient, Goto, Return, TransportInv, TypeOK, PlaceInv, HeldIsNotClosed,
         Handshaking, Closing, Awaits, Conn
<1>5. OneConnection'
  BY DEF CloseClient, Goto, Return, TransportInv, TypeOK, PlaceInv, OneConnection, Handshaking,
         Closing, Awaits, Conn
<1>6. QED
  BY <1>1, <1>2, <1>3, <1>4, <1>5 DEF TransportInv

\* A cancelled call returns with nothing open in its hand.
LEMMA DrainInv ==
  ASSUME TransportInv, Drain
  PROVE  TransportInv'
BY BoundsAssumption
   DEF Drain, Return,
      TransportInv, TypeOK, PlaceInv, DialInv, HeldIsNotClosed, OneConnection,
      Handshaking, Closing, Awaits, Method, Conn

\* Cancels, dropped connections and a silent server disturb nothing.
LEMMA WorldInv ==
  ASSUME TransportInv,
         Cancel \/ (\E c \in Conn : Drop(c)) \/ FallSilent \/ UNCHANGED vars
  PROVE  TransportInv'
<1>1. CASE Cancel
  BY <1>1 DEF Cancel, TransportInv, TypeOK, PlaceInv, DialInv, HeldIsNotClosed, OneConnection,
      Handshaking, Closing, Awaits, Method, Conn
<1>2. CASE \E c \in Conn : Drop(c)
  <2>1. PICK c \in Conn : Drop(c)
    BY <1>2
  <2>2. QED
    BY <2>1, BoundsAssumption
       DEF Drop, TransportInv, TypeOK, PlaceInv, DialInv, HeldIsNotClosed, OneConnection,
      Handshaking, Closing, Awaits, Method, Conn
<1>3. CASE FallSilent
  BY <1>3 DEF FallSilent, TransportInv, TypeOK, PlaceInv, DialInv, HeldIsNotClosed, OneConnection,
      Handshaking, Closing, Awaits, Method, Conn
<1>4. CASE UNCHANGED vars
  BY <1>4 DEF vars, TransportInv, TypeOK, PlaceInv, DialInv, HeldIsNotClosed, OneConnection,
      Handshaking, Closing, Awaits, Method, Conn
<1>5. QED
  BY <1>1, <1>2, <1>3, <1>4

\* Every step keeps the invariant.
LEMMA NextInv == TransportInv /\ [Next]_vars => TransportInv'
<1> SUFFICES ASSUME TransportInv, [Next]_vars PROVE TransportInv'
  OBVIOUS
<1>1. CASE ClientStep
  BY <1>1, LocalErrorInv, UseHeldInv, DialsInv, AwaitRefusesInv, AwaitStartsInv,
     SelectDoneInv, SelectCancelledInv, CloseSftpInv, SftpEndsInv, CloseClientInv, DrainInv
     DEF ClientStep
<1>2. CASE \E ok \in BOOLEAN : OpEnds(ok)
  BY <1>2, OpEndsInv
<1>3. CASE \E m \in Method, done \in BOOLEAN : Call(m, done)
  BY <1>3, CallInv
<1>4. CASE Cancel \/ (\E c \in Conn : Drop(c)) \/ FallSilent \/ UNCHANGED vars
  BY <1>4, WorldInv
<1>5. QED
  BY <1>1, <1>2, <1>3, <1>4 DEF Next, Step, Finished

\* The invariant holds in every behaviour.
LEMMA Invariance == Spec => []TransportInv
BY InitInv, NextInv, PTL DEF Spec

-----------------------------------------------------------------------------
\* The transport's fields always name connections it may know.
THEOREM TypeCorrect == Spec => []TypeOK
<1>1. TransportInv => TypeOK
  BY DEF TransportInv
<1>2. QED
  BY <1>1, Invariance, PTL

\* connect and sftp (ssh.go:246-311) never hand out a connection that Close or a
\* cancelled call has closed, and the sftp session rides on the connection held.
THEOREM NoReuseAfterClose == Spec => []HeldIsNotClosed
<1>1. TransportInv => HeldIsNotClosed
  BY DEF TransportInv
<1>2. QED
  BY <1>1, Invariance, PTL

\* Whatever is cancelled while dialling (ssh.go:389-431), an authenticated connection
\* has exactly one owner.
THEOREM SingleConnection == Spec => []OneConnection
<1>1. TransportInv => OneConnection
  BY DEF TransportInv
<1>2. QED
  BY <1>1, Invariance, PTL

\* await (ssh.go:34-52) returns only after its goroutine has.
THEOREM CallsEnd == Spec => []NothingOutlivesCall
<1>1. TransportInv => NothingOutlivesCall
  BY DEF TransportInv, PlaceInv, NothingOutlivesCall, Closing
<1>2. QED
  BY <1>1, Invariance, PTL

\* A call whose context is done dials nothing and starts nothing, and one cancelled
\* while it was blocked leaves the transport without a connection.
THEOREM CancelledInert == Spec => CancelledCallIsInert
<1> DEFINE A == pc' # pc => /\ (cancelled /\ pc \in Awaits \union {"connect"})
                                => op' # "running" /\ conn' = conn
                            /\ pc = "drain" => client' = 0
<1>1. TransportInv /\ [Next]_vars => [A]_vars
  <2> SUFFICES ASSUME TransportInv, Next, pc' # pc PROVE A
    BY DEF vars
  <2>1. CASE cancelled /\ pc \in Awaits \union {"connect"}
    <3>1. op = "none"
      BY <2>1 DEF TransportInv, PlaceInv, Closing, Awaits
    <3>2. LocalError \/ UseHeld \/ Dial \/ AwaitRefuses
      BY <2>1 DEF Next, Step, ClientStep, Awaits, AwaitStarts, SelectDone, SelectCancelled,
         CloseSftp, SftpEnds, CloseClient, Drain, OpEnds, Call, Cancel, Drop, FallSilent,
         Finished, vars
    <3>3. QED
      BY <2>1, <3>1, <3>2 DEF LocalError, UseHeld, Dial, AwaitRefuses, Return, Goto, Awaits
  <2>2. CASE pc = "drain"
    <3>1. client = 0
      BY <2>2 DEF TransportInv, PlaceInv
    <3>2. Drain
      BY <2>2 DEF Next, Step, ClientStep, LocalError, UseHeld, Dial, AwaitRefuses, AwaitStarts,
         SelectDone, SelectCancelled, CloseSftp, SftpEnds, CloseClient, OpEnds, Call, Cancel,
         Drop, FallSilent, Finished, Awaits, vars
    <3>3. QED
      BY <2>2, <3>1, <3>2 DEF Drain, Awaits
  <2>3. QED
    BY <2>1, <2>2
<1>2. QED
  BY <1>1, Invariance, PTL DEF Spec, CancelledCallIsInert
=============================================================================
