--------------------------- MODULE TcpServe_proofs ---------------------------
(***************************************************************************)
(* For any number of connections, and however a shutdown falls between the *)
(* steps of the accept loop and of the handlers, one goroutine at a time   *)
(* uses the probe.                                                         *)
(***************************************************************************)
EXTENDS TcpServe, Integers, TLAPS

USE ServeAssumption

\* The part of the invariant the argument needs.
Typed ==
  /\ handler \in [Conns -> Live \cup {"none"}] /\ clientConn \in Conns \cup {NoConn}
  /\ peer \in [Conns -> {"new", "connected", "gone"}] /\ backlog \in Seq(Conns)

\* A connection the server has not decided on yet has no handler and is open, and each
\* is one connection: a name is used again only when both ends are done with it.
Undecided(c) == acceptor = c \/ \E i \in DOMAIN backlog : backlog[i] = c
Queued ==
  /\ main # "exited" => \A c \in Conns : Undecided(c) => handler[c] = "none" /\ c \in open
  /\ main # "exited" => \A i \in DOMAIN backlog :
       backlog[i] # acceptor /\ \A j \in DOMAIN backlog : backlog[i] = backlog[j] => i = j
  /\ \A c \in Conns : peer[c] = "new" => handler[c] = "none" /\ c \notin open
Safe == Typed /\ Queued /\ SlotHeld /\ OneBusy

LEMMA Initially == Init => Safe
BY DEF Init, Safe, Typed, Queued, Undecided, SlotHeld, OneBusy, Live, Busy

\* A step of one handler that keeps its slot: it becomes busy only at its check.
LEMMA HandlerKeeps ==
  ASSUME Safe, UNCHANGED <<server, clientConn, peer, open>>,
         NEW c \in Conns, NEW from \in Live, NEW to \in Live, Moves(c, from, to),
         to \in Busy => from \in Busy \/ ~cancelled
  PROVE  Safe'
<1> USE DEF Safe, Moves, server
<1>1. Typed'
  BY DEF Typed
<1>2. \A d \in Conns : handler'[d] = IF d = c THEN to ELSE handler[d]
  BY DEF Typed
<1>3. SlotHeld'
  BY <1>2 DEF SlotHeld
<1>4. OneBusy'
  <2>1. ASSUME from \notin Busy, to \in Busy
        PROVE  \A d \in Conns : handler[d] \in Busy => d = c
    <3>1. stopper # "done"
      BY <2>1 DEF OneBusy
    <3>2. clientConn = c
      BY <3>1 DEF SlotHeld
    <3> QED BY <3>1, <3>2 DEF SlotHeld, Live
  <2> QED BY <1>2, <2>1 DEF OneBusy
<1>5. Queued'
  <2>1. from # "none"
    BY DEF Live, Busy
  <2>2. ~ Undecided(c) \/ main = "exited"
    BY <2>1 DEF Queued
  <2>3. \A d \in Conns : Undecided(d)' <=> Undecided(d)
    BY DEF Undecided
  <2> QED BY <1>2, <2>1, <2>2, <2>3 DEF Queued
<1> QED BY <1>1, <1>3, <1>4, <1>5

LEMMA HandleKeeps ==
  ASSUME Safe, NEW c \in Conns, Handle(c)
  PROVE  Safe'
<1>1. CASE Leave(c)
  <2>1. /\ handler[c] \in Live /\ UNCHANGED <<server, peer>>
        /\ clientConn' = IF clientConn = c THEN NoConn ELSE clientConn
        /\ open' = IF clientConn = c THEN open \ {c} ELSE open
    BY <1>1 DEF Leave, Live, Busy
  <2>2. Typed' /\ \A d \in Conns : handler'[d] = IF d = c THEN "none" ELSE handler[d]
    BY <1>1 DEF Leave, Safe, Typed, server
  <2>3. SlotHeld'
    BY <2>1, <2>2 DEF server, SlotHeld, Safe, Live, Busy
  <2>4. OneBusy'
    BY <2>1, <2>2 DEF server, OneBusy, Safe, Busy
  <2>5. Queued'
    <3>1. handler[c] # "none"
      BY <2>1 DEF Live, Busy
    <3>2. \A d \in Conns : Undecided(d)' <=> Undecided(d)
      BY <2>1 DEF Undecided, server
    <3> QED BY <2>1, <2>2, <3>1, <3>2 DEF Queued, Safe, server
  <2> QED BY <2>2, <2>3, <2>4, <2>5 DEF Safe
<1>2. ASSUME Check(c) \/ Read(c) \/ ReadNothing(c) \/ Parse(c) \/ Process(c) \/ Reply(c)
      PROVE  Safe'
  <2>1. UNCHANGED <<server, clientConn, peer, open>>
    BY <1>2 DEF Check, Read, ReadNothing, Parse, Process, Reply
  <2>2. PICK from \in Live, to \in Live :
          Moves(c, from, to) /\ (to \in Busy => from \in Busy \/ ~cancelled)
    <3>1. CASE Check(c)
      BY <3>1 DEF Check, Live, Busy
    <3>2. CASE Read(c)
      BY <3>2 DEF Read, Live, Busy
    <3>3. CASE ReadNothing(c)
      BY <3>3 DEF ReadNothing, Live, Busy
    <3>4. CASE Parse(c)
      BY <3>4 DEF Parse, Live, Busy
    <3>5. CASE Process(c) \/ Reply(c)
      BY <3>5 DEF Process, Reply, Live, Busy
    <3> QED BY <1>2, <3>1, <3>2, <3>3, <3>4, <3>5
  <2> QED BY <2>1, <2>2, HandlerKeeps
<1> QED BY <1>1, <1>2 DEF Handle

\* The far end of one connection.
LEMMA ClientKeeps ==
  ASSUME Safe, NEW c \in Conns, Client(c)
  PROVE  Safe'
<1> USE DEF Safe
<1>1. CASE Dial(c)
  <2>1. /\ peer[c] = "new" /\ main # "exited" /\ backlog' = Append(backlog, c)
        /\ peer' = [peer EXCEPT ![c] = "connected"] /\ open' = open \cup {c}
        /\ UNCHANGED <<cancelled, acceptor, stopper, main, clientConn, handler>>
    BY <1>1 DEF Dial
  <2>2. handler[c] = "none" /\ c \notin open /\ ~ Undecided(c)
    BY <2>1 DEF Queued
  <2>3. Typed' /\ \A d \in Conns : peer'[d] = IF d = c THEN "connected" ELSE peer[d]
    BY <2>1 DEF Typed
  <2>4. SlotHeld' /\ OneBusy'
    BY <2>1, <2>2 DEF SlotHeld, OneBusy, Live, Busy
  <2>5. /\ DOMAIN backlog' = 1..(Len(backlog) + 1) /\ DOMAIN backlog = 1..Len(backlog)
        /\ Len(backlog) \in Nat /\ backlog'[Len(backlog) + 1] = c
        /\ \A i \in DOMAIN backlog : backlog'[i] = backlog[i]
    BY <2>1 DEF Typed
  <2>6. \A i \in DOMAIN backlog' : i \in DOMAIN backlog \/ i = Len(backlog) + 1
    BY <2>5
  <2>7. \A i \in DOMAIN backlog : backlog[i] # c
    BY <2>2 DEF Undecided
  <2>8. \A d \in Conns : Undecided(d)' => Undecided(d) \/ d = c
    BY <2>1, <2>5, <2>6 DEF Undecided
  <2>9. \A i \in DOMAIN backlog' :
          backlog'[i] # acceptor /\ \A j \in DOMAIN backlog' : backlog'[i] = backlog'[j] => i = j
    BY <2>1, <2>2, <2>5, <2>6, <2>7 DEF Queued, Undecided
  <2>10. Queued'
    BY <2>1, <2>2, <2>3, <2>8, <2>9 DEF Queued
  <2> QED BY <2>3, <2>4, <2>10
<1>2. CASE Sends(c)
  BY <1>2 DEF Sends, server, Typed, Queued, Undecided, SlotHeld, OneBusy
<1>3. CASE HangUp(c)
  <2>1. /\ peer' = [peer EXCEPT ![c] = "gone"] /\ UNCHANGED <<server, clientConn, handler, open>>
    BY <1>3 DEF HangUp
  <2>2. Typed' /\ \A d \in Conns : peer'[d] = IF d = c THEN "gone" ELSE peer[d]
    BY <2>1 DEF Typed, server
  <2> QED BY <2>1, <2>2 DEF server, Queued, Undecided, SlotHeld, OneBusy
<1>4. CASE Forgotten(c)
  <2>1. /\ peer' = [peer EXCEPT ![c] = "new"] /\ UNCHANGED <<server, clientConn, handler, open>>
        /\ handler[c] = "none" /\ c \notin open
    BY <1>4 DEF Forgotten
  <2>2. Typed' /\ \A d \in Conns : peer'[d] = IF d = c THEN "new" ELSE peer[d]
    BY <2>1 DEF Typed, server
  <2> QED BY <2>1, <2>2 DEF server, Queued, Undecided, SlotHeld, OneBusy
<1> QED BY <1>1, <1>2, <1>3, <1>4 DEF Client

\* The accept loop.
LEMMA ServeKeeps ==
  ASSUME Safe, main # "exited", Serve
  PROVE  Safe'
<1> USE DEF Safe
<1>1. CASE Accept
  <2>1. /\ acceptor' = Head(backlog) /\ backlog' = Tail(backlog) /\ backlog # <<>>
        /\ UNCHANGED <<cancelled, stopper, main, clientConn, handler, peer, open>>
    BY <1>1 DEF Accept
  <2>2. /\ backlog' \in Seq(Conns) /\ 1 \in DOMAIN backlog /\ acceptor' = backlog[1]
        /\ \A i \in DOMAIN backlog' :
             i + 1 \in DOMAIN backlog /\ backlog'[i] = backlog[i + 1] /\ i \in Nat /\ i # 0
    BY <2>1 DEF Typed
  <2>3. \A d \in Conns : Undecided(d)' => Undecided(d)
    BY <2>2 DEF Undecided
  <2>4. \A i \in DOMAIN backlog' :
          backlog'[i] # acceptor' /\ \A j \in DOMAIN backlog' : backlog'[i] = backlog'[j] => i = j
    <3> SUFFICES ASSUME NEW i \in DOMAIN backlog'
        PROVE  /\ backlog'[i] # acceptor'
               /\ \A j \in DOMAIN backlog' : backlog'[i] = backlog'[j] => i = j
      OBVIOUS
    <3>1. i + 1 # 1
      BY <2>2
    <3>2. \A j \in DOMAIN backlog' : i + 1 = j + 1 => i = j
      BY <2>2
    <3> QED BY <2>2, <3>1, <3>2 DEF Queued
  <2>5. Queued'
    BY <2>1, <2>3, <2>4 DEF Queued
  <2> QED BY <2>1, <2>2, <2>5 DEF Typed, SlotHeld, OneBusy
<1>2. CASE TrySetClient
  <2> DEFINE c == acceptor
  <2>1. /\ c \in Conns /\ acceptor' = "accept" /\ c \in open
        /\ handler[c] = "none" /\ peer[c] # "new"
        /\ UNCHANGED <<cancelled, backlog, stopper, main, peer>>
    BY <1>2 DEF TrySetClient, Queued, Undecided
  <2>2. \A d \in Conns : Undecided(d)' => Undecided(d) /\ d # c
    BY <2>1 DEF Undecided, Queued
  <2>3. \A i \in DOMAIN backlog' : backlog'[i] # acceptor'
    BY <2>1 DEF Typed
  <2>4. CASE clientConn # NoConn
    <3>1. open' = open \ {c} /\ UNCHANGED <<clientConn, handler>>
      BY <1>2, <2>4 DEF TrySetClient
    <3>2. Queued'
      BY <2>1, <2>2, <2>3, <3>1 DEF Queued
    <3> QED BY <2>1, <3>1, <3>2 DEF Typed, SlotHeld, OneBusy
  <2>5. CASE clientConn = NoConn
    <3>1. /\ clientConn' = c /\ open' = open /\ handler' = [handler EXCEPT ![c] = "check"]
      BY <1>2, <2>5 DEF TrySetClient
    <3>2. \A d \in Conns : handler'[d] = IF d = c THEN "check" ELSE handler[d]
      BY <3>1 DEF Typed
    <3>3. Typed'
      BY <2>1, <3>1 DEF Typed, Live
    <3>4. SlotHeld'
      BY <2>1, <2>5, <3>1, <3>2 DEF SlotHeld, Live
    <3>5. OneBusy'
      BY <2>1, <3>2 DEF OneBusy, Busy
    <3>6. Queued'
      BY <2>1, <2>2, <2>3, <3>1, <3>2 DEF Queued
    <3> QED BY <3>3, <3>4, <3>5, <3>6
  <2> QED BY <2>4, <2>5
<1> QED BY <1>1, <1>2 DEF Serve

\* A closed listener takes the connections with it that wait in it.
LEMMA ListenerKeeps ==
  ASSUME Safe, ClosedListener(Waiting), UNCHANGED <<main, clientConn, handler, peer, cancelled>>,
         acceptor' = acceptor \/ acceptor' = "returned",
         stopper' = stopper \/ (stopper = "waiting" /\ stopper' = "closing" /\ cancelled)
  PROVE  Safe'
<1> USE DEF Safe
<1>1. backlog' = <<>> /\ open' = open \ Waiting
  BY DEF ClosedListener
<1>2. Typed' /\ OneBusy' /\ SlotHeld'
  BY <1>1 DEF Typed, OneBusy, SlotHeld
<1>3. Queued'
  <2>1. \A c \in Conns : Undecided(c)' => acceptor = c
    BY <1>1 DEF Undecided
  <2>2. \A c \in Conns : main # "exited" /\ acceptor = c => c \notin Waiting
    BY DEF Queued, Waiting
  <2> QED BY <1>1, <2>1, <2>2 DEF Queued, Undecided
<1> QED BY <1>2, <1>3

LEMMA OthersKeep ==
  ASSUME Safe, main # "exited", Cancel \/ AcceptFails \/ Stop \/ Finish
  PROVE  Safe'
<1> USE DEF Safe
<1>1. CASE Cancel \/ CloseDriver
  BY <1>1 DEF Cancel, CloseDriver, Typed, Queued, Undecided, SlotHeld, OneBusy
<1>2. CASE AcceptFails \/ CloseListener
  BY <1>2, ListenerKeeps DEF AcceptFails, CloseListener
<1>3. CASE CloseClient
  <2>1. /\ stopper # "waiting" /\ stopper' = "done" /\ clientConn' = NoConn
        /\ open' = open \ {clientConn}
        /\ UNCHANGED <<cancelled, backlog, acceptor, main, handler, peer>>
    BY <1>3 DEF CloseClient
  <2>2. \A c \in Conns : Undecided(c)' <=> Undecided(c)
    BY <2>1 DEF Undecided
  <2>3. \A c \in Conns : clientConn = c => handler[c] # "none"
    BY DEF SlotHeld, Live, Busy
  <2>4. Queued'
    BY <2>1, <2>2, <2>3 DEF Queued
  <2>5. SlotHeld'
    BY <2>1 DEF SlotHeld
  <2> QED BY <2>1, <2>4, <2>5 DEF Typed, OneBusy
<1>4. CASE Exit
  <2>1. /\ main' = "exited" /\ open' = {} /\ clientConn' = NoConn
        /\ handler' = [c \in Conns |-> "none"]
        /\ UNCHANGED <<cancelled, backlog, acceptor, stopper, peer>>
    BY <1>4 DEF Exit
  <2>2. \A c \in Conns : handler'[c] = "none"
    BY <2>1
  <2> QED BY <2>1, <2>2 DEF Typed, Queued, SlotHeld, OneBusy, Live, Busy
<1> QED BY <1>1, <1>2, <1>3, <1>4 DEF Stop, Finish

LEMMA Stepwise ==
  ASSUME Safe, [Next]_vars
  PROVE  Safe'
<1>1. CASE \E c \in Conns : Client(c)
  BY <1>1, ClientKeeps
<1>2. CASE Running /\ (Cancel \/ Serve \/ AcceptFails \/ Stop \/ Finish)
  BY <1>2, ServeKeeps, OthersKeep DEF Running
<1>3. CASE \E c \in Conns : Handle(c)
  BY <1>3, HandleKeeps
<1>4. CASE UNCHANGED vars
  BY <1>4 DEF vars, Safe, Typed, Queued, Undecided, SlotHeld, OneBusy
<1> QED BY <1>1, <1>2, <1>3, <1>4 DEF Next

LEMMA Invariance == Spec => []Safe
<1>1. Init => Safe
  BY Initially
<1>2. Safe /\ [Next]_vars => Safe'
  BY Stepwise
<1> QED BY <1>1, <1>2, PTL DEF Spec

\* One goroutine at a time is inside ProcessCmd, for any number of connections
\* (tcp.go Start, handleClient, trySetClient, closeClient, closeClientConn).
THEOREM OneUserAtATime == Spec => []OneUser
<1>1. Safe => OneUser
  BY DEF Safe, OneBusy, OneUser, Busy
<1> QED BY <1>1, Invariance, PTL

\* The slot names a live handler's connection, and the connection of a handler that
\* goes on without it was closed by the shutdown, whatever was accepted meanwhile.
THEOREM SlotIsHandlers == Spec => []SlotHeld
<1>1. Safe => SlotHeld
  BY DEF Safe
<1> QED BY <1>1, Invariance, PTL

-----------------------------------------------------------------------------
(* Types.  That a client is owed a reply whenever one is sent rests on the *)
(* bytes: what is on its way to the handler, in its buffer and being       *)
(* answered is never more than the packets without a reply.                *)

Answering(c) == IF handler[c] = "send" THEN PacketSize ELSE 0
Owed ==
  \A c \in Conns :
    /\ handler[c] = "process" => buf[c] >= PacketSize
    /\ inbox[c] + buf[c] + Answering(c) <= PacketSize * inFlight[c]
Accounts == TypeOK /\ Owed

LEMMA Products ==
  ASSUME NEW n \in Int
  PROVE  /\ PacketSize * n \in Int /\ PacketSize * 0 = 0
         /\ PacketSize * (n + 1) = PacketSize * n + PacketSize
         /\ PacketSize * (n - 1) = PacketSize * n - PacketSize
         /\ n <= 0 => PacketSize * n <= 0
OBVIOUS

\* What one step does to the accounts of the one connection it is about.
LEMMA OneAccount ==
  ASSUME Accounts, NEW c \in Conns,
         NEW h \in Live \cup {"none"}, NEW i \in Nat, NEW b \in 0..BufSize, NEW f \in Nat,
         handler' = [handler EXCEPT ![c] = h], inbox' = [inbox EXCEPT ![c] = i],
         buf' = [buf EXCEPT ![c] = b], inFlight' = [inFlight EXCEPT ![c] = f],
         h = "process" => b >= PacketSize,
         i + b + (IF h = "send" THEN PacketSize ELSE 0) <= PacketSize * f
  PROVE  /\ handler' \in [Conns -> Live \cup {"none"}] /\ inbox' \in [Conns -> Nat]
         /\ inFlight' \in [Conns -> Nat] /\ buf' \in [Conns -> 0..BufSize] /\ Owed'
<1>1. /\ handler' \in [Conns -> Live \cup {"none"}] /\ inbox' \in [Conns -> Nat]
      /\ inFlight' \in [Conns -> Nat] /\ buf' \in [Conns -> 0..BufSize]
  BY DEF Accounts, TypeOK
<1>2. ASSUME NEW d \in Conns
      PROVE  /\ handler'[d] = "process" => buf'[d] >= PacketSize
             /\ inbox'[d] + buf'[d] + (IF handler'[d] = "send" THEN PacketSize ELSE 0)
                  <= PacketSize * inFlight'[d]
  <2>1. CASE d = c
    BY <2>1 DEF Accounts, TypeOK
  <2>2. CASE d # c
    <3>1. handler'[d] = handler[d] /\ inbox'[d] = inbox[d] /\ buf'[d] = buf[d]
          /\ inFlight'[d] = inFlight[d]
      BY <2>2 DEF Accounts, TypeOK
    <3> QED BY <3>1 DEF Accounts, Owed, Answering
  <2> QED BY <2>1, <2>2
<1> QED BY <1>1, <1>2 DEF Owed, Answering

\* The account of one connection, in numbers.
LEMMA Balance ==
  ASSUME Accounts, NEW c \in Conns
  PROVE  /\ handler[c] \in Live \cup {"none"} /\ inbox[c] \in Nat /\ inFlight[c] \in Nat
         /\ buf[c] \in 0..BufSize /\ buf[c] \in Nat /\ BufSize \in Nat
         /\ handler[c] = "process" => buf[c] >= PacketSize
         /\ inbox[c] + buf[c] + (IF handler[c] = "send" THEN PacketSize ELSE 0)
              <= PacketSize * inFlight[c]
         /\ handler = [handler EXCEPT ![c] = handler[c]] /\ inbox = [inbox EXCEPT ![c] = inbox[c]]
         /\ buf = [buf EXCEPT ![c] = buf[c]] /\ inFlight = [inFlight EXCEPT ![c] = inFlight[c]]
<1>1. BufSize \in Nat
  BY DEF BufSize
<1> QED BY <1>1 DEF Accounts, TypeOK, Owed, Answering

LEMMA AccountsBegin == Init => Accounts
<1> SUFFICES ASSUME Init PROVE Accounts
  OBVIOUS
<1>1. 0 \in 0..BufSize
  BY DEF BufSize
<1>2. TypeOK
  <2>1. /\ handler \in [Conns -> Live \cup {"none"}]
        /\ peer \in [Conns -> {"new", "connected", "gone"}]
    BY DEF Init
  <2>2. inbox \in [Conns -> Nat] /\ inFlight \in [Conns -> Nat] /\ buf \in [Conns -> 0..BufSize]
    BY <1>1 DEF Init
  <2>3. backlog \in Seq(Conns) /\ open \subseteq Conns
    BY DEF Init
  <2> QED BY <2>1, <2>2, <2>3 DEF Init, TypeOK
<1>3. PacketSize * 0 = 0
  BY Products
<1>4. \A c \in Conns :
        inbox[c] = 0 /\ buf[c] = 0 /\ inFlight[c] = 0 /\ handler[c] = "none"
  BY DEF Init
<1>5. Owed
  BY <1>3, <1>4 DEF Owed, Answering
<1> QED BY <1>2, <1>5 DEF Accounts

LEMMA ClientAccounts ==
  ASSUME Accounts, NEW c \in Conns, Client(c)
  PROVE  Accounts'
<1>1. CASE Dial(c)
  <2>1. backlog' \in Seq(Conns)
    BY <1>1 DEF Dial, Accounts, TypeOK
  <2> QED BY <1>1, <2>1 DEF Dial, data, Accounts, TypeOK, Owed, Answering
<1>2. CASE Sends(c)
  <2> DEFINE f == inFlight[c]  i == inbox[c]  b == buf[c]  h == handler[c]
  <2>1. /\ f \in Nat /\ i \in Nat /\ b \in 0..BufSize /\ h \in Live \cup {"none"}
        /\ h = "process" => b >= PacketSize
        /\ i + b + (IF h = "send" THEN PacketSize ELSE 0) <= PacketSize * f
        /\ PacketSize * (f + 1) = PacketSize * f + PacketSize /\ PacketSize * f \in Int
    BY Balance, Products
  <2>2. /\ UNCHANGED <<server, clientConn, handler, peer, open, buf>>
        /\ inbox' = [inbox EXCEPT ![c] = i + PacketSize]
        /\ inFlight' = [inFlight EXCEPT ![c] = f + 1]
    BY <1>2 DEF Sends
  <2>3. handler' = [handler EXCEPT ![c] = h] /\ buf' = [buf EXCEPT ![c] = b]
    BY <2>2, Balance
  <2> HIDE DEF f, i, b, h
  <2>4. /\ (i + PacketSize) + b + (IF h = "send" THEN PacketSize ELSE 0) <= PacketSize * (f + 1)
        /\ i + PacketSize \in Nat /\ f + 1 \in Nat
    <3>1. b \in Nat
      BY <2>1 DEF BufSize
    <3> QED BY <2>1, <3>1
  <2>5. /\ handler' \in [Conns -> Live \cup {"none"}] /\ inbox' \in [Conns -> Nat]
        /\ inFlight' \in [Conns -> Nat] /\ buf' \in [Conns -> 0..BufSize] /\ Owed'
    BY <2>1, <2>2, <2>3, <2>4, OneAccount
  <2> QED BY <2>2, <2>5 DEF server, Accounts, TypeOK
<1>3. CASE HangUp(c)
  BY <1>3 DEF HangUp, server, data, Accounts, TypeOK, Owed, Answering
<1>4. CASE Forgotten(c)
  <2>1. /\ UNCHANGED <<server, clientConn, handler, open>>
        /\ inbox' = [inbox EXCEPT ![c] = 0] /\ inFlight' = [inFlight EXCEPT ![c] = 0]
        /\ buf' = [buf EXCEPT ![c] = 0] /\ handler[c] = "none"
    BY <1>4 DEF Forgotten
  <2>2. handler' = [handler EXCEPT ![c] = "none"]
    BY <2>1, Balance
  <2>3. 0 \in 0..BufSize /\ 0 + 0 + 0 <= PacketSize * 0
    BY Products DEF BufSize
  <2>4. /\ handler' \in [Conns -> Live \cup {"none"}] /\ inbox' \in [Conns -> Nat]
        /\ inFlight' \in [Conns -> Nat] /\ buf' \in [Conns -> 0..BufSize] /\ Owed'
    BY <2>1, <2>2, <2>3, OneAccount
  <2>5. peer' \in [Conns -> {"new", "connected", "gone"}]
    BY <1>4 DEF Forgotten, Accounts, TypeOK
  <2> QED BY <2>1, <2>4, <2>5 DEF server, Accounts, TypeOK
<1> QED BY <1>1, <1>2, <1>3, <1>4 DEF Client

\* A handler that only moves on, to where it has what it needs.
LEMMA MovesOn ==
  ASSUME Accounts, NEW c \in Conns, NEW from, NEW to \in Live \ {"send"}, Moves(c, from, to),
         to = "process" => buf[c] >= PacketSize,
         UNCHANGED <<server, clientConn, peer, open, inbox, buf, inFlight>>
  PROVE  Accounts'
<1>1. inbox[c] + buf[c] + 0 <= PacketSize * inFlight[c]
  <2> DEFINE i == inbox[c]  b == buf[c]  p == PacketSize * inFlight[c]
  <2>1. /\ i \in Nat /\ b \in Nat /\ p \in Int
        /\ i + b + (IF handler[c] = "send" THEN PacketSize ELSE 0) <= p
    BY Balance, Products
  <2> HIDE DEF i, b, p
  <2>2. i + b + 0 <= p
    BY <2>1
  <2> QED BY <2>2 DEF i, b, p
<1>2. inbox[c] + buf[c] + (IF to = "send" THEN PacketSize ELSE 0) <= PacketSize * inFlight[c]
  BY <1>1
<1>3. to \in Live \cup {"none"} /\ inbox[c] \in Nat /\ inFlight[c] \in Nat /\ buf[c] \in 0..BufSize
  BY Balance
<1>4. /\ handler' = [handler EXCEPT ![c] = to] /\ inbox' = [inbox EXCEPT ![c] = inbox[c]]
      /\ buf' = [buf EXCEPT ![c] = buf[c]] /\ inFlight' = [inFlight EXCEPT ![c] = inFlight[c]]
  BY Balance DEF Moves
<1>5. /\ handler' \in [Conns -> Live \cup {"none"}] /\ inbox' \in [Conns -> Nat]
      /\ inFlight' \in [Conns -> Nat] /\ buf' \in [Conns -> 0..BufSize] /\ Owed'
  <2> DEFINE i == inbox[c]  b == buf[c]  f == inFlight[c]
  <2>1. /\ to \in Live \cup {"none"} /\ i \in Nat /\ f \in Nat /\ b \in 0..BufSize
        /\ i + b + (IF to = "send" THEN PacketSize ELSE 0) <= PacketSize * f
        /\ to = "process" => b >= PacketSize
    BY <1>2, <1>3
  <2>2. /\ handler' = [handler EXCEPT ![c] = to] /\ inbox' = [inbox EXCEPT ![c] = i]
        /\ buf' = [buf EXCEPT ![c] = b] /\ inFlight' = [inFlight EXCEPT ![c] = f]
    BY <1>4
  <2> HIDE DEF i, b, f
  <2> QED BY <2>1, <2>2, OneAccount
<1> QED BY <1>5 DEF server, Accounts, TypeOK

LEMMA HandleAccounts ==
  ASSUME Accounts, NEW c \in Conns, Handle(c)
  PROVE  Accounts'
<1> DEFINE f == inFlight[c]  i == inbox[c]  b == buf[c]  h == handler[c]  p == PacketSize * f
<1>1. /\ f \in Nat /\ i \in Nat /\ b \in Nat /\ b \in 0..BufSize /\ BufSize \in Nat
      /\ h \in Live \cup {"none"} /\ p \in Int
      /\ h = "process" => b >= PacketSize
      /\ i + b + (IF h = "send" THEN PacketSize ELSE 0) <= p
      /\ PacketSize * (f - 1) = p - PacketSize /\ (f <= 0 => p <= 0)
  BY Balance, Products
<1>2. /\ handler = [handler EXCEPT ![c] = h] /\ inbox = [inbox EXCEPT ![c] = i]
      /\ buf = [buf EXCEPT ![c] = b] /\ inFlight = [inFlight EXCEPT ![c] = f]
  BY Balance
<1>3. CASE Check(c)
  <2>1. PICK to \in {"read", "leave"} : Moves(c, "check", to)
    BY <1>3 DEF Check
  <2> QED BY <1>3, <2>1, MovesOn DEF Check, data, Live, Busy
<1>4. CASE Read(c)
  <2>1. PICK n \in 1..ReadSize :
          /\ n <= i /\ inbox' = [inbox EXCEPT ![c] = i - n]
          /\ \/ /\ b + n <= BufSize /\ Moves(c, "read", "parse")
                /\ buf' = [buf EXCEPT ![c] = b + n]
             \/ /\ b + n > BufSize /\ Moves(c, "read", "full") /\ UNCHANGED buf
    BY <1>4 DEF Read
  <2>2. /\ UNCHANGED <<server, clientConn, peer, open>> /\ inFlight' = [inFlight EXCEPT ![c] = f]
        /\ h = "read"
    BY <1>2, <1>4, <2>1 DEF Read, Moves
  <2>3. PICK to \in {"parse", "full"}, m \in {b, b + n} :
          /\ handler' = [handler EXCEPT ![c] = to] /\ buf' = [buf EXCEPT ![c] = m]
          /\ m <= BufSize
    <3>1. CASE /\ b + n <= BufSize /\ Moves(c, "read", "parse")
               /\ buf' = [buf EXCEPT ![c] = b + n]
      BY <3>1 DEF Moves
    <3>2. CASE b + n > BufSize /\ Moves(c, "read", "full") /\ UNCHANGED buf
      BY <1>1, <1>2, <3>2 DEF Moves
    <3> QED BY <2>1, <3>1, <3>2
  <2> HIDE DEF f, i, b, h, p
  <2>4. i - n \in Nat /\ m \in 0..BufSize /\ (i - n) + m + 0 <= p
    BY <1>1, <2>1, <2>2, <2>3
  <2>5. to \in Live \cup {"none"} /\ to # "process" /\ to # "send"
    BY <2>3 DEF Live, Busy
  <2>6. (i - n) + m + (IF to = "send" THEN PacketSize ELSE 0) <= PacketSize * f
    BY <2>4, <2>5 DEF p
  <2>7. /\ handler' \in [Conns -> Live \cup {"none"}] /\ inbox' \in [Conns -> Nat]
        /\ inFlight' \in [Conns -> Nat] /\ buf' \in [Conns -> 0..BufSize] /\ Owed'
    BY <1>1, <2>1, <2>2, <2>3, <2>4, <2>5, <2>6, OneAccount
  <2> QED BY <2>2, <2>7 DEF server, Accounts, TypeOK
<1>5. CASE ReadNothing(c)
  <2>1. PICK to \in {"parse", "leave"} : Moves(c, "read", to)
    BY <1>5 DEF ReadNothing
  <2> QED BY <1>5, <2>1, MovesOn DEF ReadNothing, data, Live, Busy
<1>6. CASE Parse(c)
  <2>1. PICK to \in {"check", "process", "leave"} :
          Moves(c, "parse", to) /\ (to = "process" => buf[c] >= PacketSize)
    BY <1>6 DEF Parse
  <2> QED BY <1>6, <2>1, MovesOn DEF Parse, data, Live, Busy
<1>7. CASE Process(c)
  <2>1. /\ UNCHANGED <<server, clientConn, peer, open>> /\ inFlight' = [inFlight EXCEPT ![c] = f]
        /\ inbox' = [inbox EXCEPT ![c] = i] /\ h = "process"
        /\ handler' = [handler EXCEPT ![c] = "send"]
        /\ buf' = [buf EXCEPT ![c] = b - PacketSize]
    BY <1>2, <1>7 DEF Process, Moves
  <2> HIDE DEF f, i, b, h, p
  <2>2. b - PacketSize \in 0..BufSize /\ i + (b - PacketSize) + PacketSize <= p
    BY <1>1, <2>1
  <2>3. i + (b - PacketSize) + (IF "send" = "send" THEN PacketSize ELSE 0) <= PacketSize * f
    BY <2>2 DEF p
  <2>4. /\ handler' \in [Conns -> Live \cup {"none"}] /\ inbox' \in [Conns -> Nat]
        /\ inFlight' \in [Conns -> Nat] /\ buf' \in [Conns -> 0..BufSize] /\ Owed'
    <3>1. "send" \in Live \cup {"none"} /\ "send" # "process"
      BY DEF Live, Busy
    <3> QED BY <1>1, <2>1, <2>2, <2>3, <3>1, OneAccount
  <2> QED BY <2>1, <2>4 DEF server, Accounts, TypeOK
<1>8. CASE Reply(c)
  <2>1. CASE Moves(c, "send", "leave") /\ UNCHANGED inFlight
    BY <1>8, <2>1, MovesOn DEF Reply, Live, Busy
  <2>2. CASE Moves(c, "send", "parse") /\ inFlight' = [inFlight EXCEPT ![c] = @ - 1]
    <3>1. /\ UNCHANGED <<server, clientConn, peer, open>>
          /\ inFlight' = [inFlight EXCEPT ![c] = f - 1] /\ h = "send"
          /\ handler' = [handler EXCEPT ![c] = "parse"]
          /\ inbox' = [inbox EXCEPT ![c] = i] /\ buf' = [buf EXCEPT ![c] = b]
      BY <1>2, <1>8, <2>2 DEF Reply, Moves
    <3> HIDE DEF f, i, b, h, p
    <3>2. p > 0 /\ i + b <= p - PacketSize
      BY <1>1, <3>1
    <3>3. f - 1 \in Nat
      BY <1>1, <3>2
    <3>4. i + b + (IF "parse" = "send" THEN PacketSize ELSE 0) <= PacketSize * (f - 1)
      BY <1>1, <3>2
    <3>5. "parse" \in Live \cup {"none"} /\ "parse" # "process"
      BY DEF Live, Busy
    <3>6. /\ handler' \in [Conns -> Live \cup {"none"}] /\ inbox' \in [Conns -> Nat]
          /\ inFlight' \in [Conns -> Nat] /\ buf' \in [Conns -> 0..BufSize] /\ Owed'
      BY <1>1, <3>1, <3>3, <3>4, <3>5, OneAccount
    <3> QED BY <3>1, <3>6 DEF server, Accounts, TypeOK
  <2> QED BY <1>8, <2>1, <2>2 DEF Reply
<1>9. CASE Leave(c)
  <2>1. /\ UNCHANGED <<server, peer>> /\ inFlight' = [inFlight EXCEPT ![c] = f]
        /\ handler' = [handler EXCEPT ![c] = "none"]
        /\ inbox' = [inbox EXCEPT ![c] = i] /\ buf' = [buf EXCEPT ![c] = b]
    BY <1>2, <1>9 DEF Leave, data
  <2>2. clientConn' \in Conns \cup {NoConn} /\ open' \subseteq Conns
    BY <1>9 DEF Leave, Accounts, TypeOK
  <2> HIDE DEF f, i, b, h, p
  <2>3. i + b <= p
    BY <1>1
  <2>4. i + b + (IF "none" = "send" THEN PacketSize ELSE 0) <= PacketSize * f
    BY <1>1, <2>3 DEF p
  <2>5. /\ handler' \in [Conns -> Live \cup {"none"}] /\ inbox' \in [Conns -> Nat]
        /\ inFlight' \in [Conns -> Nat] /\ buf' \in [Conns -> 0..BufSize] /\ Owed'
    BY <1>1, <2>1, <2>4, OneAccount
  <2> QED BY <2>1, <2>2, <2>5 DEF server, Accounts, TypeOK
<1> QED BY <1>3, <1>4, <1>5, <1>6, <1>7, <1>8, <1>9 DEF Handle

LEMMA OthersAccounts ==
  ASSUME Accounts, Cancel \/ Serve \/ AcceptFails \/ Stop \/ Finish
  PROVE  Accounts'
<1> USE DEF Accounts, TypeOK
<1>1. CASE Cancel
  BY <1>1 DEF Cancel, data, Owed, Answering
<1>2. CASE Accept
  <2>1. acceptor' \in Conns /\ backlog' \in Seq(Conns)
    BY <1>2 DEF Accept
  <2> QED BY <1>2, <2>1 DEF Accept, data, Owed, Answering
<1>3. CASE AcceptFails \/ CloseListener
  <2>1. <<>> \in Seq(Conns)
    OBVIOUS
  <2> QED BY <1>3, <2>1 DEF AcceptFails, CloseListener, ClosedListener, data, Owed, Answering
<1>4. CASE TrySetClient
  <2>1. CASE clientConn # NoConn
    BY <1>4, <2>1 DEF TrySetClient, data, Owed, Answering
  <2>2. CASE clientConn = NoConn
    <3>1. /\ acceptor \in Conns /\ Moves(acceptor, handler[acceptor], "check")
          /\ UNCHANGED <<inbox, buf, inFlight, open, peer>> /\ clientConn' = acceptor
          /\ acceptor' = "accept"
          /\ UNCHANGED <<cancelled, listening, backlog, stopper, main>>
      BY <1>4, <2>2 DEF TrySetClient, data, Moves
    <3> DEFINE c == acceptor
    <3>2. inbox[c] + buf[c] + 0 <= PacketSize * inFlight[c]
      <4> DEFINE i == inbox[c]  b == buf[c]  p == PacketSize * inFlight[c]
      <4>1. /\ i \in Nat /\ b \in Nat /\ p \in Int
            /\ i + b + (IF handler[c] = "send" THEN PacketSize ELSE 0) <= p
        <5>1. /\ i \in Nat /\ b \in Nat /\ inFlight[c] \in Int
              /\ i + b + (IF handler[c] = "send" THEN PacketSize ELSE 0) <= p
          <6>1. c \in Conns
            BY <3>1
          <6> HIDE DEF c
          <6>2. /\ inbox[c] \in Nat /\ buf[c] \in Nat /\ inFlight[c] \in Nat
                /\ inbox[c] + buf[c] + (IF handler[c] = "send" THEN PacketSize ELSE 0)
                     <= PacketSize * inFlight[c]
            BY <6>1, Balance
          <6> QED BY <6>2
        <5>2. p \in Int
          BY <5>1, Products
        <5> QED BY <5>1, <5>2
      <4> HIDE DEF i, b, p
      <4>2. i + b + 0 <= p
        BY <4>1
      <4> QED BY <4>2 DEF i, b, p
    <3>3. /\ handler' = [handler EXCEPT ![c] = "check"] /\ inbox' = [inbox EXCEPT ![c] = inbox[c]]
          /\ buf' = [buf EXCEPT ![c] = buf[c]] /\ inFlight' = [inFlight EXCEPT ![c] = inFlight[c]]
      BY <3>1, Balance DEF Moves
    <3>4. /\ handler' \in [Conns -> Live \cup {"none"}] /\ inbox' \in [Conns -> Nat]
          /\ inFlight' \in [Conns -> Nat] /\ buf' \in [Conns -> 0..BufSize] /\ Owed'
      <4>1. "check" \in Live \cup {"none"}
        BY DEF Live
      <4>2. inbox[c] \in Nat /\ inFlight[c] \in Nat /\ buf[c] \in 0..BufSize
        BY <3>1, Balance
      <4>3. inbox[c] + buf[c] + (IF "check" = "send" THEN PacketSize ELSE 0)
              <= PacketSize * inFlight[c]
        BY <3>2
      <4> HIDE DEF c
      <4>4. c \in Conns
        BY <3>1 DEF c
      <4> QED BY <3>3, <4>1, <4>2, <4>3, <4>4, OneAccount
    <3> QED BY <3>1, <3>4
  <2> QED BY <2>1, <2>2
<1>5. CASE CloseClient
  BY <1>5 DEF CloseClient, data, Owed, Answering
<1>6. CASE CloseDriver
  BY <1>6 DEF CloseDriver, data, Owed, Answering
<1>7. CASE Exit
  <2>1. handler' = [c \in Conns |-> "none"] /\ UNCHANGED <<inbox, buf, inFlight>>
    BY <1>7 DEF Exit, data
  <2>2. ASSUME NEW c \in Conns
        PROVE  handler'[c] = "none" /\ inbox[c] + buf[c] + 0 <= PacketSize * inFlight[c]
    <3> DEFINE i == inbox[c]  b == buf[c]  p == PacketSize * inFlight[c]
    <3>1. /\ i \in Nat /\ b \in Nat /\ p \in Int
          /\ i + b + (IF handler[c] = "send" THEN PacketSize ELSE 0) <= p
      BY Balance, Products
    <3> HIDE DEF i, b, p
    <3>2. i + b + 0 <= p
      BY <3>1
    <3> QED BY <2>1, <3>2 DEF i, b, p
  <2>3. Owed'
    BY <2>1, <2>2 DEF Owed, Answering
  <2> QED BY <1>7, <2>1, <2>3 DEF Exit, data
<1> QED BY <1>1, <1>2, <1>3, <1>4, <1>5, <1>6, <1>7 DEF Serve, Stop, Finish

\* Every client whose packet is answered is owed that answer, and no handler's
\* buffer runs over: with the accounts kept, each variable keeps its type
\* (tcp.go Start, handleClient; msgbuf add, parse).
THEOREM TypesHold == Spec => []TypeOK
<1>1. Init => Accounts
  BY AccountsBegin
<1>2. Accounts /\ [Next]_vars => Accounts'
  <2> SUFFICES ASSUME Accounts, [Next]_vars PROVE Accounts'
    OBVIOUS
  <2>1. CASE \E c \in Conns : Client(c)
    BY <2>1, ClientAccounts
  <2>2. CASE Cancel \/ Serve \/ AcceptFails \/ Stop \/ Finish
    BY <2>2, OthersAccounts
  <2>3. CASE \E c \in Conns : Handle(c)
    BY <2>3, HandleAccounts
  <2>4. CASE UNCHANGED vars
    BY <2>4 DEF vars, Accounts, TypeOK, Owed, Answering
  <2> QED BY <2>1, <2>2, <2>3, <2>4 DEF Next
<1>3. Accounts => TypeOK
  BY DEF Accounts
<1> QED BY <1>1, <1>2, <1>3, PTL DEF Spec
=============================================================================
