----------------------------- MODULE TcpServe -----------------------------
(***************************************************************************)
(* cmsis/server/tcp and the gateway around it: the accept loop, a          *)
(* goroutine per connection, the goroutine that shuts the server down, and *)
(* the main goroutine, which closes the driver once Start returns.  What   *)
(* they share is the slot for the one client, and the probe.               *)
(*                                                                         *)
(* Bytes are counted in units of which a full packet has PacketSize.       *)
(***************************************************************************)
EXTENDS Naturals, Sequences, FiniteSets

CONSTANTS
  Conns,       \* connections
  NoConn,      \* nil
  PacketSize,  \* a full packet with its header
  ReadSize,    \* the most one Read returns
  PacketCount  \* packets a debugger has in flight at most

ASSUME ServeAssumption ==
  /\ NoConn \notin Conns /\ "accept" \notin Conns /\ "returned" \notin Conns
  /\ PacketSize \in Nat \ {0} /\ ReadSize \in Nat \ {0} /\ PacketCount \in Nat

VARIABLES
  cancelled,  \* the context is done
  listening,  \* the listener is open
  backlog,    \* connections nobody accepted yet
  acceptor,   \* the connection the accept loop holds, "accept", or "returned"
  stopper,    \* the shutdown goroutine: "waiting", "closing", "done"
  main,       \* "serving", "closed" (the driver), "exited"
  clientConn, \* the slot
  handler,    \* what each connection's goroutine is about to do
  peer,       \* each connection's far end: "new", "connected", "gone"
  open,       \* connections whose near end is open
  inbox,      \* units on their way to each handler
  buf,        \* units in each handler's msgbuf
  inFlight    \* packets each client has no reply to

server == <<cancelled, listening, backlog, acceptor, stopper, main>>
data == <<inbox, buf, inFlight>>
vars == <<cancelled, listening, backlog, acceptor, stopper, main, clientConn, handler,
          peer, open, inbox, buf, inFlight>>

BufSize == 3 * PacketSize

\* A handler in one of these has passed its last look at the context.
Busy == {"read", "parse", "process", "send", "full"}
Live == {"check", "leave"} \cup Busy

Init ==
  /\ cancelled = FALSE /\ listening = TRUE /\ backlog = <<>>
  /\ acceptor = "accept" /\ stopper = "waiting" /\ main = "serving"
  /\ clientConn = NoConn
  /\ handler = [c \in Conns |-> "none"] /\ peer = [c \in Conns |-> "new"] /\ open = {}
  /\ inbox = [c \in Conns |-> 0] /\ buf = [c \in Conns |-> 0]
  /\ inFlight = [c \in Conns |-> 0]

-----------------------------------------------------------------------------
(* The far end. *)

Dial(c) ==
  /\ peer[c] = "new" /\ listening /\ main # "exited"
  /\ peer' = [peer EXCEPT ![c] = "connected"]
  /\ open' = open \cup {c} /\ backlog' = Append(backlog, c)
  /\ UNCHANGED <<cancelled, listening, acceptor, stopper, main, clientConn, handler, data>>

Sends(c) ==
  /\ peer[c] = "connected" /\ c \in open /\ inFlight[c] < PacketCount
  /\ inFlight' = [inFlight EXCEPT ![c] = @ + 1]
  /\ inbox' = [inbox EXCEPT ![c] = @ + PacketSize]
  /\ UNCHANGED <<server, clientConn, handler, peer, open, buf>>

HangUp(c) ==
  /\ peer[c] = "connected"
  /\ peer' = [peer EXCEPT ![c] = "gone"]
  /\ UNCHANGED <<server, clientConn, handler, open, data>>

\* A connection both ends are done with; its name is used again.
Forgotten(c) ==
  /\ peer[c] = "gone" /\ handler[c] = "none" /\ c \notin open
  /\ peer' = [peer EXCEPT ![c] = "new"]
  /\ inbox' = [inbox EXCEPT ![c] = 0] /\ buf' = [buf EXCEPT ![c] = 0]
  /\ inFlight' = [inFlight EXCEPT ![c] = 0]
  /\ UNCHANGED <<server, clientConn, handler, open>>

\* SIGINT or SIGTERM.
Cancel ==
  /\ main = "serving" /\ cancelled' = TRUE
  /\ UNCHANGED <<listening, backlog, acceptor, stopper, main, clientConn, handler, peer,
                 open, data>>

-----------------------------------------------------------------------------
(* Start: the accept loop. *)

Accept ==
  /\ acceptor = "accept" /\ listening /\ backlog # <<>>
  /\ acceptor' = Head(backlog) /\ backlog' = Tail(backlog)
  /\ UNCHANGED <<cancelled, listening, stopper, main, clientConn, handler, peer, open, data>>

ClosedListener(conns) == listening' = FALSE /\ backlog' = <<>> /\ open' = open \ conns
Waiting == {backlog[i] : i \in DOMAIN backlog}

\* The listener is closed, or broken for good: Start returns.  A temporary error is
\* slept over.
AcceptFails ==
  /\ acceptor = "accept"
  /\ acceptor' = "returned" /\ ClosedListener(Waiting)
  /\ UNCHANGED <<cancelled, stopper, main, clientConn, handler, peer, data>>

\* trySetClient, and the handler's start; or the connection is dropped.
TrySetClient ==
  /\ acceptor \in Conns
  /\ IF clientConn = NoConn
     THEN /\ clientConn' = acceptor /\ handler' = [handler EXCEPT ![acceptor] = "check"]
          /\ UNCHANGED open
     ELSE open' = open \ {acceptor} /\ UNCHANGED <<clientConn, handler>>
  /\ acceptor' = "accept"
  /\ UNCHANGED <<cancelled, listening, backlog, stopper, main, peer, data>>

-----------------------------------------------------------------------------
(* The shutdown goroutine. *)

\* MUTANT of CloseListener: only the client is closed.
CloseNothing ==
  /\ stopper = "waiting" /\ cancelled
  /\ stopper' = "closing"
  /\ UNCHANGED <<cancelled, listening, backlog, acceptor, main, clientConn, handler, peer,
                 open, data>>

CloseListener ==
  /\ stopper = "waiting" /\ cancelled
  /\ stopper' = "closing" /\ ClosedListener(Waiting)
  /\ UNCHANGED <<cancelled, acceptor, main, clientConn, handler, peer, data>>

CloseClient ==
  /\ stopper = "closing"
  /\ stopper' = "done" /\ clientConn' = NoConn /\ open' = open \ {clientConn}
  /\ UNCHANGED <<cancelled, listening, backlog, acceptor, main, handler, peer, data>>

-----------------------------------------------------------------------------
(* handleClient. *)

Moves(c, from, to) == handler[c] = from /\ handler' = [handler EXCEPT ![c] = to]

\* MUTANT of Check: the context is not looked at.
CheckNothing(c) ==
  /\ Moves(c, "check", IF c \in open THEN "read" ELSE "leave")
  /\ UNCHANGED <<server, clientConn, peer, open, data>>

\* The context, and the read deadline, which a closed connection refuses.
Check(c) ==
  /\ Moves(c, "check", IF c \in open /\ ~cancelled THEN "read" ELSE "leave")
  /\ UNCHANGED <<server, clientConn, peer, open, data>>

\* MUTANT of Read: what fits is not asked.
ReadUnbounded(c) ==
  /\ c \in open
  /\ \E n \in 1..ReadSize :
       /\ n <= inbox[c]
       /\ inbox' = [inbox EXCEPT ![c] = @ - n] /\ buf' = [buf EXCEPT ![c] = @ + n]
       /\ Moves(c, "read", "parse")
  /\ UNCHANGED <<server, clientConn, peer, open, inFlight>>

\* msgbuf.add, with data.  More than there is room for ends the connection.
Read(c) ==
  /\ c \in open
  /\ \E n \in 1..ReadSize :
       /\ n <= inbox[c]
       /\ inbox' = [inbox EXCEPT ![c] = @ - n]
       /\ \/ /\ buf[c] + n <= BufSize /\ Moves(c, "read", "parse")
             /\ buf' = [buf EXCEPT ![c] = @ + n]
          \/ /\ buf[c] + n > BufSize /\ Moves(c, "read", "full")
             /\ UNCHANGED buf
  /\ UNCHANGED <<server, clientConn, peer, open, inFlight>>

\* MUTANT of ReadNothing: a connection that ended is read again, like a deadline.
ReadAgain(c) ==
  /\ inbox[c] = 0 \/ c \notin open
  /\ Moves(c, "read", "parse")
  /\ UNCHANGED <<server, clientConn, peer, open, data>>

\* msgbuf.add, without: the deadline passes, or the connection ended.
ReadNothing(c) ==
  /\ \/ inbox[c] = 0 /\ c \in open /\ peer[c] = "connected" /\ Moves(c, "read", "parse")
     \/ inbox[c] = 0 /\ peer[c] # "connected" /\ Moves(c, "read", "leave")
     \/ c \notin open /\ Moves(c, "read", "leave")
  /\ UNCHANGED <<server, clientConn, peer, open, data>>

\* msgbuf.parse: more is needed, or a packet is there, or it is malformed.
Parse(c) ==
  /\ \/ buf[c] < PacketSize /\ Moves(c, "parse", "check")
     \/ buf[c] >= PacketSize /\ Moves(c, "parse", "process")
     \/ buf[c] > 0 /\ Moves(c, "parse", "leave")
  /\ UNCHANGED <<server, clientConn, peer, open, data>>

\* processDAPRequest returns: the probe was in use from the step before to this one,
\* by a command begun under a live context, or by a calibration, which looks at none.
\* The server writes its replies into the buffer they are measured against: the error
\* for one that is longer has no case.
Process(c) ==
  /\ Moves(c, "process", "send")
  /\ buf' = [buf EXCEPT ![c] = @ - PacketSize]
  /\ UNCHANGED <<server, clientConn, peer, open, inbox, inFlight>>

Reply(c) ==
  /\ \/ /\ c \in open /\ Moves(c, "send", "parse")
        /\ inFlight' = [inFlight EXCEPT ![c] = @ - 1]
     \/ /\ c \notin open \/ peer[c] # "connected"
        /\ Moves(c, "send", "leave") /\ UNCHANGED inFlight
  /\ UNCHANGED <<server, clientConn, peer, open, inbox, buf>>

\* MUTANT of Leave: the slot is emptied, whoever holds it.
LeaveAnyway(c) ==
  /\ handler[c] \in {"leave", "full"}
  /\ handler' = [handler EXCEPT ![c] = "none"]
  /\ clientConn' = NoConn /\ open' = open \ {c}
  /\ UNCHANGED <<server, peer, data>>

\* closeClientConn, deferred.
Leave(c) ==
  /\ handler[c] \in {"leave", "full"}
  /\ handler' = [handler EXCEPT ![c] = "none"]
  /\ IF clientConn = c THEN clientConn' = NoConn /\ open' = open \ {c}
     ELSE UNCHANGED <<clientConn, open>>
  /\ UNCHANGED <<server, peer, data>>

-----------------------------------------------------------------------------
(* The gateway's run, once Start has returned. *)

\* The deferred probe.Close, which closes the driver, and the driver's own Close.
CloseDriver ==
  /\ main = "serving" /\ acceptor = "returned"
  /\ main' = "closed"
  /\ UNCHANGED <<cancelled, listening, backlog, acceptor, stopper, clientConn, handler,
                 peer, open, data>>

\* The process ends, and every goroutine with it.
Exit ==
  /\ main = "closed"
  /\ main' = "exited" /\ handler' = [c \in Conns |-> "none"] /\ open' = {}
  /\ clientConn' = NoConn
  /\ UNCHANGED <<cancelled, listening, backlog, acceptor, stopper, peer, data>>

-----------------------------------------------------------------------------
Client(c) == Dial(c) \/ Sends(c) \/ HangUp(c) \/ Forgotten(c)
Handle(c) ==
  Check(c) \/ Read(c) \/ ReadNothing(c) \/ Parse(c) \/ Process(c) \/ Reply(c) \/ Leave(c)
Serve == Accept \/ TrySetClient
Stop == CloseListener \/ CloseClient
Finish == CloseDriver \/ Exit

Running == main # "exited"
Next ==
  \/ \E c \in Conns : Client(c)
  \/ Running /\ (Cancel \/ Serve \/ AcceptFails \/ Stop \/ Finish)
  \/ Running /\ \E c \in Conns : Handle(c)

Spec == Init /\ [][Next]_vars

\* Goroutines run; a closed listener makes Accept return.
FairSpec ==
  /\ Spec
  /\ WF_vars(Running /\ Serve) /\ WF_vars(Running /\ Stop) /\ WF_vars(Running /\ Finish)
  /\ WF_vars(Running /\ ~listening /\ AcceptFails)
  /\ \A c \in Conns : WF_vars(Running /\ Handle(c))

-----------------------------------------------------------------------------
(* Properties. *)

TypeOK ==
  /\ cancelled \in BOOLEAN /\ listening \in BOOLEAN
  /\ backlog \in Seq(Conns)
  /\ acceptor \in Conns \cup {"accept", "returned"}
  /\ stopper \in {"waiting", "closing", "done"} /\ main \in {"serving", "closed", "exited"}
  /\ clientConn \in Conns \cup {NoConn}
  /\ handler \in [Conns -> Live \cup {"none"}]
  /\ peer \in [Conns -> {"new", "connected", "gone"}] /\ open \subseteq Conns
  /\ inbox \in [Conns -> Nat] /\ inFlight \in [Conns -> Nat]
  /\ buf \in [Conns -> 0..BufSize]

\* Never do two goroutines use the probe: not while a client is refused, not while
\* one leaves, and not while the server shuts down and the slot is emptied under a
\* handler that is still at work (tcp.go Start, handleClient, closeClient).
OneUser == \A c, d \in Conns : handler[c] = "process" /\ handler[d] = "process" => c = d

\* The slot is a live handler's, and a handler without it is one that shutdown cut
\* off, whose connection is closed: when that handler leaves, it does not take the
\* slot from the connection that was accepted meanwhile (tcp.go closeClientConn).
SlotHeld ==
  \A c \in Conns :
    /\ clientConn = c => handler[c] \in Live
    /\ handler[c] \in Live /\ clientConn # c => stopper = "done" /\ c \notin open

\* What OneUser rests on: once the slot was emptied no handler passes its check.
OneBusy ==
  /\ stopper # "waiting" => cancelled
  /\ \A c, d \in Conns : handler[c] \in Busy /\ handler[d] \in Busy => c = d

\* A client that went away gives up its slot.
SlotFrees == \A c \in Conns : (peer[c] = "gone" /\ clientConn = c) ~> clientConn # c

\* After the signal the process ends, however busy its handlers are.
ShutdownEnds == cancelled ~> main = "exited"

\* "Serialise access yourself" (probe.go Probe): nobody uses the probe while its
\* driver is closed.
ClosedUnused == main = "closed" => \A c \in Conns : handler[c] # "process"
=============================================================================
