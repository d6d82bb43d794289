------------------------------ MODULE TcpStream ------------------------------
(***************************************************************************)
(* One TCP connection of the daemon, with its peer on the other end:       *)
(*   tcpRole = "in": a client's connection, network::tcp::in               *)
(*     (src/network/srcz/incoming.cpp): the query is read by on_receive,  *)
(*     handed to the responder, and the answer written by respond;        *)
(*   tcpRole = "up": a connection to a provider, network::tcp::upstream   *)
(*     (src/network/srcz/upstream.cpp): the question is written by        *)
(*     on_send once connected, the answer read by on_receive.             *)
(* Both frame a message as tcp_connection::tcp_send and tcp_receive        *)
(* (src/network/srcz/connection.cpp) do: two bytes of length in network   *)
(* order, then the message.                                                *)
(*                                                                         *)
(* The socket is non-blocking.  What the peer writes reaches the daemon's  *)
(* receive buffer in pieces of any size (Arrive), also while a callback   *)
(* of the daemon runs: tcp_receive reads in a loop, and the kernel goes   *)
(* on receiving between two ::recv calls.  `rx' holds the bytes read so   *)
(* far while that loop runs; no other callback of the loop runs then.     *)
(* An exception other than net_error leaves on_receive, respond or        *)
(* on_send uncaught and ends the process ("crashed"): the libev loop runs *)
(* with no handler around it.                                              *)
(*                                                                         *)
(* Bytes are numbers; a message is a sequence of them.  The receive        *)
(* buffer Reserved (query::max_size, 55535) is scaled down; the length    *)
(* field keeps its 16 bits.                                                *)
(***************************************************************************)
EXTENDS Integers, Sequences, SequencesExt

CONSTANTS
    Reserved,       \* reserved_size() of the message received into
    SizeMax,        \* numeric_limits<packet::size_type>::max(): 65535
    PeerWrites,     \* what the peer may write with one send(): byte sequences
    DaemonMessages, \* what the daemon writes: the responder's answer ("in"),
                    \* the question ("up")
    MaxPeerWrites   \* how many writes the peer makes at most

VARIABLES
    tcpRole,    \* "in" or "up"
    tcpConn,    \* the daemon's end: "sending", "receiving", "responding",
                \* "timedout" (closed, the responder may still respond),
                \* "done" (answer passed downstream), "failed"
                \* (pass_failure_downstream), "closed", "crashed"
    rx,         \* the bytes tcp_receive has read while its loop runs, or NoRx
    inFlight,       \* bytes the peer wrote that are not yet in the receive buffer
    rcvBuf,     \* the socket's receive buffer
    peerFin,    \* the peer shut its end down after its last write
    peerWrote,  \* every byte the peer wrote, in order (history)
    peerWrites, \* the number of the peer's writes
    tcpGot,     \* the message tcp_receive returned, or <<>>
    toPeer      \* the bytes the daemon's send() calls put on the connection

tcpVars == <<tcpRole, tcpConn, rx, inFlight, rcvBuf, peerFin, peerWrote,
             peerWrites, tcpGot, toPeer>>

NoRx == <<>>

\* tcp_send's frame: htons of the size cast to uint16_t, then the message.
Frame(m) == <<(Len(m) % 65536) \div 256, Len(m) % 256>> \o m

\* ntohs of the first two bytes read.
MsgSize(q) == q[1] * 256 + q[2]

\* tcp::send on the non-blocking socket: the whole frame, the part the
\* socket buffer takes, or -1 (EAGAIN, EPIPE, ECONNRESET).
SendResults(frame) == {-1} \cup 1..Len(frame)

\* tcp_send for ::send's result n: n < 0 and n = 0 throw net_error, a part
\* of the frame throws logic_error ("buffered TCP is not supported").
SendOutcome(frame, n) ==
    IF n <= 0 THEN "net_error" ELSE IF n # Len(frame) THEN "logic_error" ELSE "ok"

\* The bytes on the connection after tcp_send's ::send returned n.
Sent(frame, n) == toPeer \o SubSeq(frame, 1, IF n > 0 THEN n ELSE 0)

\* tcp::receive (::recv) of at most k bytes from the receive buffer; an
\* empty result stands for -1 (EAGAIN) and for 0 (the peer shut down).
Taken(k) == SubSeq(rcvBuf, 1, IF k < Len(rcvBuf) THEN k ELSE Len(rcvBuf))

\* The checks of tcp_receive on the first bytes read: fewer than 2, a zero
\* length, more than packet::size_type holds, more than the buffer holds;
\* each throws runtime_error.
HeadError(q) ==
    \/ Len(q) < 2
    \/ MsgSize(q) = 0
    \/ SizeMax < MsgSize(q) + 2
    \/ Reserved < MsgSize(q) + 2

\* A plausible slip: the size mismatch after the loop not checked.
ReceivedUnchecked(q) == IF Len(q) < MsgSize(q) + 2 THEN "more" ELSE "ok"

\* The end of tcp_receive's loop for the bytes q read: read on while fewer
\* than the frame's, then logic_error unless exactly the frame was read.
Received(q) ==
    IF Len(q) < MsgSize(q) + 2 THEN "more"
    ELSE IF Len(q) # MsgSize(q) + 2 THEN "logic_error"
    ELSE "ok"

\* The first ::recv of tcp_receive and its checks.
FirstCheck(q) ==
    IF q = <<>> THEN "net_error" ELSE IF HeadError(q) THEN "runtime_error" ELSE Received(q)

\* The catch clauses around tcp_receive, and what follows a whole message.
\* tcp::in::on_receive: stop reading, create_response (the responder now
\* holds the request); a net_error closes the request.
\* upstream::on_receive: close, unfold, pass_answer_downstream; a net_error
\* passes the failure downstream.  Anything else escapes both.
AfterReceive(res, q) ==
    CASE res = "more" ->
              rx' = q /\ UNCHANGED <<tcpConn, tcpGot>>
      [] res = "ok" ->
              /\ rx' = NoRx
              /\ tcpGot' = SubSeq(q, 3, Len(q))
              /\ tcpConn' = IF tcpRole = "in" THEN "responding" ELSE "done"
      [] res = "net_error" ->
              /\ rx' = NoRx
              /\ tcpConn' = IF tcpRole = "in" THEN "closed" ELSE "failed"
              /\ UNCHANGED tcpGot
      [] OTHER ->
              rx' = NoRx /\ tcpConn' = "crashed" /\ UNCHANGED tcpGot

\* is_connected() of the upstream's socket: SO_ERROR is 0, or an error
\* other than EINPROGRESS (net_error: the connection failed).  EINPROGRESS
\* returns false and on_send does nothing: a stutter.
ConnectStates == {"connected", "refused"}

-----------------------------------------------------------------------------

TcpInit ==
    /\ tcpRole \in {"in", "up"}
    /\ tcpConn = IF tcpRole = "in" THEN "receiving" ELSE "sending"
    /\ rx = NoRx
    /\ inFlight = <<>>
    /\ rcvBuf = <<>>
    /\ peerFin = FALSE
    /\ peerWrote = <<>>
    /\ peerWrites = 0
    /\ tcpGot = <<>>
    /\ toPeer = <<>>

\* The daemon is in none of its callbacks and has not ended.
TcpIdle == rx = NoRx /\ tcpConn # "crashed"

\* The peer writes: a client at any time, a provider once the question has
\* reached it.
PeerWrite(w) ==
    /\ TcpIdle
    /\ ~peerFin
    /\ peerWrites < MaxPeerWrites
    /\ tcpRole = "in" \/ toPeer # <<>>
    /\ inFlight' = inFlight \o w
    /\ peerWrote' = peerWrote \o w
    /\ peerWrites' = peerWrites + 1
    /\ UNCHANGED <<tcpRole, tcpConn, rx, rcvBuf, peerFin, tcpGot, toPeer>>

\* The peer shuts its end down (shutdown or close).
PeerShutdown ==
    /\ TcpIdle
    /\ ~peerFin
    /\ peerFin' = TRUE
    /\ UNCHANGED <<tcpRole, tcpConn, rx, inFlight, rcvBuf, peerWrote, peerWrites,
                   tcpGot, toPeer>>

\* The kernel receives the next k bytes the peer wrote, also while a
\* callback of the daemon runs.
Arrive ==
    /\ tcpConn # "crashed"
    /\ \E k \in 1..Len(inFlight) :
         /\ rcvBuf' = rcvBuf \o SubSeq(inFlight, 1, k)
         /\ inFlight' = SubSeq(inFlight, k + 1, Len(inFlight))
    /\ UNCHANGED <<tcpRole, tcpConn, rx, peerFin, peerWrote, peerWrites,
                   tcpGot, toPeer>>

\* The READ watcher fires: data in the buffer, or the peer's shutdown
\* after everything it wrote.
Readable == rcvBuf # <<>> \/ (peerFin /\ inFlight = <<>>)

\* on_receive of either end: tcp_receive's first ::recv, into a buffer of
\* Reserved bytes, and its checks.
RecvFirst ==
    /\ TcpIdle
    /\ tcpConn = "receiving"
    /\ Readable
    /\ rcvBuf' = SubSeq(rcvBuf, Len(Taken(Reserved)) + 1, Len(rcvBuf))
    /\ AfterReceive(FirstCheck(Taken(Reserved)), Taken(Reserved))
    /\ UNCHANGED <<tcpRole, inFlight, peerFin, peerWrote, peerWrites, toPeer>>

\* One more turn of tcp_receive's loop: ::recv of up to what is left of the
\* buffer (not of the frame); nothing there throws net_error.
RecvMore ==
    /\ rx # NoRx
    /\ rcvBuf' = SubSeq(rcvBuf, Len(Taken(Reserved - Len(rx))) + 1, Len(rcvBuf))
    /\ AfterReceive(IF Taken(Reserved - Len(rx)) = <<>> THEN "net_error"
                    ELSE Received(rx \o Taken(Reserved - Len(rx))),
                    rx \o Taken(Reserved - Len(rx)))
    /\ UNCHANGED <<tcpRole, inFlight, peerFin, peerWrote, peerWrites, toPeer>>

\* upstream::on_send of the question m on a TCP upstream: is_connected,
\* then (fold is the plain provider's, no change) tcp_send; done sending,
\* it starts receiving.  A net_error, from is_connected or from tcp_send,
\* passes the failure downstream; logic_error escapes.
UpSend(m) ==
    /\ TcpIdle
    /\ tcpRole = "up"
    /\ tcpConn = "sending"
    /\ \E c \in ConnectStates :
         \/ c = "refused" /\ tcpConn' = "failed" /\ UNCHANGED toPeer
         \/ c = "connected" /\ \E n \in SendResults(Frame(m)) :
              /\ toPeer' = Sent(Frame(m), n)
              /\ tcpConn' = CASE SendOutcome(Frame(m), n) = "ok" -> "receiving"
                              [] SendOutcome(Frame(m), n) = "net_error" -> "failed"
                              [] OTHER -> "crashed"
    /\ UNCHANGED <<tcpRole, rx, inFlight, rcvBuf, peerFin, peerWrote, peerWrites, tcpGot>>

\* tcp::in::respond(answer m), from the responder, also after the request
\* timed out (close() stops the watchers but not the socket): tcp_send,
\* then close; a net_error is logged and the request closed.
InRespond(m) ==
    /\ TcpIdle
    /\ tcpRole = "in"
    /\ tcpConn \in {"responding", "timedout"}
    /\ \E n \in SendResults(Frame(m)) :
         /\ toPeer' = Sent(Frame(m), n)
         /\ tcpConn' = IF SendOutcome(Frame(m), n) = "logic_error" THEN "crashed" ELSE "closed"
    /\ UNCHANGED <<tcpRole, rx, inFlight, rcvBuf, peerFin, peerWrote, peerWrites, tcpGot>>

\* timeout::callback: close() of the request.  tcp::in stops reading (the
\* responder may still respond); the upstream closes its socket and tells
\* nobody.
TcpTimeout ==
    /\ TcpIdle
    /\ tcpConn \in {"sending", "receiving", "responding"}
    /\ tcpConn' = IF tcpConn = "responding" THEN "timedout" ELSE "closed"
    /\ UNCHANGED <<tcpRole, rx, inFlight, rcvBuf, peerFin, peerWrote, peerWrites,
                   tcpGot, toPeer>>

TcpNext ==
    \/ \E w \in PeerWrites : PeerWrite(w)
    \/ PeerShutdown
    \/ Arrive
    \/ RecvFirst
    \/ RecvMore
    \/ \E m \in DaemonMessages : UpSend(m)
    \/ \E m \in DaemonMessages : InRespond(m)
    \/ TcpTimeout

TcpSpec == TcpInit /\ [][TcpNext]_tcpVars

-----------------------------------------------------------------------------
(* Properties.                                                              *)

\* The first message of the byte stream the peer wrote, as its framing
\* defines it.
FirstFrame(s) == SubSeq(s, 3, 2 + MsgSize(s))

\* tcp_receive, however the peer's bytes are cut into pieces by the
\* network and the ::recv calls, and whatever else the peer writes after
\* its first frame: the message the daemon takes from a connection (the
\* query handed to the responder, the answer passed downstream) is the
\* first frame the peer wrote, whole, never a part of it and never with
\* bytes of the next.
TcpDeliversFirstFrame ==
    tcpGot # <<>> => Len(peerWrote) >= 2 /\ tcpGot = FirstFrame(peerWrote)

====
