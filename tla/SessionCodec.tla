---------------------------- MODULE SessionCodec ----------------------------
(***************************************************************************)
(* A DNSCrypt exchange between cdns's client side (dns::crypt::resolver     *)
(* fold/unfold driving network::upstream, src/dns/crypt/srcz/encryptor.cpp) *)
(* and cdns's server side (cresponder::process/respond driving              *)
(* server::encryptor uncurve/curve, src/dns/crypt/srcz/server_crypt.cpp),   *)
(* over UDP.                                                               *)
(*                                                                         *)
(* Each client request has its own socket (its port) and its own session   *)
(* nonce; make_random gives every curve a fresh nonce, so a request is     *)
(* identified with its nonce.  Datagrams abstract the bytes to what the    *)
(* checks of the code tell apart: the port, whether the magic is right,    *)
(* the client nonce in the header, and the cipher the box was sealed with  *)
(* ("garbage" for a body nobody sealed).  The network loses, duplicates    *)
(* and reorders datagrams (a set that is never emptied), corrupts them,   *)
(* and an on-path host can re-address a genuine answer to another port.   *)
(* Nobody without the keys can seal a box.                                 *)
(*                                                                         *)
(* The two sides are two cdns processes.  An exception that no handler    *)
(* catches unwinds out of the libev loop: daemon::execute calls dl.run()  *)
(* with no catch, so that process ends (crashed).                          *)
(***************************************************************************)
EXTENDS Naturals, FiniteSets

CONSTANTS
    Requests,    \* the client's forwarded queries (each its port and nonce)
    CertCipher,  \* the cipher of the certificate the server publishes
    NoAnswer

VARIABLES
    client,   \* per request: "idle", "receiving", "answered", "failed"
    answer,   \* per request: the request whose answer the client accepted
    net,      \* genuine datagrams sent so far (never removed: resent at will)
    pending,  \* decrypted queries the server's responder has yet to answer
    served,   \* history: requests the server has answered
    crashed   \* the sides whose event loop an uncaught exception left

vars == <<client, answer, net, pending, served, crashed>>

Ciphers == {"xsalsa20poly1305", "xchacha20poly1305"}

Datagrams ==
    [to : {"server", "client"}, port : Requests, magic : BOOLEAN,
     nonce : Requests, box : Ciphers \cup {"garbage"}]

\* server::encryptor's constructors set es_version to {0, 0} whatever the
\* certificate loaded beside it says, so is_chacha is always false.
ServerCipher == "xsalsa20poly1305"

\* What can reach the socket of port `port' on side `to': a genuine datagram
\* for that side (again, in any order), possibly re-addressed to this port,
\* or a corrupted one whose body no longer opens.
Deliverable(to, port) ==
    { [d EXCEPT !.port = port] : d \in { e \in net : e.to = to } }
    \cup { d \in Datagrams : d.to = to /\ d.port = port /\ d.box = "garbage" }

-----------------------------------------------------------------------------
(* The checks of client encryptor::uncurve, in the code's order: response   *)
(* magic, then the session nonce, then the box opening (curve_uncurve).     *)
(* Each failure throws crypt_failure.                                       *)

OpensUnsealed(d, r) == d.magic /\ d.nonce = r

Opens(d, r) == d.magic /\ d.nonce = r /\ d.box = CertCipher

\* Server encryptor::uncurve: is_dnscrypt_message has already compared the
\* magic; beforenm and open_easy_afternm fail with runtime_error unless the
\* box was sealed with the server's cipher.
ServerOpens(d) == d.box = ServerCipher

-----------------------------------------------------------------------------

Init ==
    /\ client = [r \in Requests |-> "idle"]
    /\ answer = [r \in Requests |-> NoAnswer]
    /\ net = {}
    /\ pending = {}
    /\ served = {}
    /\ crashed = {}

\* upstream::on_send: fold (curve with a fresh session nonce, the
\* certificate's magic and cipher) and send; a net_error from the send is
\* caught and pass_failure_downstream answers SERVFAIL.
Send(r) ==
    /\ "client" \notin crashed
    /\ client[r] = "idle"
    /\ \/ /\ net' = net \cup {[to |-> "server", port |-> r, magic |-> TRUE,
                               nonce |-> r, box |-> CertCipher]}
          /\ client' = [client EXCEPT ![r] = "receiving"]
       \/ /\ client' = [client EXCEPT ![r] = "failed"]
          /\ UNCHANGED net
    /\ UNCHANGED <<answer, pending, served, crashed>>

\* upstream::on_receive: close(), unfold (uncurve against the session
\* nonce), pass_answer_downstream.  Only net_error is caught, so a
\* crypt_failure of uncurve leaves the loop.
Receive(r) ==
    /\ "client" \notin crashed
    /\ client[r] = "receiving"
    /\ \E d \in Deliverable("client", r) :
          IF Opens(d, r)
          THEN /\ client' = [client EXCEPT ![r] = "answered"]
               /\ answer' = [answer EXCEPT ![r] = d.nonce]
               /\ UNCHANGED crashed
          ELSE /\ crashed' = crashed \cup {"client"}
               /\ UNCHANGED <<client, answer>>
    /\ UNCHANGED <<net, pending, served>>

\* timeout::callback, or a receive net_error: the request is closed and the
\* client gets no DNSCrypt answer.
Abandon(r) ==
    /\ "client" \notin crashed
    /\ client[r] = "receiving"
    /\ client' = [client EXCEPT ![r] = "failed"]
    /\ UNCHANGED <<answer, net, pending, served, crashed>>

\* udplistener::make_incoming -> create_response -> cresponder::process.
\* Without the query magic the datagram goes to dns::responder::process as
\* plain DNS (the Responder module).  With it, uncurve runs with no handler
\* around it; a decrypted query is handed on, remembering the client nonce.
ServerReceive(p) ==
    /\ "server" \notin crashed
    /\ \E d \in Deliverable("server", p) :
          \/ /\ ~d.magic
             /\ UNCHANGED <<pending, crashed>>
          \/ /\ d.magic
             /\ ServerOpens(d)
             /\ pending' = pending \cup {[port |-> d.port, nonce |-> d.nonce]}
             /\ UNCHANGED crashed
          \/ /\ d.magic
             /\ ~ServerOpens(d)
             /\ crashed' = crashed \cup {"server"}
             /\ UNCHANGED pending
    /\ UNCHANGED <<client, answer, net, served>>

\* cresponder::respond: the resolved answer is curved with the client nonce
\* it was asked with and sent back to the port the query came from.
ServerRespond(x) ==
    /\ "server" \notin crashed
    /\ x \in pending
    /\ net' = net \cup {[to |-> "client", port |-> x.port, magic |-> TRUE,
                         nonce |-> x.nonce, box |-> ServerCipher]}
    /\ served' = served \cup {x.nonce}
    /\ pending' = pending \ {x}
    /\ UNCHANGED <<client, answer, crashed>>

Next ==
    \/ \E r \in Requests : Send(r) \/ Receive(r) \/ Abandon(r) \/ ServerReceive(r)
    \/ \E x \in pending : ServerRespond(x)

Spec == Init /\ [][Next]_vars

-----------------------------------------------------------------------------
(* Properties.                                                              *)

\* The client's view mapped onto the abstract exchange: a request answered
\* by the server while its client still waits is "served".
AbsStatus ==
    [r \in Requests |->
        CASE client[r] \in {"idle", "answered", "failed"} -> client[r]
          [] r \in served -> "served"
          [] OTHER -> "asked"]

Abstract == INSTANCE RequestReply WITH status <- AbsStatus

\* The exchange implements the abstract request/reply channel: a client is
\* answered only after the server served its request (uncurve accepts no
\* body the server did not seal).
ImplementsRequestReply == Abstract!Spec

\* A corrupted or forged datagram at either end is dropped, and neither
\* process dies of it: the exceptions thrown by the client's and the
\* server's uncurve are handled before they reach the event loop.
NoCrash == crashed = {}

=============================================================================
