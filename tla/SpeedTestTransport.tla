-------------------------- MODULE SpeedTestTransport --------------------------
(***************************************************************************)
(* The connections of a speed test (core/speed_test_transport.go): TCP     *)
(* connections, UDP sockets and HTTP clients, each of which is made without*)
(* the lock and registered under it, while the test may be closed.         *)
(***************************************************************************)
EXTENDS Naturals, FiniteSets, FiniteSetsExt

CONSTANTS Dials   \* connections, sockets and clients that are made

VARIABLES
    conn,     \* dial -> its kind, place, serial and chains
    known,    \* conns, packets and clients: what is registered
    serial, last, chains,
    closed,   \* speedTestTransport.closed
    closing,  \* what close has still to close
    cancelled, \* the context
    seen      \* history: serials that were recorded with their chains

vars == <<conn, known, serial, last, chains, closed, closing, cancelled, seen>>

Init ==
    /\ conn \in [Dials -> [kind : {"tcp", "udp", "client"}, pc : {"none"}, serial : {0}, chains : {0}]]
    /\ known = {} /\ serial = 0 /\ last = 0 /\ chains = 0
    /\ closed = FALSE /\ closing = {} /\ cancelled = FALSE /\ seen = {}

\* Mutant: the chains of the connection recorded last count.
MutRecordLocked(c, n) ==
    IF c # 0 THEN last' = n /\ chains' = c /\ seen' = seen \cup {n}
             ELSE UNCHANGED <<last, chains, seen>>

\* recordLocked: the chains of the newest connection count; chains are the
\* number of the connection they are of, 0 while its route is not known.
recordLocked(c, n) ==
    IF c # 0 /\ n >= last
      THEN last' = n /\ chains' = c /\ seen' = seen \cup {n}
      ELSE UNCHANGED <<last, chains>> /\ seen' = IF c # 0 THEN seen \cup {n} ELSE seen

\* dial, listenUDP and newClient, up to an open connection: a context that is
\* over dials no more, but a client is made all the same.
Dial(d) ==
    /\ conn[d].pc = "none"
    /\ conn[d].kind = "client" \/ ~cancelled
    /\ conn' = [conn EXCEPT ![d].pc = "open"]
    /\ UNCHANGED <<known, serial, last, chains, closed, closing, cancelled, seen>>

\* Mutant: a connection is registered without a look at closed.
MutRegister(d) ==
    /\ conn[d].pc = "open"
    /\ conn' = [conn EXCEPT ![d].pc = "known", ![d].serial = serial + 1]
    /\ known' = known \cup {d} /\ serial' = serial + 1
    /\ UNCHANGED <<last, chains, closed, closing, cancelled, seen>>

\* The rest of them, under the lock: closed already, it is closed at once.
\* The chains of a UDP socket are known, those of a TCP connection are not.
Register(d) ==
    /\ conn[d].pc = "open"
    /\ IF closed \/ (cancelled /\ conn[d].kind # "client")
         THEN /\ conn' = [conn EXCEPT ![d].pc = "closed"]
              /\ UNCHANGED <<known, serial, last, chains, seen>>
       ELSE IF conn[d].kind = "client"
         THEN /\ conn' = [conn EXCEPT ![d].pc = "known"]
              /\ known' = known \cup {d}
              /\ UNCHANGED <<serial, last, chains, seen>>
       ELSE /\ serial' = serial + 1
            /\ known' = known \cup {d}
            /\ conn' = [conn EXCEPT ![d] = [kind |-> conn[d].kind, pc |-> "known",
                                            serial |-> serial + 1, chains |-> conn[d].chains]]
            /\ recordLocked(IF conn[d].kind = "udp" THEN serial + 1 ELSE 0, serial + 1)
    /\ UNCHANGED <<closed, closing, cancelled>>

\* External: mihomo reports the route of a connection.
Routed(d) ==
    /\ conn[d].kind = "tcp" /\ conn[d].pc = "known" /\ conn[d].chains = 0
    /\ conn' = [conn EXCEPT ![d].chains = conn[d].serial]
    /\ UNCHANGED <<known, serial, last, chains, closed, closing, cancelled, seen>>

\* evidence observes an open connection.
observe(d) ==
    /\ conn[d].kind = "tcp" /\ conn[d].pc = "known"
    /\ recordLocked(conn[d].chains, conn[d].serial)
    /\ UNCHANGED <<conn, known, serial, closed, closing, cancelled>>

\* Close, once: by HTTP, by the end of the QUIC connection, or by close.
Close(d) ==
    /\ conn[d].pc = "known"
    /\ conn' = [conn EXCEPT ![d].pc = "closed"]
    /\ known' = known \ {d}
    /\ IF conn[d].kind = "tcp" THEN recordLocked(conn[d].chains, conn[d].serial)
                               ELSE UNCHANGED <<last, chains, seen>>
    /\ closing' = closing \ {d}
    /\ UNCHANGED <<serial, closed, cancelled>>

\* speedTestTransport.close: cancel, then the flag and the copies under the
\* lock; the copies are closed by Close afterwards.
cancelContext == ~cancelled /\ cancelled' = TRUE
                 /\ UNCHANGED <<conn, known, serial, last, chains, closed, closing, seen>>
close ==
    /\ cancelled /\ ~closed
    /\ closed' = TRUE /\ closing' = known
    /\ UNCHANGED <<conn, known, serial, last, chains, cancelled, seen>>

Next ==
    \/ \E d \in Dials : Dial(d) \/ Register(d) \/ Routed(d) \/ observe(d) \/ Close(d)
    \/ cancelContext \/ close

Spec == Init /\ [][Next]_vars

-----------------------------------------------------------------------------

(* NothingLeaks: once close has gone through its copies, whatever is still  *)
(* open is about to be registered and will find the transport closed: no    *)
(* connection, socket or client outlives the test unknown to it.            *)
NothingLeaks ==
    /\ closed => \A d \in known : d \in closing
    /\ \A d \in Dials : conn[d].pc = "known" <=> d \in known

(* ChainsAreNewest: the chains shown are those of the newest connection     *)
(* whose route has been recorded, in whatever order the connections closed. *)
ChainsAreNewest == seen # {} => chains = Max(seen) /\ last = Max(seen)

(* TransportIsTraced: dials, registrations, records and the close of the    *)
(* transport leave no connection behind and no stale route shown.           *)
TransportIsTraced == NothingLeaks /\ ChainsAreNewest
=============================================================================
