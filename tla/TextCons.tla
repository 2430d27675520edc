------------------------------ MODULE TextCons ------------------------------
(***************************************************************************)
(* The text-console scraper of bhyve/textcons.c.  One server thread        *)
(* (textcons_thr) accepts a TCP client and runs textcons_handle: it        *)
(* publishes the client descriptor in rc->cfd, starts a writer thread      *)
(* (textcons_wr_thr) that pushes the text screen every 500 ms while        *)
(* rc->cfd >= 0, and itself reads key messages until read() returns        *)
(* <= 0; then it sets rc->cfd = -1, joins the writer and closes the        *)
(* descriptor.  The peer is an environment actor: it connects, sends       *)
(* bytes, shuts down its sending side, or closes.                          *)
(*                                                                         *)
(* Descriptors are numbers: accept() returns the lowest free one, so a     *)
(* descriptor closed by one session is the one the next session gets.     *)
(* A screen is one write step; its content is not modelled.  Key messages  *)
(* are the bytes console_key_event receives (keys).                        *)
(***************************************************************************)
EXTENDS Integers, Sequences, FiniteSets

CONSTANTS
    Conns,          \* the clients that connect, in order: 1..N
    Bytes,          \* bytes a client may send
    Garbage,        \* the byte an uninitialised buf[0] holds
    MaxSend,        \* bytes each client sends at most
    MaxAcceptErr,   \* accept() failures at most
    FdNums          \* descriptor numbers accept() may hand out

ASSUME Conns = 1..Cardinality(Conns) /\ Garbage \notin Bytes
ASSUME FdNums \subseteq Nat /\ FdNums # {}

NOFD == -1
BUFSZ == 16         \* sizeof(buf) in textcons_recv_key_msg

VARIABLES
    spc,        \* server thread: "accept" | "read" | "release" | "join" | "close",
                \* or textcons_init left none: "nolisten" | "nothread"
    scfd,       \* the server's cfd (accept's result)
    spawned,    \* pthread_create returned 0 (perror == 0)
    rc_cfd,     \* rc->cfd, shared with the writer without a lock
    wpc,        \* writer thread: "none" | "start" | "check" | "send" | "done"
    wfd,        \* the writer's local copy of rc->cfd
    wconn,      \* the client the writer was started for (0: none)
    fdconn,     \* open descriptor -> client it names
    acc,        \* clients accepted so far
    aerr,       \* accept() failures so far
    cst,        \* peer state per client
    inbuf,      \* bytes in flight from each client to the server
    nsent,      \* bytes each client has sent
    keys        \* bytes handed to console_key_event, in order

vars == <<spc, scfd, spawned, rc_cfd, wpc, wfd, wconn, fdconn, acc, aerr,
          cst, inbuf, nsent, keys>>

LowestFree == CHOOSE f \in FdNums \ DOMAIN fdconn :
                  \A g \in FdNums \ DOMAIN fdconn : f <= g

\* fdconn with descriptor fd added or removed
OpenFd(fd, c) == [x \in DOMAIN fdconn \cup {fd} |-> IF x = fd THEN c ELSE fdconn[x]]
CloseFd(fd) == [x \in DOMAIN fdconn \ {fd} |-> fdconn[x]]

(***************************************************************************)
(* Server thread.                                                          *)
(***************************************************************************)

\* textcons_handle up to the read loop: rc->cfd = cfd and pthread_create,
\* which may fail and leave no writer.  Nothing else runs in between: the
\* previous writer has been joined.
Handle(cfd, c) ==
    /\ rc_cfd' = cfd
    /\ \E ok \in BOOLEAN :
          /\ spawned' = ok
          /\ wpc' = IF ok THEN "start" ELSE "none"
    /\ wconn' = c
    /\ spc' = "read"

\* accept() hands out the next connected client on the lowest free
\* descriptor, then textcons_handle starts.
Accept ==
    /\ spc = "accept"
    /\ acc + 1 \in Conns
    /\ cst[acc + 1] # "none"
    /\ FdNums \ DOMAIN fdconn # {}
    /\ acc' = acc + 1
    /\ scfd' = LowestFree
    /\ fdconn' = OpenFd(LowestFree, acc + 1)
    /\ Handle(LowestFree, acc + 1)
    /\ UNCHANGED <<wfd, aerr, cst, inbuf, nsent, keys>>

\* accept() fails (ECONNABORTED, EMFILE, ...); the loop still calls
\* textcons_handle(rc, -1).
AcceptFail ==
    /\ spc = "accept"
    /\ aerr < MaxAcceptErr
    /\ aerr' = aerr + 1
    /\ scfd' = NOFD
    /\ Handle(NOFD, 0)
    /\ UNCHANGED <<wfd, fdconn, acc, cst, inbuf, nsent, keys>>

\* Mutant: the buffer itself is passed where buf[0] is meant.
KeyOfBuf(bytes) == bytes

\* The byte console_key_event is given for the bytes read.
KeyOf(bytes) == Head(bytes)

\* textcons_recv_key_msg: read() up to 16 bytes, press and release buf[0].
\* On 0 or -1 buf is never written and buf[0] is whatever the stack holds;
\* the key event is sent anyway and the loop then ends.  A read on an open
\* client with nothing in flight blocks.
RecvKeyMsg ==
    /\ spc = "read"
    /\ LET c == IF scfd \in DOMAIN fdconn THEN fdconn[scfd] ELSE 0 IN
       \/ /\ c # 0
          /\ inbuf[c] # <<>>
          /\ \E n \in 1..BUFSZ :
                /\ n <= Len(inbuf[c])
                /\ keys' = Append(keys, KeyOf(SubSeq(inbuf[c], 1, n)))
                /\ inbuf' = [inbuf EXCEPT ![c] = SubSeq(@, n + 1, Len(@))]
          /\ UNCHANGED spc
       \/ /\ c # 0 => inbuf[c] = <<>> /\ cst[c] # "open"
          /\ keys' = Append(keys, Garbage)
          /\ spc' = "release"
          /\ UNCHANGED inbuf
    /\ UNCHANGED <<scfd, spawned, rc_cfd, wpc, wfd, wconn, fdconn, acc, aerr,
                   cst, nsent>>

\* Mutant: the writer is not joined before close(cfd).
ReleaseNoJoin ==
    /\ spc = "release"
    /\ rc_cfd' = NOFD
    /\ spc' = "close"
    /\ UNCHANGED <<scfd, spawned, wpc, wfd, wconn, fdconn, acc, aerr, cst,
                   inbuf, nsent, keys>>

\* Mutant: rc->cfd is left at the client's descriptor.
ReleaseKeepCfd ==
    /\ spc = "release"
    /\ spc' = IF spawned THEN "join" ELSE "close"
    /\ UNCHANGED <<scfd, spawned, rc_cfd, wpc, wfd, wconn, fdconn, acc, aerr,
                   cst, inbuf, nsent, keys>>

\* After the loop: rc->cfd = -1, then join the writer if one was started.
Release ==
    /\ spc = "release"
    /\ rc_cfd' = NOFD
    /\ spc' = IF spawned THEN "join" ELSE "close"
    /\ UNCHANGED <<scfd, spawned, wpc, wfd, wconn, fdconn, acc, aerr, cst,
                   inbuf, nsent, keys>>

\* pthread_join blocks until the writer has returned.
Join ==
    /\ spc = "join"
    /\ wpc = "done"
    /\ wpc' = "none"
    /\ spc' = "close"
    /\ UNCHANGED <<scfd, spawned, rc_cfd, wfd, wconn, fdconn, acc, aerr, cst,
                   inbuf, nsent, keys>>

\* close(cfd) back in textcons_thr (close(-1) fails harmlessly).
Close ==
    /\ spc = "close"
    /\ fdconn' = CloseFd(scfd)
    /\ spc' = "accept"
    /\ UNCHANGED <<scfd, spawned, rc_cfd, wpc, wfd, wconn, acc, aerr, cst,
                   inbuf, nsent, keys>>

(***************************************************************************)
(* Writer thread.                                                          *)
(***************************************************************************)

\* cfd = rc->cfd, read once when the thread starts.
WriterStart ==
    /\ wpc = "start"
    /\ wfd' = rc_cfd
    /\ wpc' = "check"
    /\ UNCHANGED <<spc, scfd, spawned, rc_cfd, wconn, fdconn, acc, aerr, cst,
                   inbuf, nsent, keys>>

\* while (rc->cfd >= 0): the shared value, read again on every pass.
WriterCheck ==
    /\ wpc = "check"
    /\ wpc' = IF rc_cfd >= 0 THEN "send" ELSE "done"
    /\ UNCHANGED <<spc, scfd, spawned, rc_cfd, wfd, wconn, fdconn, acc, aerr,
                   cst, inbuf, nsent, keys>>

\* A write to the local cfd fails when the descriptor is closed or the
\* client has gone (EPIPE: textcons_thr blocked SIGPIPE, and the writer
\* inherits its mask).
WriteFails == wfd \notin DOMAIN fdconn \/ cst[fdconn[wfd]] = "closed"

\* textcons_send_screen, then usleep(500000); a failed write ends the thread.
SendScreen ==
    /\ wpc = "send"
    /\ wpc' = IF WriteFails THEN "done" ELSE "check"
    /\ UNCHANGED <<spc, scfd, spawned, rc_cfd, wfd, wconn, fdconn, acc, aerr,
                   cst, inbuf, nsent, keys>>

(***************************************************************************)
(* The peer (not bhyve code).                                              *)
(***************************************************************************)

ClientConnect(c) ==
    /\ cst[c] = "none"
    /\ c > 1 => cst[c - 1] # "none"
    /\ spc # "nolisten"      \* else connect() is refused
    /\ cst' = [cst EXCEPT ![c] = "open"]
    /\ UNCHANGED <<spc, scfd, spawned, rc_cfd, wpc, wfd, wconn, fdconn, acc,
                   aerr, inbuf, nsent, keys>>

ClientSend(c, b) ==
    /\ cst[c] = "open"
    /\ nsent[c] < MaxSend
    /\ inbuf' = [inbuf EXCEPT ![c] = Append(@, b)]
    /\ nsent' = [nsent EXCEPT ![c] = @ + 1]
    /\ UNCHANGED <<spc, scfd, spawned, rc_cfd, wpc, wfd, wconn, fdconn, acc,
                   aerr, cst, keys>>

\* shutdown(SHUT_WR): the client stops sending but still reads screens.
ClientShutdown(c) ==
    /\ cst[c] = "open"
    /\ cst' = [cst EXCEPT ![c] = "halfclosed"]
    /\ UNCHANGED <<spc, scfd, spawned, rc_cfd, wpc, wfd, wconn, fdconn, acc,
                   aerr, inbuf, nsent, keys>>

ClientClose(c) ==
    /\ cst[c] \in {"open", "halfclosed"}
    /\ cst' = [cst EXCEPT ![c] = "closed"]
    /\ UNCHANGED <<spc, scfd, spawned, rc_cfd, wpc, wfd, wconn, fdconn, acc,
                   aerr, inbuf, nsent, keys>>

\* textcons_init has bound and listened and started textcons_thr.
\* textcons_init (202-267), whose result microbios.c:87 ignores: a failed
\* getaddrinfo, socket, bind or listen returns -1 with no thread and nothing
\* listening ("nolisten"); pthread_create's result is not checked, so the
\* socket may listen with no thread to accept ("nothread").
Init ==
    /\ spc \in {"accept", "nolisten", "nothread"}
    /\ scfd = NOFD
    /\ spawned = FALSE
    /\ rc_cfd = 0          \* calloc'ed softc
    /\ wpc = "none"
    /\ wfd = NOFD
    /\ wconn = 0
    /\ fdconn = <<>>
    /\ acc = 0
    /\ aerr = 0
    /\ cst = [c \in Conns |-> "none"]
    /\ inbuf = [c \in Conns |-> <<>>]
    /\ nsent = [c \in Conns |-> 0]
    /\ keys = <<>>

Server == Accept \/ AcceptFail \/ RecvKeyMsg \/ Release \/ Join \/ Close
Writer == WriterStart \/ WriterCheck \/ SendScreen
Peer == \E c \in Conns :
            \/ ClientConnect(c) \/ ClientShutdown(c) \/ ClientClose(c)
            \/ \E b \in Bytes : ClientSend(c, b)

Next == Server \/ Writer \/ Peer

\* Both threads are scheduled fairly; the peer owes nothing.
Spec == Init /\ [][Next]_vars /\ WF_vars(Server) /\ WF_vars(Writer)

(***************************************************************************)
(* Properties.                                                             *)
(***************************************************************************)

OpenConns == {fdconn[x] : x \in DOMAIN fdconn}

TypeOK ==
    /\ spc \in {"accept", "read", "release", "join", "close", "nolisten", "nothread"}
    /\ wpc \in {"none", "start", "check", "send", "done"}
    /\ {scfd, wfd} \subseteq FdNums \cup {NOFD}
    /\ rc_cfd \in FdNums \cup {NOFD, 0}
    /\ spawned \in BOOLEAN
    /\ wconn \in Conns \cup {0}
    /\ DOMAIN fdconn \subseteq FdNums /\ OpenConns \subseteq Conns
    /\ acc \in 0..Cardinality(Conns) /\ aerr \in 0..MaxAcceptErr
    /\ cst \in [Conns -> {"none", "open", "halfclosed", "closed"}]
    /\ inbuf \in [Conns -> Seq(Bytes)]
    /\ nsent \in [Conns -> 0..MaxSend]
    /\ keys \in Seq(Bytes \cup {Garbage})

(***************************************************************************)
(* A screen goes only to the client its writer was started for: whenever   *)
(* textcons_wr_thr is about to write, its local cfd is open and names that *)
(* client, never a closed descriptor or one accept() has since handed to   *)
(* the next client, and a writer started after a failed accept never       *)
(* writes.  This rests on textcons_handle setting rc->cfd before           *)
(* pthread_create, and on textcons_thr closing cfd only after the join.    *)
(***************************************************************************)
ScreenGoesToItsClient ==
    wpc = "send" => /\ wfd \in DOMAIN fdconn
                    /\ fdconn[wfd] = wconn
                    /\ wconn # 0

(***************************************************************************)
(* A client that has stopped sending (shutdown or close) is eventually     *)
(* let go: the reader drains its bytes and sees read() = 0, the writer     *)
(* sees rc->cfd = -1 and returns even though the client still reads, the   *)
(* join completes and the descriptor is closed, with no writer left.       *)
(***************************************************************************)
HungUpClientReleased ==
    \A c \in Conns :
        (c \in OpenConns /\ cst[c] # "open")
            ~> (c \notin OpenConns /\ wpc = "none")

=============================================================================
