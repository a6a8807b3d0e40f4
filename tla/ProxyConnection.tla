--------------------------- MODULE ProxyConnection ---------------------------
(***************************************************************************)
(* One connection through the HTTP proxies and the TCP bridge of           *)
(* runtime/proxy-stack (iphone_lan_split_proxy.py,                         *)
(* phone_egress_http_proxy.py and lan_tcp_bridge.py), or through the LAN   *)
(* proxy child of the agent (agent/lan_proxy_child.py).                    *)
(*                                                                         *)
(* A thread serves a connection by one of the paths of the code:           *)
(*   connect_direct  CONNECT, the proxy answers it itself, then a tunnel   *)
(*   connect_proxy   CONNECT, forwarded to the upstream proxy, then a      *)
(*                   tunnel                                                *)
(*   http_tunnel     a plain request forwarded as it came, then a tunnel   *)
(*   http_direct     a plain request rewritten for the origin server, then *)
(*                   its response                                          *)
(*   bridge          lan_tcp_bridge.py: a tunnel and nothing else          *)
(*   lan_child       lan_proxy_child.py: likewise, with a timeout          *)
(*                                                                         *)
(* The peers are the client and the remote (origin server or upstream      *)
(* proxy).  A stream is a number of units sent, taken by the proxy, put    *)
(* into the other socket, and got there; the head of a request, the reply  *)
(* to a CONNECT and the proxy's own pages are not counted.  One action is  *)
(* one system call of the thread or one act of a peer.                     *)
(***************************************************************************)
EXTENDS Integers

CONSTANTS
    Paths,      \* the paths looked at
    Cap,        \* units a socket buffer holds
    Chunk,      \* units one recv returns at most
    BodyTotal,  \* units of the body of a plain request
    UpTotal,    \* units of the client's stream in a tunnel
    DownTotal,  \* units of the remote's stream
    EarlyData   \* may a client send before its CONNECT is answered?

AllPaths == {"connect_direct", "connect_proxy", "http_tunnel", "http_direct", "bridge",
             "lan_child"}

ASSUME ProxyAssumption ==
    /\ Paths \subseteq AllPaths
    /\ Cap \in Nat \ {0} /\ Chunk \in Nat \ {0}
    /\ BodyTotal \in Nat /\ UpTotal \in Nat /\ DownTotal \in Nat
    /\ EarlyData \in BOOLEAN

VARIABLES
    path, pc,
    sent, taken, put, got,  \* units of each stream, see above
    held,    \* units taken and to be written next
    lost,    \* units taken and never written
    asked,   \* has the client sent the head of its request?
    reply,   \* the upstream's reply to the CONNECT: "none", "ok", "refused"
    shut,    \* peers that have finished their stream
    gone,    \* peers whose connection was reset
    ready,   \* peers select found readable and the loop has not come to yet
    answer,  \* what the proxy itself told the client: "none", "open" (a 200),
             \* "page" (an error page), "late" (an error page after something else)
    why      \* why the thread gave up or ended

streams == <<sent, taken, put, got, held, lost>>
peers   == <<asked, reply, shut, gone>>
vars    == <<path, pc, streams, peers, ready, answer, why>>

Dirs  == {"up", "down"}
Peers == {"client", "remote"}
From(d) == IF d = "up" THEN "client" ELSE "remote"
To(d)   == IF d = "up" THEN "remote" ELSE "client"
Stream(peer) == IF peer = "client" THEN "up" ELSE "down"
Plain == path \in {"http_tunnel", "http_direct"}
Raw == path \in {"bridge", "lan_child"}     \* there is no head
Total(d) ==
    IF d = "down" THEN DownTotal ELSE IF Plain THEN BodyTotal ELSE UpTotal

Least(m, n) == IF m < n THEN m ELSE n
Waiting(d) == sent[d] - taken[d]         \* units the proxy can read
Room(d)    == Cap - (put[d] - got[d])    \* units it can write at once
Add(f, d, n) == [f EXCEPT ![d] = @ + n]
At(label) == pc = label

----------------------------------------------------------------------------
(* The peers *)

Linked == pc \notin {"head", "open", "closed"}
Alive(peer) == peer \notin gone /\ IF peer = "client" THEN ~At("closed") ELSE Linked

\* A client sends the body of a plain request with its head, and tunnel data
\* once the tunnel is open; a server answers a plain request it has whole.
MaySend(d) ==
    IF d = "up"
    THEN asked /\ (path \notin {"connect_direct", "connect_proxy"} \/ EarlyData \/ answer = "open")
    ELSE CASE path = "connect_proxy" -> reply = "ok"
           [] Plain -> ~At("forward") /\ got["up"] = BodyTotal
           [] OTHER -> TRUE

CanSend(d) == /\ Alive(From(d)) /\ From(d) \notin shut
              /\ sent[d] < Total(d) /\ Waiting(d) < Cap /\ MaySend(d)
CanGet(d)  == Alive(To(d)) /\ got[d] < put[d]
CanReply   == At("await") /\ reply = "none" /\ "remote" \notin gone
CanShut(peer) ==
    /\ Alive(peer) /\ peer \notin shut
    /\ sent[Stream(peer)] = Total(Stream(peer)) /\ MaySend(Stream(peer))

Send(d) == CanSend(d) /\ sent' = Add(sent, d, 1)
           /\ UNCHANGED <<path, pc, taken, put, got, held, lost, peers, ready, answer, why>>

Get(d) == CanGet(d) /\ got' = Add(got, d, 1)
          /\ UNCHANGED <<path, pc, sent, taken, put, held, lost, peers, ready, answer, why>>

Ask == /\ ~asked /\ Alive("client") /\ "client" \notin shut
       /\ asked' = TRUE
       /\ UNCHANGED <<path, pc, streams, reply, shut, gone, ready, answer, why>>

Reply == /\ CanReply
         /\ reply' \in {"ok", "refused"}
         /\ UNCHANGED <<path, pc, streams, asked, shut, gone, ready, answer, why>>

\* A peer ends its stream once it is complete; a client may also do so instead
\* of asking.
Shut(peer) == /\ \/ CanShut(peer)
                 \/ peer = "client" /\ ~asked /\ Alive("client") /\ peer \notin shut
              /\ shut' = shut \cup {peer}
              /\ UNCHANGED <<path, pc, streams, asked, reply, gone, ready, answer, why>>

Leave(peer) == /\ Alive(peer)
               /\ gone' = gone \cup {peer}
               /\ UNCHANGED <<path, pc, streams, asked, reply, shut, ready, answer, why>>

----------------------------------------------------------------------------
(* The thread *)

Close(reason) == pc' = "closed" /\ why' = reason
Fail(reason)  == pc' = "fail" /\ why' = reason

\* A client outside the allowed networks, or a malformed request.
Refuse ==
    /\ At("head") /\ ~Raw
    /\ "client" \notin gone
    /\ Close("refused") /\ answer' = "page"
    /\ UNCHANGED <<path, streams, peers, ready>>

\* recv_headers: what came in with the end of the head is taken with it.
ReadHead ==
    /\ At("head")
    /\ asked /\ "client" \notin gone
    /\ \E n \in 0..Waiting("up") :
          taken' = Add(taken, "up", n) /\ held' = Add(held, "up", n)
    /\ pc' = "open"
    /\ UNCHANGED <<path, sent, put, got, lost, peers, ready, answer, why>>

HeadEnds ==
    /\ At("head")
    /\ \/ "client" \in gone /\ Fail("gone")
       \/ "client" \in shut \ gone /\ ~asked /\ Close("client")
    /\ UNCHANGED <<path, streams, peers, ready, answer>>

\* open_direct, open_upstream, open_remote, or create_connection in the bridge
\* and the child, which have no page to send.
Open ==
    /\ At("open")
    /\ \/ /\ pc' = CASE path = "connect_direct" -> "establish"
                     [] Raw -> "tunnel"
                     [] OTHER -> "forward"
          /\ UNCHANGED why
       \/ IF Raw THEN Close("open") ELSE Fail("open")
    /\ UNCHANGED <<path, streams, peers, ready, answer>>

\* A direct CONNECT: a 200 of the proxy's own; what came with the head is
\* forgotten.
Establish ==
    /\ At("establish")
    /\ IF "client" \in gone
       THEN Fail("gone") /\ UNCHANGED <<held, lost, answer>>
       ELSE /\ answer' = "open"
            /\ lost' = Add(lost, "up", held["up"])
            /\ held' = [held EXCEPT !["up"] = 0]
            /\ pc' = "tunnel" /\ UNCHANGED why
    /\ UNCHANGED <<path, sent, taken, put, got, peers, ready>>

\* remote.sendall of the request as it came, or of its rewritten head with the
\* part of the body that came with it.
Forward ==
    /\ At("forward")
    /\ IF "remote" \in gone
       THEN Fail("gone") /\ UNCHANGED <<put, held>>
       ELSE /\ put' = Add(put, "up", held["up"])
            /\ held' = [held EXCEPT !["up"] = 0]
            /\ pc' = CASE path = "connect_proxy" -> "await"
                       [] path = "http_direct" -> "respond"
                       [] OTHER -> "tunnel"
            /\ UNCHANGED why
    /\ UNCHANGED <<path, sent, taken, got, lost, peers, ready, answer>>

\* Mutant: the reply is passed on before its status is looked at.
ReadReply_PassFirst ==
    /\ At("await")
    /\ \/ /\ reply # "none" /\ "remote" \notin gone
          /\ \E n \in 0..Waiting("down") :
                taken' = Add(taken, "down", n) /\ put' = Add(put, "down", n)
          /\ answer' = "open"
          /\ IF reply = "ok" THEN pc' = "tunnel" /\ UNCHANGED why ELSE Fail("refused")
       \/ "remote" \in gone /\ Fail("gone") /\ UNCHANGED <<taken, put, answer>>
       \/ reply = "none" /\ Fail("timeout") /\ UNCHANGED <<taken, put, answer>>
    /\ UNCHANGED <<path, sent, got, held, lost, peers, ready>>

\* Mutant: only the head of the reply is passed on.
ReadReply_HeadOnly ==
    /\ At("await")
    /\ \/ /\ reply = "ok" /\ {"client", "remote"} \cap gone = {}
          /\ \E n \in 0..Waiting("down") :
                taken' = Add(taken, "down", n) /\ lost' = Add(lost, "down", n)
          /\ answer' = "open" /\ pc' = "tunnel" /\ UNCHANGED why
       \/ /\ \/ reply = "ok" /\ "client" \in gone /\ Fail("gone")
             \/ reply = "refused" /\ Fail("refused")
             \/ "remote" \in gone /\ Fail("gone")
             \/ reply = "none" /\ Fail("timeout")
          /\ UNCHANGED <<taken, lost, answer>>
    /\ UNCHANGED <<path, sent, put, got, held, peers, ready>>

\* recv_headers from the upstream proxy: a 200 is passed on with everything
\* that came with it, anything else ends the request.
ReadReply ==
    /\ At("await")
    /\ \/ /\ reply = "ok" /\ {"client", "remote"} \cap gone = {}
          /\ \E n \in 0..Waiting("down") :
                taken' = Add(taken, "down", n) /\ put' = Add(put, "down", n)
          /\ answer' = "open" /\ pc' = "tunnel" /\ UNCHANGED why
       \/ /\ \/ reply = "ok" /\ "client" \in gone /\ Fail("gone")
             \/ reply = "refused" /\ Fail("refused")
             \/ "remote" \in gone /\ Fail("gone")
             \/ reply = "none" /\ Fail("timeout")
          /\ UNCHANGED <<taken, put, answer>>
    /\ UNCHANGED <<path, sent, got, held, lost, peers, ready>>

\* The loop of handle_http over the response: remote.recv, which times out ...
Respond ==
    /\ At("respond")
    /\ \/ /\ Waiting("down") > 0 /\ "remote" \notin gone
          /\ LET n == Least(Chunk, Waiting("down"))
             IN  taken' = Add(taken, "down", n) /\ held' = Add(held, "down", n)
          /\ pc' = "relay" /\ UNCHANGED why
       \/ /\ \/ "remote" \in gone /\ Fail("gone")
             \/ /\ Waiting("down") = 0 /\ "remote" \notin gone
                /\ IF "remote" \in shut THEN Close("remote") ELSE Fail("timeout")
          /\ UNCHANGED <<taken, held>>
    /\ UNCHANGED <<path, sent, put, got, lost, peers, ready, answer>>

\* ... and self.request.sendall, which waits for the client for ever.
Relay ==
    /\ At("relay")
    /\ IF "client" \in gone
       THEN Fail("gone") /\ UNCHANGED <<put, held>>
       ELSE /\ Room("down") > 0
            /\ LET n == Least(Room("down"), held["down"])
               IN  /\ put' = Add(put, "down", n)
                   /\ held' = [held EXCEPT !["down"] = @ - n]
                   /\ pc' = IF n = held["down"] THEN "respond" ELSE "relay"
            /\ UNCHANGED why
    /\ UNCHANGED <<path, sent, taken, got, lost, peers, ready, answer>>

Readable == {peer \in Peers : Waiting(Stream(peer)) > 0 \/ peer \in shut \cup gone}

\* Mutant: select without a timeout.
Select_Forever ==
    /\ At("tunnel")
    /\ Readable # {} /\ ready' = Readable /\ pc' = "serve"
    /\ UNCHANGED <<path, streams, peers, answer, why>>

\* The tunnel's select; the bridge has no timeout.
Select ==
    /\ At("tunnel")
    /\ \/ Readable # {} /\ ready' = Readable /\ pc' = "serve" /\ UNCHANGED why
       \/ Readable = {} /\ path # "bridge" /\ Close("timeout") /\ UNCHANGED ready
    /\ UNCHANGED <<path, streams, peers, answer>>

\* Mutant: the loop goes on after a write that took part of the data.
ServePeer_DropsRest(peer) ==
    LET d == Stream(peer)
        n == Least(Chunk, Waiting(d))
        m == IF To(d) \in gone THEN 0 ELSE Least(n, Room(d))
        rest == ready \ {peer}
    IN  /\ At("serve") /\ peer \in ready
        /\ path # "bridge" /\ "client" \in ready => peer = "client"
        /\ IF peer \in gone \/ n = 0
           THEN /\ Close(IF peer \in gone THEN "gone" ELSE peer)
                /\ UNCHANGED <<taken, put, lost>> /\ ready' = {}
           ELSE /\ taken' = Add(taken, d, n) /\ put' = Add(put, d, m)
                /\ lost' = Add(lost, d, n - m)
                /\ ready' = rest /\ UNCHANGED why
                /\ pc' = IF rest = {} THEN "tunnel" ELSE "serve"
        /\ UNCHANGED <<path, sent, got, held, peers, answer>>

\* Mutant: a peer that has finished ends the tunnel at once.
ServePeer_HangUp(peer) ==
    LET d == Stream(peer)
        n == Least(Chunk, Waiting(d))
        m == IF To(d) \in gone THEN 0 ELSE Least(n, Room(d))
        rest == ready \ {peer}
    IN  /\ At("serve") /\ peer \in ready
        /\ IF peer \in gone \cup shut
           THEN /\ Close(IF peer \in gone THEN "gone" ELSE peer)
                /\ UNCHANGED <<taken, put, lost>> /\ ready' = {}
           ELSE /\ taken' = Add(taken, d, n) /\ put' = Add(put, d, m)
                /\ lost' = Add(lost, d, n - m)
                /\ IF m < n
                   THEN Close(IF To(d) \in gone THEN "gone" ELSE "full") /\ ready' = {}
                   ELSE /\ ready' = rest /\ UNCHANGED why
                        /\ pc' = IF rest = {} THEN "tunnel" ELSE "serve"
        /\ UNCHANGED <<path, sent, got, held, peers, answer>>

\* One round of the loop over the readable sockets: recv, then sendall on a
\* socket that does not block, which gives up when the buffer is full.  Either
\* peer's end of stream ends the tunnel, both directions of it.
ServePeer(peer) ==
    LET d == Stream(peer)
        n == Least(Chunk, Waiting(d))
        m == IF To(d) \in gone THEN 0 ELSE Least(n, Room(d))
        rest == ready \ {peer}
    IN  /\ At("serve") /\ peer \in ready
        /\ path # "bridge" /\ "client" \in ready => peer = "client"
        /\ IF peer \in gone \/ n = 0
           THEN /\ Close(IF peer \in gone THEN "gone" ELSE peer)
                /\ UNCHANGED <<taken, put, lost>> /\ ready' = {}
           ELSE /\ taken' = Add(taken, d, n) /\ put' = Add(put, d, m)
                /\ lost' = Add(lost, d, n - m)
                /\ IF m < n
                   THEN Close(IF To(d) \in gone THEN "gone" ELSE "full") /\ ready' = {}
                   ELSE /\ ready' = rest /\ UNCHANGED why
                        /\ pc' = IF rest = {} THEN "tunnel" ELSE "serve"
        /\ UNCHANGED <<path, sent, got, held, peers, answer>>

\* fail(): an error page, unless the client is gone; it may wait for the
\* client to make room.
SendPage ==
    /\ At("fail")
    /\ \/ "client" \in gone /\ UNCHANGED answer
       \/ /\ "client" \notin gone /\ Room("down") > 0
          /\ answer' = IF answer = "none" /\ put["down"] = 0 THEN "page" ELSE "late"
    /\ pc' = "closed"
    /\ UNCHANGED <<path, streams, peers, ready, why>>

----------------------------------------------------------------------------
Zero == [d \in Dirs |-> 0]

Init ==
    /\ path \in Paths
    /\ pc = IF Raw THEN "open" ELSE "head"
    /\ sent = Zero /\ taken = Zero /\ put = Zero /\ got = Zero
    /\ held = Zero /\ lost = Zero
    /\ asked = Raw
    /\ reply = "none" /\ shut = {} /\ gone = {}
    /\ ready = {} /\ answer = "none" /\ why = "none"

Thread ==
    \/ Refuse \/ ReadHead \/ HeadEnds \/ Open \/ Establish \/ Forward
    \/ ReadReply \/ Respond \/ Relay \/ Select \/ SendPage
    \/ \E peer \in Peers : ServePeer(peer)

PeerActs ==
    \/ Ask \/ Reply
    \/ \E d \in Dirs : Send(d) \/ Get(d)
    \/ \E peer \in Peers : Shut(peer) \/ Leave(peer)

Next == Thread \/ PeerActs

Spec == Init /\ [][Next]_vars

\* The thread runs, and its timers fire; nothing is assumed of the peers.
FairSpec == Spec /\ WF_vars(Thread)

----------------------------------------------------------------------------
(* Properties *)

PcValues == {"head", "open", "establish", "forward", "await", "respond", "relay",
             "tunnel", "serve", "fail", "closed"}

TypeOK ==
    /\ path \in Paths /\ pc \in PcValues
    /\ \A f \in {sent, taken, put, got, held, lost} : f \in [Dirs -> Nat]
    /\ asked \in BOOLEAN /\ reply \in {"none", "ok", "refused"}
    /\ shut \subseteq Peers /\ gone \subseteq Peers /\ ready \subseteq Peers
    /\ answer \in {"none", "open", "page", "late"}
    /\ why \in Peers \cup {"none", "refused", "open", "gone", "timeout", "full"}

\* Every unit that was taken is written, about to be, or lost for good, and no
\* socket buffer holds more than it can.
Accounted == \A d \in Dirs :
    /\ taken[d] = put[d] + held[d] + lost[d]
    /\ got[d] <= put[d] /\ put[d] - got[d] <= Cap
    /\ taken[d] <= sent[d] /\ sent[d] - taken[d] <= Cap
    /\ sent[d] <= Total(d)

\* What came with the head of a direct CONNECT is forgotten.
Forgets(d) == path = "connect_direct" /\ d = "up" /\ EarlyData

\* What a peer gets is the beginning of what the other peer sent: the proxy
\* never writes on after it has lost something, whatever the sockets take.
NoHole == \A d \in Dirs : lost[d] > 0 => At("closed") \/ Forgets(d)

\* An error page is the first thing a client hears, and never appears inside
\* an open tunnel or behind an upstream's reply ("proxy must fail closed per
\* request"); only the response of a direct plain request may break off in one.
PageIsAlone == answer = "late" => path = "http_direct"

\* A connection that ends because one peer has finished has written all that
\* this peer sent, also what came in with the end of a head or a reply.
EndsComplete == At("closed") /\ why \in Peers =>
    LET d == Stream(why)
    IN  held[d] = 0 /\ taken[d] = sent[d] /\ (lost[d] = 0 \/ Forgets(d))

(***************************************************************************)
(* The inductive invariant behind NoHole, PageIsAlone and EndsComplete     *)
(***************************************************************************)

\* Which path leads to which step, and when the thread has a reason to end.
StepOfPath ==
    /\ At("head") => ~Raw
    /\ At("establish") => path = "connect_direct"
    /\ At("await") => path = "connect_proxy"
    /\ pc \in {"respond", "relay"} => path = "http_direct"
    /\ pc \notin {"fail", "closed"} => why = "none"
    /\ At("fail") => why \notin Peers

\* Until a tunnel is open the client has heard nothing, but for the response
\* of a direct plain request.
NothingSaid == pc \notin {"tunnel", "serve", "closed"} =>
    answer = "none" /\ (path = "http_direct" \/ put["down"] = 0)

\* Where units may be held, besides a thread that failed holding them; what
\* came with a head fits into an empty buffer.
HeldWhere ==
    /\ Raw => held["up"] = 0
    /\ At("head") => taken["up"] = 0
    /\ pc \in {"head", "open", "establish", "forward"} =>
          put["up"] = 0 /\ taken["up"] <= Cap
    /\ held["up"] > 0 => pc \in {"open", "establish", "forward", "fail", "closed"}
    /\ held["down"] > 0 => pc \in {"relay", "fail", "closed"}

\* What a client has not sent yet.
NotSentYet ==
    /\ ~asked => sent["up"] = 0
    /\ path = "connect_direct" /\ ~EarlyData /\ answer # "open" => sent["up"] = 0

IInv == /\ TypeOK /\ Accounted /\ StepOfPath /\ NothingSaid /\ HeldWhere /\ NotSentYet
        /\ NoHole /\ PageIsAlone /\ EndsComplete

\* A thread that has read a request ends, whatever the peers do or leave
\* undone, but for the bridge, which has no timeout, and as long as a client
\* does not read what a blocking write has for it.
ClientBlocks == pc \in {"relay", "fail"} /\ Room("down") = 0 /\ "client" \notin gone

ConnectionEnds ==
    (pc \notin {"head", "closed"} /\ path # "bridge") ~> (At("closed") \/ ClientBlocks)

----------------------------------------------------------------------------
(* What the peers may rely on, as an implementation of RelayedStreams *)

Over == IF ~At("closed") THEN "no" ELSE IF why \in Peers THEN Stream(why) ELSE "cut"

Streams == INSTANCE RelayedStreams WITH
    MayForget <- IF EarlyData /\ "connect_direct" \in Paths THEN {"up"} ELSE {},
    passed <- put, dropped <- lost, over <- Over

\* Whatever the path, the peers and the socket buffers do, and wherever the
\* thread gives up, the connection behaves as RelayedStreams says.
PeersRely == Streams!Spec
=============================================================================
