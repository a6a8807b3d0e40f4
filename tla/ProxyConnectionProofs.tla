------------------------ MODULE ProxyConnectionProofs ------------------------
(***************************************************************************)
(* The safety properties of ProxyConnection, for any buffers, streams and  *)
(* set of paths.  IInv is inductive, and NoHole, PageIsAlone and           *)
(* EndsComplete are among its conjuncts.  With Busy it also bounds the     *)
(* steps of a thread (ThreadRunsOut), and shows that every connection is   *)
(* one that RelayedStreams describes (PeersMayRely).                       *)
(***************************************************************************)
EXTENDS ProxyConnection, TLAPS

USE ProxyAssumption DEF At, Dirs, Peers, AllPaths, Raw

(* The initial states satisfy the invariant. *)
LEMMA InitInvariant == Init => IInv
  BY DEF Init, Zero, IInv, TypeOK, PcValues, Accounted, StepOfPath, NothingSaid,
         HeldWhere, NotSentYet, NoHole, PageIsAlone, EndsComplete, Total, Plain, From

(* The length of a stream depends on the path alone, which never changes. *)
LEMMA TotalKept ==
    path' = path => \A d \in Dirs : Total(d)' = Total(d) /\ Total(d) \in Nat
  BY DEF Total, Plain

(* Every step of the thread and of the peers preserves it. *)
LEMMA StepInvariant == IInv /\ [Next]_vars => IInv'
<1> SUFFICES ASSUME IInv, [Next]_vars PROVE IInv'
  OBVIOUS
<1>0. /\ TypeOK /\ Accounted /\ StepOfPath /\ NothingSaid /\ HeldWhere /\ NotSentYet
      /\ NoHole /\ PageIsAlone /\ EndsComplete
  BY DEF IInv

<1>1. ASSUME Ask PROVE IInv'
  <2>1. TypeOK'
    BY <1>0, <1>1 DEF TypeOK, PcValues, Ask, streams
  <2>2. NotSentYet'
    BY <1>0, <1>1 DEF TypeOK, StepOfPath, NothingSaid, NotSentYet, Ask, streams
  <2>3. /\ Accounted' /\ StepOfPath' /\ NothingSaid'
        /\ HeldWhere' /\ NoHole' /\ PageIsAlone' /\ EndsComplete'
    BY <1>0, <1>1 DEF Accounted, StepOfPath, NothingSaid, HeldWhere, NoHole,
       PageIsAlone, EndsComplete, Total, Plain, Stream, Forgets, Ask, streams
  <2> QED
    BY <2>1, <2>2, <2>3 DEF IInv

<1>2. ASSUME Reply PROVE IInv'
  <2>1. TypeOK'
    BY <1>0, <1>2 DEF TypeOK, PcValues, Reply, streams
  <2>2. /\ Accounted' /\ StepOfPath' /\ NothingSaid' /\ HeldWhere'
        /\ NotSentYet' /\ NoHole' /\ PageIsAlone' /\ EndsComplete'
    BY <1>0, <1>2 DEF Accounted, StepOfPath, NothingSaid, HeldWhere, NotSentYet,
       NoHole, PageIsAlone, EndsComplete, Total, Plain, Stream, Forgets, Reply, streams
  <2> QED
    BY <2>1, <2>2 DEF IInv

<1>3. ASSUME NEW d \in Dirs, Send(d) PROVE IInv'
  <2>1. TypeOK'
    BY <1>0, <1>3 DEF TypeOK, PcValues, Send, peers, Add
  <2>2. Accounted'
    BY <1>0, <1>3 DEF TypeOK, Accounted, Total, Plain, Send, peers, Add, CanSend, Waiting
  <2>3. NotSentYet'
    BY <1>0, <1>3 DEF TypeOK, StepOfPath, NothingSaid, NotSentYet, Send, peers, Add,
       CanSend, MaySend, Alive, Linked, From
  <2>4. EndsComplete'
    BY <1>0, <1>3 DEF TypeOK, EndsComplete, Forgets, Send, peers, Add, CanSend,
       Alive, Linked, From
  <2>5. StepOfPath' /\ NothingSaid' /\ HeldWhere' /\ NoHole' /\ PageIsAlone'
    BY <1>0, <1>3 DEF StepOfPath, NothingSaid, HeldWhere, NoHole, PageIsAlone,
       Forgets, Send, peers
  <2> QED
    BY <2>1, <2>2, <2>3, <2>4, <2>5 DEF IInv

<1>4. ASSUME NEW d \in Dirs, Get(d) PROVE IInv'
  <2>1. TypeOK'
    BY <1>0, <1>4 DEF TypeOK, PcValues, Get, peers, Add
  <2>2. Accounted'
    BY <1>0, <1>4 DEF TypeOK, Accounted, Total, Plain, Get, peers, Add, CanGet
  <2>3. UNCHANGED <<path, pc, sent, taken, put, held, lost, asked, answer, why>>
    BY <1>4 DEF Get, peers
  <2>4. /\ StepOfPath' /\ NothingSaid' /\ HeldWhere' /\ NotSentYet' /\ NoHole' /\ PageIsAlone'
    BY <1>0, <2>3 DEF StepOfPath, NothingSaid, HeldWhere, NotSentYet, NoHole,
       PageIsAlone, Forgets
  <2>5. EndsComplete'
    BY <1>0, <2>3 DEF EndsComplete, Forgets
  <2> QED
    BY <2>1, <2>2, <2>4, <2>5 DEF IInv

<1>5. ASSUME NEW q \in Peers, Shut(q) PROVE IInv'
  <2>1. TypeOK'
    BY <1>0, <1>5 DEF TypeOK, PcValues, Shut, streams
  <2>2. UNCHANGED <<path, pc, streams, asked, answer, why>>
    BY <1>5 DEF Shut
  <2>3. /\ Accounted' /\ StepOfPath' /\ NothingSaid' /\ HeldWhere'
        /\ NotSentYet' /\ NoHole' /\ PageIsAlone'
    BY <1>0, <2>2 DEF Accounted, StepOfPath, NothingSaid, HeldWhere, NotSentYet,
       NoHole, PageIsAlone, Total, Plain, Forgets, streams
  <2>4. EndsComplete'
    BY <1>0, <2>2 DEF EndsComplete, Forgets, streams
  <2> QED
    BY <2>1, <2>3, <2>4 DEF IInv

<1>6. ASSUME NEW q \in Peers, Leave(q) PROVE IInv'
  <2>1. TypeOK'
    BY <1>0, <1>6 DEF TypeOK, PcValues, Leave, streams
  <2>2. UNCHANGED <<path, pc, streams, asked, answer, why>>
    BY <1>6 DEF Leave
  <2>3. /\ Accounted' /\ StepOfPath' /\ NothingSaid' /\ HeldWhere'
        /\ NotSentYet' /\ NoHole' /\ PageIsAlone'
    BY <1>0, <2>2 DEF Accounted, StepOfPath, NothingSaid, HeldWhere, NotSentYet,
       NoHole, PageIsAlone, Total, Plain, Forgets, streams
  <2>4. EndsComplete'
    BY <1>0, <2>2 DEF EndsComplete, Forgets, streams
  <2> QED
    BY <2>1, <2>3, <2>4 DEF IInv

<1>7. ASSUME Refuse PROVE IInv'
  <2>1. TypeOK'
    BY <1>0, <1>7 DEF TypeOK, Accounted, PcValues, Refuse, streams, peers, Close
  <2>2. StepOfPath'
    BY <1>0, <1>7 DEF StepOfPath, Refuse, streams, peers, Close
  <2>3. NothingSaid'
    BY <1>0, <1>7 DEF TypeOK, StepOfPath, NothingSaid, Refuse, streams, peers, Close
  <2>4. HeldWhere'
    BY <1>0, <1>7 DEF TypeOK, Accounted, StepOfPath, HeldWhere, Refuse, streams,
       peers, Close
  <2>5. NotSentYet'
    BY <1>0, <1>7 DEF TypeOK, StepOfPath, NothingSaid, NotSentYet, Refuse, streams,
       peers, Close
  <2>6. NoHole'
    BY <1>0, <1>7 DEF TypeOK, Accounted, NotSentYet, NoHole, StepOfPath, NothingSaid,
       Forgets, Refuse, streams, peers, Close
  <2>7. PageIsAlone'
    BY <1>0, <1>7 DEF TypeOK, StepOfPath, NothingSaid, PageIsAlone, Refuse, streams,
       peers, Close
  <2>8. EndsComplete'
    BY <1>0, <1>7 DEF TypeOK, Accounted, StepOfPath, HeldWhere, NotSentYet, NoHole,
       EndsComplete, Forgets, Refuse, streams, peers, Close
  <2>9. Accounted'
    BY <1>0, <1>7 DEF Accounted, Total, Plain, Refuse, streams, peers, Close
  <2> QED
    BY <2>1, <2>2, <2>3, <2>4, <2>5, <2>6, <2>7, <2>8, <2>9 DEF IInv

<1>8. ASSUME ReadHead PROVE IInv'
  <2>1. TypeOK'
    BY <1>0, <1>8 DEF TypeOK, Accounted, PcValues, ReadHead, peers, Add, Waiting
  <2>2. Accounted'
    BY <1>0, <1>8 DEF TypeOK, Accounted, Total, Plain, ReadHead, peers, Add, Waiting
  <2>3. StepOfPath'
    BY <1>0, <1>8 DEF StepOfPath, ReadHead, peers, Add, Waiting
  <2>4. NothingSaid'
    BY <1>0, <1>8 DEF TypeOK, StepOfPath, NothingSaid, ReadHead, peers, Add, Waiting
  <2>5. HeldWhere'
    BY <1>0, <1>8 DEF TypeOK, Accounted, StepOfPath, HeldWhere, ReadHead, peers, Add,
       Waiting
  <2>6. NoHole'
    BY <1>0, <1>8 DEF TypeOK, Accounted, NotSentYet, NoHole, StepOfPath, NothingSaid,
       Forgets, ReadHead, peers, Add, Waiting
  <2>7. EndsComplete'
    BY <1>0, <1>8 DEF TypeOK, Accounted, StepOfPath, HeldWhere, NotSentYet, NoHole,
       EndsComplete, Forgets, ReadHead, peers, Add, Waiting
  <2>8. NotSentYet' /\ PageIsAlone'
    BY <1>0, <1>8 DEF NotSentYet, PageIsAlone, ReadHead, peers
  <2> QED
    BY <2>1, <2>2, <2>3, <2>4, <2>5, <2>6, <2>7, <2>8 DEF IInv

<1>9. ASSUME HeadEnds PROVE IInv'
  <2>1. TypeOK'
    BY <1>0, <1>9 DEF TypeOK, Accounted, PcValues, HeadEnds, streams, peers, Close,
       Fail
  <2>2. StepOfPath'
    BY <1>0, <1>9 DEF StepOfPath, HeadEnds, streams, peers, Close, Fail
  <2>3. NothingSaid'
    BY <1>0, <1>9 DEF TypeOK, StepOfPath, NothingSaid, HeadEnds, streams, peers,
       Close, Fail
  <2>4. HeldWhere'
    BY <1>0, <1>9 DEF TypeOK, Accounted, StepOfPath, HeldWhere, HeadEnds, streams,
       peers, Close, Fail
  <2>5. NoHole'
    BY <1>0, <1>9 DEF TypeOK, Accounted, NotSentYet, NoHole, StepOfPath, NothingSaid,
       Forgets, HeadEnds, streams, peers, Close, Fail
  <2>6. EndsComplete'
    BY <1>0, <1>9 DEF TypeOK, Accounted, StepOfPath, HeldWhere, NotSentYet, NoHole,
       EndsComplete, Forgets, HeadEnds, streams, peers, Close, Fail, Stream
  <2>7. Accounted' /\ NotSentYet' /\ PageIsAlone'
    BY <1>0, <1>9 DEF Accounted, NotSentYet, PageIsAlone, Total, Plain, HeadEnds, streams,
       peers
  <2> QED
    BY <2>1, <2>2, <2>3, <2>4, <2>5, <2>6, <2>7 DEF IInv

<1>10. ASSUME Open PROVE IInv'
  <2>1. TypeOK'
    BY <1>0, <1>10 DEF TypeOK, Accounted, PcValues, Open, streams, peers, Close, Fail
  <2>2. StepOfPath'
    BY <1>0, <1>10 DEF StepOfPath, Open, streams, peers, Close, Fail
  <2>3. NothingSaid'
    BY <1>0, <1>10 DEF TypeOK, StepOfPath, NothingSaid, Open, streams, peers, Close,
       Fail
  <2>4. HeldWhere'
    <3>1. UNCHANGED <<path, held, taken, put>>
      BY <1>10 DEF Open, streams
    <3>2. /\ pc = "open" /\ pc' \in {"establish", "forward", "tunnel", "fail", "closed"}
          /\ pc' = "tunnel" => Raw
      BY <1>10 DEF Open, Close, Fail
    <3>3. held["down"] = 0
      BY <1>0, <3>2 DEF TypeOK, HeldWhere
    <3> QED
      BY <1>0, <3>1, <3>2, <3>3 DEF HeldWhere
  <2>5. NoHole'
    BY <1>0, <1>10 DEF TypeOK, Accounted, NotSentYet, NoHole, StepOfPath,
       NothingSaid, Forgets, Open, streams, peers, Close, Fail
  <2>6. EndsComplete'
    BY <1>0, <1>10 DEF TypeOK, Accounted, StepOfPath, HeldWhere, NotSentYet, NoHole,
       EndsComplete, Forgets, Open, streams, peers, Close, Fail
  <2>7. Accounted' /\ NotSentYet' /\ PageIsAlone'
    BY <1>0, <1>10 DEF Accounted, NotSentYet, PageIsAlone, Total, Plain, Open, streams, peers
  <2> QED
    BY <2>1, <2>2, <2>3, <2>4, <2>5, <2>6, <2>7 DEF IInv

<1>11. ASSUME Establish PROVE IInv'
  <2>1. TypeOK'
    BY <1>0, <1>11 DEF TypeOK, Accounted, PcValues, Establish, peers, Add, Fail
  <2>2. Accounted'
    BY <1>0, <1>11, TotalKept DEF TypeOK, Accounted, Establish, peers, Add, Fail
  <2>3. StepOfPath'
    BY <1>0, <1>11 DEF StepOfPath, Establish, peers, Add, Fail
  <2>4. NothingSaid'
    BY <1>0, <1>11 DEF TypeOK, StepOfPath, NothingSaid, Establish, peers, Add, Fail
  <2>5. HeldWhere'
    <3>1. CASE "client" \in gone
      BY <3>1, <1>0, <1>11 DEF Establish, Fail, HeldWhere, peers
    <3>2. CASE "client" \notin gone
      <4>1. pc' = "tunnel" /\ held' = [held EXCEPT !["up"] = 0]
        BY <3>2, <1>11 DEF Establish
      <4> QED
        BY <4>1, <1>0, <1>11 DEF Establish, TypeOK, HeldWhere
    <3> QED
      BY <3>1, <3>2
  <2>6. NotSentYet'
    BY <1>0, <1>11 DEF TypeOK, StepOfPath, NothingSaid, NotSentYet, Establish, peers,
       Add, Fail
  <2>7. NoHole'
    <3>1. CASE "client" \in gone
      BY <3>1, <1>0, <1>11 DEF Establish, Fail, NoHole, Forgets, streams, peers
    <3>2. CASE "client" \notin gone /\ held["up"] > 0
      <4>1. sent["up"] > 0
        BY <3>2, <1>0 DEF TypeOK, Accounted
      <4>2. Forgets("up") /\ path' = path
        BY <4>1, <1>0, <1>11 DEF Establish, TypeOK, StepOfPath, NothingSaid, NotSentYet, Forgets
      <4> QED
        BY <3>2, <4>2, <1>0, <1>11 DEF Establish, TypeOK, NoHole, Forgets, Add
    <3>3. CASE "client" \notin gone /\ held["up"] = 0
      BY <3>3, <1>0, <1>11 DEF Establish, TypeOK, NoHole, Forgets, Add
    <3> QED
      BY <3>1, <3>2, <3>3, <1>0 DEF TypeOK
  <2>8. PageIsAlone'
    BY <1>0, <1>11 DEF TypeOK, StepOfPath, NothingSaid, PageIsAlone, Establish,
       peers, Add, Fail
  <2>9. EndsComplete'
    BY <1>0, <1>11 DEF TypeOK, Accounted, StepOfPath, HeldWhere, NotSentYet, NoHole,
       EndsComplete, Forgets, Establish, peers, Add, Fail
  <2> QED
    BY <2>1, <2>2, <2>3, <2>4, <2>5, <2>6, <2>7, <2>8, <2>9 DEF IInv

<1>12. ASSUME Forward PROVE IInv'
  <2>1. TypeOK'
    BY <1>0, <1>12 DEF TypeOK, Accounted, PcValues, Forward, peers, Add, Fail
  <2>2. Accounted'
    <3>1. CASE "remote" \in gone
      BY <3>1, <1>0, <1>12 DEF Forward, Fail, Accounted, Total, Plain, streams, peers
    <3>2. CASE "remote" \notin gone
      <4>1. put["up"] = 0 /\ taken["up"] <= Cap
        BY <1>0, <1>12 DEF Forward, HeldWhere
      <4> QED
        BY <3>2, <4>1, <1>0, <1>12 DEF Forward, TypeOK, Accounted, Total, Plain, Add, peers
    <3> QED
      BY <3>1, <3>2
  <2>3. StepOfPath'
    BY <1>0, <1>12 DEF StepOfPath, Forward, peers, Add, Fail
  <2>4. NothingSaid'
    BY <1>0, <1>12 DEF TypeOK, StepOfPath, NothingSaid, Forward, peers, Add, Fail
  <2>5. HeldWhere'
    BY <1>0, <1>12 DEF TypeOK, Accounted, StepOfPath, HeldWhere, Forward, peers, Add,
       Fail
  <2>6. NoHole'
    BY <1>0, <1>12 DEF TypeOK, Accounted, NotSentYet, NoHole, StepOfPath,
       NothingSaid, Forgets, Forward, peers, Add, Fail
  <2>7. EndsComplete'
    BY <1>0, <1>12 DEF TypeOK, Accounted, StepOfPath, HeldWhere, NotSentYet, NoHole,
       EndsComplete, Forgets, Forward, peers, Add, Fail
  <2>8. NotSentYet' /\ PageIsAlone'
    BY <1>0, <1>12 DEF NotSentYet, PageIsAlone, Forward, peers
  <2> QED
    BY <2>1, <2>2, <2>3, <2>4, <2>5, <2>6, <2>7, <2>8 DEF IInv

<1>13. ASSUME ReadReply PROVE IInv'
  <2>1. TypeOK'
    BY <1>0, <1>13 DEF TypeOK, Accounted, PcValues, ReadReply, peers, Add, Fail,
       Waiting
  <2>2. Accounted'
    <3>1. UNCHANGED <<taken, put>> \/ (\E n \in 0..Waiting("down") :
              taken' = Add(taken, "down", n) /\ put' = Add(put, "down", n))
      BY <1>13 DEF ReadReply
    <3>2. CASE UNCHANGED <<taken, put>>
      BY <3>2, <1>0, <1>13 DEF ReadReply, Accounted, Total, Plain, peers
    <3>3. ASSUME NEW n \in 0..Waiting("down"),
                 taken' = Add(taken, "down", n), put' = Add(put, "down", n)
          PROVE  Accounted'
      <4>1. put["down"] = 0 /\ n \in Nat /\ n <= sent["down"] - taken["down"]
        BY <1>0, <1>13 DEF ReadReply, TypeOK, Accounted, StepOfPath, NothingSaid, Waiting
      <4> QED
        BY <3>3, <4>1, <1>0, <1>13 DEF ReadReply, TypeOK, Accounted, Total, Plain, Add, peers
    <3> QED
      BY <3>1, <3>2, <3>3
  <2>3. StepOfPath'
    BY <1>0, <1>13 DEF StepOfPath, ReadReply, peers, Add, Fail, Waiting
  <2>4. NothingSaid'
    BY <1>0, <1>13 DEF TypeOK, StepOfPath, NothingSaid, ReadReply, peers, Add, Fail,
       Waiting
  <2>5. HeldWhere'
    BY <1>0, <1>13 DEF TypeOK, Accounted, StepOfPath, HeldWhere, ReadReply, peers,
       Add, Fail, Waiting
  <2>6. NotSentYet'
    BY <1>0, <1>13 DEF TypeOK, StepOfPath, NothingSaid, NotSentYet, ReadReply, peers,
       Add, Fail, Waiting
  <2>7. NoHole'
    BY <1>0, <1>13 DEF TypeOK, Accounted, NotSentYet, NoHole, StepOfPath,
       NothingSaid, Forgets, ReadReply, peers, Add, Fail, Waiting
  <2>8. PageIsAlone'
    BY <1>0, <1>13 DEF TypeOK, StepOfPath, NothingSaid, PageIsAlone, ReadReply,
       peers, Add, Fail, Waiting
  <2>9. EndsComplete'
    BY <1>0, <1>13 DEF TypeOK, Accounted, StepOfPath, HeldWhere, NotSentYet, NoHole,
       EndsComplete, Forgets, ReadReply, peers, Add, Fail, Waiting
  <2> QED
    BY <2>1, <2>2, <2>3, <2>4, <2>5, <2>6, <2>7, <2>8, <2>9 DEF IInv

<1>14. ASSUME Respond PROVE IInv'
  <2>1. TypeOK'
    <3>1. taken' \in [Dirs -> Nat] /\ held' \in [Dirs -> Nat]
      BY <1>0, <1>14 DEF TypeOK, Respond, Add, Waiting, Least
    <3>2. pc' \in PcValues
      BY <1>0, <1>14 DEF TypeOK, PcValues, Respond, Close, Fail
    <3>3. why' \in Peers \cup {"none", "refused", "open", "gone", "timeout", "full"}
      BY <1>0, <1>14 DEF TypeOK, Respond, Close, Fail
    <3>4. UNCHANGED <<path, sent, put, got, lost, peers, ready, answer>>
      BY <1>14 DEF Respond
    <3> QED  BY <1>0, <3>1, <3>2, <3>3, <3>4 DEF TypeOK, peers
  <2>2. Accounted'
    BY <1>0, <1>14, TotalKept DEF TypeOK, Accounted, Respond, peers, Add, Waiting, Least,
       Close, Fail
  <2>3. StepOfPath'
    BY <1>0, <1>14 DEF StepOfPath, Respond, peers, Add, Waiting, Least, Close, Fail
  <2>4. NothingSaid'
    BY <1>0, <1>14 DEF TypeOK, StepOfPath, NothingSaid, Respond, peers, Add, Waiting,
       Least, Close, Fail
  <2>5. HeldWhere'
    BY <1>0, <1>14 DEF TypeOK, Accounted, StepOfPath, HeldWhere, Respond, peers, Add,
       Waiting, Least, Close, Fail
  <2>6. NoHole'
    BY <1>0, <1>14 DEF TypeOK, Accounted, NotSentYet, NoHole, StepOfPath,
       NothingSaid, Forgets, Respond, peers, Add, Waiting, Least, Close, Fail
  <2>7. EndsComplete'
    BY <1>0, <1>14 DEF TypeOK, Accounted, StepOfPath, HeldWhere, NotSentYet, NoHole,
       EndsComplete, Forgets, Respond, peers, Add, Waiting, Least, Close, Fail, Stream
  <2>8. NotSentYet' /\ PageIsAlone'
    BY <1>0, <1>14 DEF NotSentYet, PageIsAlone, Respond, peers
  <2> QED
    BY <2>1, <2>2, <2>3, <2>4, <2>5, <2>6, <2>7, <2>8 DEF IInv

<1>15. ASSUME Relay PROVE IInv'
  <2>1. TypeOK'
    BY <1>0, <1>15 DEF TypeOK, Accounted, PcValues, Relay, peers, Add, Fail, Least,
       Room
  <2>2. Accounted'
    <3>1. CASE "client" \in gone
      BY <3>1, <1>0, <1>15 DEF Relay, Fail, Accounted, Total, Plain, streams, peers
    <3>2. CASE "client" \notin gone
      <4> DEFINE n == Least(Room("down"), held["down"])
      <4>1. n \in Nat /\ n <= Room("down") /\ n <= held["down"]
        BY <3>2, <1>0, <1>15 DEF Relay, TypeOK, Accounted, Least, Room
      <4>2. put' = Add(put, "down", n) /\ held' = [held EXCEPT !["down"] = @ - n]
        BY <3>2, <1>15 DEF Relay
      <4> HIDE DEF n
      <4> QED
        BY <4>1, <4>2, <1>0, <1>15 DEF Relay, TypeOK, Accounted, Total, Plain, Add, Room
    <3> QED
      BY <3>1, <3>2
  <2>3. StepOfPath'
    BY <1>0, <1>15 DEF StepOfPath, Relay, peers, Add, Fail, Least, Room
  <2>4. NothingSaid'
    BY <1>0, <1>15 DEF TypeOK, StepOfPath, NothingSaid, Relay, peers, Add, Fail,
       Least, Room
  <2>5. HeldWhere'
    BY <1>0, <1>15 DEF TypeOK, Accounted, StepOfPath, HeldWhere, Relay, peers, Add,
       Fail, Least, Room
  <2>6. NoHole'
    BY <1>0, <1>15 DEF TypeOK, Accounted, NotSentYet, NoHole, StepOfPath,
       NothingSaid, Forgets, Relay, peers, Add, Fail, Least, Room
  <2>7. EndsComplete'
    BY <1>0, <1>15 DEF TypeOK, Accounted, StepOfPath, HeldWhere, NotSentYet, NoHole,
       EndsComplete, Forgets, Relay, peers, Add, Fail, Least, Room
  <2>8. NotSentYet' /\ PageIsAlone'
    BY <1>0, <1>15 DEF NotSentYet, PageIsAlone, Relay, peers
  <2> QED
    BY <2>1, <2>2, <2>3, <2>4, <2>5, <2>6, <2>7, <2>8 DEF IInv

<1>16. ASSUME Select PROVE IInv'
  <2>1. TypeOK'
    BY <1>0, <1>16 DEF TypeOK, Accounted, PcValues, Select, streams, peers, Readable,
       Close
  <2>2. StepOfPath'
    BY <1>0, <1>16 DEF StepOfPath, Select, streams, peers, Readable, Close
  <2>3. NothingSaid'
    BY <1>0, <1>16 DEF TypeOK, StepOfPath, NothingSaid, Select, streams, peers,
       Readable, Close
  <2>4. HeldWhere'
    BY <1>0, <1>16 DEF TypeOK, Accounted, StepOfPath, HeldWhere, Select, streams,
       peers, Readable, Close
  <2>5. NoHole'
    BY <1>0, <1>16 DEF TypeOK, Accounted, NotSentYet, NoHole, StepOfPath,
       NothingSaid, Forgets, Select, streams, peers, Readable, Close
  <2>6. EndsComplete'
    BY <1>0, <1>16 DEF TypeOK, Accounted, StepOfPath, HeldWhere, NotSentYet, NoHole,
       EndsComplete, Forgets, Select, streams, peers, Readable, Close
  <2>7. Accounted' /\ NotSentYet' /\ PageIsAlone'
    BY <1>0, <1>16 DEF Accounted, NotSentYet, PageIsAlone, Total, Plain, Select, streams,
       peers
  <2> QED
    BY <2>1, <2>2, <2>3, <2>4, <2>5, <2>6, <2>7 DEF IInv

<1>17. ASSUME SendPage PROVE IInv'
  <2>1. TypeOK'
    BY <1>0, <1>17 DEF TypeOK, Accounted, PcValues, SendPage, streams, peers, Room
  <2>2. StepOfPath'
    BY <1>0, <1>17 DEF StepOfPath, SendPage, streams, peers, Room
  <2>3. NothingSaid'
    BY <1>0, <1>17 DEF TypeOK, StepOfPath, NothingSaid, SendPage, streams, peers, Room
  <2>4. HeldWhere'
    BY <1>0, <1>17 DEF TypeOK, Accounted, StepOfPath, HeldWhere, SendPage, streams,
       peers, Room
  <2>5. NotSentYet'
    BY <1>0, <1>17 DEF TypeOK, StepOfPath, NothingSaid, NotSentYet, SendPage,
       streams, peers, Room
  <2>6. NoHole'
    BY <1>0, <1>17 DEF TypeOK, Accounted, NotSentYet, NoHole, StepOfPath,
       NothingSaid, Forgets, SendPage, streams, peers, Room
  <2>7. PageIsAlone'
    BY <1>0, <1>17 DEF TypeOK, StepOfPath, NothingSaid, PageIsAlone, SendPage,
       streams, peers, Room
  <2>8. EndsComplete'
    BY <1>0, <1>17 DEF TypeOK, Accounted, StepOfPath, HeldWhere, NotSentYet, NoHole,
       EndsComplete, Forgets, SendPage, streams, peers, Room
  <2>9. Accounted'
    BY <1>0, <1>17 DEF Accounted, Total, Plain, SendPage, streams, peers
  <2> QED
    BY <2>1, <2>2, <2>3, <2>4, <2>5, <2>6, <2>7, <2>8, <2>9 DEF IInv

<1>18. ASSUME NEW q \in Peers, ServePeer(q) PROVE IInv'
  <2> DEFINE d == Stream(q)
             n == Least(Chunk, Waiting(d))
             m == IF To(d) \in gone THEN 0 ELSE Least(n, Room(d))
  <2>a. /\ d \in Dirs /\ From(d) = q
        /\ n \in Nat /\ n <= Waiting(d) /\ (n = 0 => Waiting(d) = 0)
        /\ m \in Nat /\ m <= n /\ m <= Room(d)
    BY <1>0 DEF TypeOK, Accounted, Stream, From, Least, Waiting, Room
  <2>b. /\ At("serve")
        /\ UNCHANGED <<path, sent, got, held, peers, answer>>
        /\ ready' \subseteq Peers
    BY <1>0, <1>18 DEF ServePeer, TypeOK
  <2>c. \/ /\ q \in gone \/ n = 0
           /\ pc' = "closed" /\ why' = IF q \in gone THEN "gone" ELSE q
           /\ UNCHANGED <<taken, put, lost>>
        \/ /\ taken' = Add(taken, d, n) /\ put' = Add(put, d, m)
           /\ lost' = Add(lost, d, n - m)
           /\ \/ m < n /\ pc' = "closed" /\ why' \in {"gone", "full"}
              \/ m = n /\ pc' \in {"tunnel", "serve"} /\ UNCHANGED why
    BY <1>18, <2>a DEF ServePeer, Close
  <2> HIDE DEF d, n, m
  <2>1. TypeOK'
    BY <1>0, <2>a, <2>b, <2>c DEF TypeOK, Accounted, PcValues, peers, Add
  <2>2. Accounted'
    <3>1. CASE UNCHANGED <<taken, put, lost>>
      BY <3>1, <1>0, <2>b DEF Accounted, Total, Plain, peers
    <3>2. CASE /\ taken' = Add(taken, d, n) /\ put' = Add(put, d, m)
               /\ lost' = Add(lost, d, n - m)
      <4>1. ASSUME NEW e \in Dirs, e # d
            PROVE  taken'[e] = taken[e] /\ put'[e] = put[e] /\ lost'[e] = lost[e]
        BY <3>2, <4>1, <1>0, <2>a DEF Add, TypeOK
      <4>2. taken'[d] = taken[d] + n /\ put'[d] = put[d] + m /\ lost'[d] = lost[d] + (n - m)
        BY <3>2, <1>0, <2>a DEF Add, TypeOK
      <4>3. /\ taken[d] \in Nat /\ put[d] \in Nat /\ lost[d] \in Nat /\ held[d] \in Nat
            /\ sent[d] \in Nat /\ got[d] \in Nat
        BY <1>0, <2>a DEF TypeOK
      <4>4. taken'[d] = put'[d] + held[d] + lost'[d] /\ got[d] <= put'[d]
        BY <4>2, <4>3, <1>0, <2>a DEF Accounted
      <4>5. put'[d] - got[d] <= Cap /\ taken'[d] <= sent[d] /\ sent[d] - taken'[d] <= Cap
        BY <4>2, <4>3, <1>0, <2>a DEF Accounted, Waiting, Room
      <4> QED
        BY <4>1, <4>4, <4>5, <1>0, <2>b DEF Accounted, Total, Plain, peers
    <3> QED
      BY <3>1, <3>2, <2>c
  <2>3. StepOfPath'
    BY <1>0, <2>a, <2>b, <2>c DEF StepOfPath, TypeOK, peers, Add
  <2>4. NothingSaid'
    BY <1>0, <2>a, <2>b, <2>c DEF TypeOK, StepOfPath, NothingSaid, peers, Add
  <2>5. HeldWhere'
    BY <1>0, <2>a, <2>b, <2>c DEF TypeOK, Accounted, StepOfPath, HeldWhere, peers, Add
  <2>6. NoHole'
    <3>1. CASE pc' = "closed"
      BY <3>1 DEF NoHole
    <3>2. CASE pc' # "closed" /\ UNCHANGED lost
      BY <3>2, <1>0, <2>b DEF NoHole, Forgets
    <3>3. CASE pc' # "closed" /\ m = n /\ lost' = Add(lost, d, n - m)
      <4>1. lost' = lost
        BY <3>3, <1>0, <2>a DEF TypeOK, Add
      <4> QED
        BY <3>3, <4>1, <1>0, <2>b DEF NoHole, Forgets
    <3> QED
      BY <3>1, <3>2, <3>3, <2>c
  <2>7. EndsComplete'
    <3>1. CASE why' \notin Peers
      BY <3>1 DEF EndsComplete
    <3>2. CASE pc' # "closed"
      BY <3>2 DEF EndsComplete
    <3>3. CASE why' \in Peers /\ pc' = "closed"
      <4>1. q \notin gone /\ n = 0 /\ why' = q /\ UNCHANGED <<taken, lost, sent, held, path>>
        BY <3>3, <2>b, <2>c, <1>0 DEF StepOfPath
      <4>2. taken[d] = sent[d]
        BY <4>1, <2>a, <1>0 DEF TypeOK, Accounted, Waiting
      <4>3. held[d] = 0
        BY <2>a, <2>b, <1>0 DEF TypeOK, HeldWhere
      <4>4. lost[d] = 0 \/ Forgets(d)
        BY <2>a, <2>b, <1>0 DEF TypeOK, NoHole
      <4> QED
        BY <4>1, <4>2, <4>3, <4>4 DEF EndsComplete, Forgets, d
    <3> QED
      BY <3>1, <3>2, <3>3
  <2>8. NotSentYet' /\ PageIsAlone'
    BY <1>0, <2>b DEF NotSentYet, PageIsAlone, peers
  <2> QED
    BY <2>1, <2>2, <2>3, <2>4, <2>5, <2>6, <2>7, <2>8 DEF IInv

<1>19. CASE UNCHANGED vars
  <2>1. TypeOK'
    BY <1>0, <1>19 DEF vars, streams, peers, TypeOK, PcValues
  <2>2. Accounted' /\ StepOfPath' /\ NothingSaid' /\ HeldWhere' /\ NotSentYet'
    BY <1>0, <1>19 DEF vars, streams, peers, Accounted, Total, Plain, StepOfPath, NothingSaid,
       HeldWhere, NotSentYet
  <2>3. NoHole' /\ PageIsAlone' /\ EndsComplete'
    BY <1>0, <1>19 DEF vars, streams, peers, NoHole, PageIsAlone, EndsComplete, Forgets,
       Stream
  <2> QED
    BY <2>1, <2>2, <2>3 DEF IInv
<1> QED
  BY <1>1, <1>2, <1>3, <1>4, <1>5, <1>6, <1>7, <1>8, <1>9, <1>10, <1>11, <1>12, <1>13, <1>14, <1>15, <1>16, <1>17, <1>18, <1>19 DEF Next, Thread, PeerActs

(* Streams and variables keep their types. *)
THEOREM TypeCorrect == Spec => []TypeOK
<1>1. IInv => TypeOK
  BY DEF IInv
<1> QED
  BY InitInvariant, StepInvariant, <1>1, PTL DEF Spec

(* The invariant holds in every reachable state, whatever the sizes of buffers,
   reads and streams. *)
THEOREM Invariance == Spec => []IInv
  BY InitInvariant, StepInvariant, PTL DEF Spec

(* What a peer gets of a stream is its beginning, whatever the sockets take. *)
THEOREM NothingMissing == Spec => []NoHole
<1>1. IInv => NoHole
  BY DEF IInv
<1> QED
  BY Invariance, <1>1, PTL

(* An error page never follows anything, but in a direct plain response. *)
THEOREM PagesStandAlone == Spec => []PageIsAlone
<1>1. IInv => PageIsAlone
  BY DEF IInv
<1> QED
  BY Invariance, <1>1, PTL

(* A connection that a peer's end of stream ended has written all of that stream. *)
THEOREM FinishedStreamsAreWritten == Spec => []EndsComplete
<1>1. IInv => EndsComplete
  BY DEF IInv
<1> QED
  BY Invariance, <1>1, PTL

----------------------------------------------------------------------------
(* How many steps a thread takes, and what its peers may rely on *)

\* Nothing is lost before a connection is established; a write has something to
\* write, and a round of the loop somebody to serve.
Busy ==
    /\ pc \in {"head", "open", "establish"} => lost["up"] = 0
    /\ At("relay") => held["down"] > 0
    /\ At("serve") => ready # {}

LEMMA InitBusy == Init => Busy
  BY DEF Init, Zero, Busy

\* Every step keeps it.
LEMMA StepBusy == IInv /\ Busy /\ [Next]_vars => Busy'
<1> SUFFICES ASSUME IInv, Busy, [Next]_vars PROVE Busy'
  OBVIOUS
<1>0. TypeOK /\ Accounted
  BY DEF IInv
<1>1. CASE PeerActs \/ UNCHANGED vars
  <2>1. UNCHANGED <<pc, lost, held, ready>>
    BY <1>1 DEF PeerActs, Ask, Reply, Send, Get, Shut, Leave, vars, streams, peers
  <2> QED
    BY <2>1 DEF Busy
<1>2. CASE Refuse \/ HeadEnds \/ Open \/ SendPage
  <2>1. pc' \notin {"head", "establish", "relay", "serve"} \/ (pc' = "establish" /\ pc = "open")
    BY <1>2 DEF Refuse, HeadEnds, Open, SendPage, Close, Fail
  <2>2. UNCHANGED <<lost, held, ready>> /\ (pc' = "open" => pc = "open")
    BY <1>2 DEF Refuse, HeadEnds, Open, SendPage, streams, Close, Fail
  <2> QED
    BY <2>1, <2>2 DEF Busy
<1>3. CASE ReadHead
  BY <1>3 DEF ReadHead, Busy
<1>4. CASE Establish
  BY <1>4 DEF Establish, Fail, Busy
<1>5. CASE Forward
  BY <1>5 DEF Forward, Fail, Busy
<1>6. CASE ReadReply
  BY <1>6 DEF ReadReply, Fail, Busy
<1>7. CASE Respond
  <2>1. CASE pc' # "relay"
    BY <1>7, <2>1 DEF Respond, Close, Fail, Busy
  <2>2. CASE pc' = "relay"
    <3> DEFINE n == Least(Chunk, Waiting("down"))
    <3>1. Waiting("down") > 0 /\ held' = Add(held, "down", n)
      BY <1>7, <2>2 DEF Respond, Close, Fail
    <3>2. n > 0 /\ n \in Nat
      BY <1>0, <3>1 DEF Least, Waiting, TypeOK
    <3> HIDE DEF n
    <3>3. held'["down"] > 0
      BY <1>0, <3>1, <3>2 DEF Add, TypeOK
    <3> QED
      BY <2>2, <3>3 DEF Busy
  <2> QED
    BY <2>1, <2>2
<1>8. CASE Relay
  <2>1. CASE pc' # "relay"
    BY <1>8, <2>1 DEF Relay, Fail, Busy
  <2>2. CASE pc' = "relay"
    <3> DEFINE n == Least(Room("down"), held["down"])
    <3>1. n # held["down"] /\ held' = [held EXCEPT !["down"] = @ - n]
      BY <1>8, <2>2 DEF Relay, Fail
    <3>2. n \in Int /\ n < held["down"]
      BY <1>0, <3>1 DEF Least, Room, TypeOK
    <3> HIDE DEF n
    <3>3. held'["down"] > 0
      BY <1>0, <3>1, <3>2 DEF TypeOK
    <3> QED
      BY <2>2, <3>3 DEF Busy
  <2> QED
    BY <2>1, <2>2
<1>9. CASE Select
  BY <1>9 DEF Select, Close, Busy
<1>10. ASSUME NEW q \in Peers, ServePeer(q) PROVE Busy'
  <2>1. pc' \in {"closed", "tunnel"} \/ (pc' = "serve" /\ ready' # {})
    BY <1>10, Zenon DEF ServePeer, Close
  <2> QED
    BY <2>1 DEF Busy
<1> QED
  BY <1>1, <1>2, <1>3, <1>4, <1>5, <1>6, <1>7, <1>8, <1>9, <1>10 DEF Next, Thread

\* The steps the thread can still take: it takes in what is left of the streams,
\* writes what it holds, and goes through the stages of a connection.
Stages == [label \in PcValues |->
    CASE label = "head" -> 8 [] label = "open" -> 7
      [] label \in {"establish", "forward"} -> 6 [] label = "await" -> 5
      [] label \in {"tunnel", "respond", "relay"} -> 4 [] label = "serve" -> 3
      [] label = "fail" -> 1 [] OTHER -> 0]

Left(d) == Total(d) - taken[d]
Fuel == 3 * (Left("up") + Left("down")) + held["up"] + held["down"] + Stages[pc]

LEMMA StagesFacts ==
    /\ \A label \in PcValues : Stages[label] \in 0 .. 8
    /\ Stages["head"] = 8 /\ Stages["open"] = 7
    /\ Stages["establish"] = 6 /\ Stages["forward"] = 6 /\ Stages["await"] = 5
    /\ Stages["tunnel"] = 4 /\ Stages["respond"] = 4 /\ Stages["relay"] = 4
    /\ Stages["serve"] = 3 /\ Stages["fail"] = 1 /\ Stages["closed"] = 0
BY DEF Stages, PcValues

\* What the fuel is made of is numbers.
LEMMA FuelType ==
    ASSUME IInv
    PROVE  /\ \A d \in Dirs : Left(d) \in Nat /\ held[d] \in Nat /\ Total(d) \in Nat
           /\ Fuel \in Nat
<1>1. \A d \in Dirs : Total(d) \in Nat /\ taken[d] \in Nat /\ held[d] \in Nat /\ taken[d] <= Total(d)
  BY DEF IInv, TypeOK, Accounted, Total
<1>2. Stages[pc] \in Nat
  BY StagesFacts DEF IInv, TypeOK
<1>3. \A d \in Dirs : Left(d) \in Nat
  BY <1>1 DEF Left
<1> QED
  BY <1>1, <1>2, <1>3 DEF Fuel

\* No step makes more of it, and every step of the thread uses some.
LEMMA FuelStep ==
    ASSUME IInv, Busy, [Next]_vars
    PROVE  Fuel' <= Fuel /\ (Thread => Fuel' < Fuel)
<1>0. /\ TypeOK /\ Accounted
      /\ held["up"] \in Nat /\ held["down"] \in Nat
      /\ taken["up"] \in Nat /\ taken["down"] \in Nat
      /\ Total("up") \in Nat /\ Total("down") \in Nat
  BY FuelType DEF IInv, TypeOK
<1>a. path' = path => Total("up")' = Total("up") /\ Total("down")' = Total("down")
  BY TotalKept
<1>b. IInv'
  BY StepInvariant
<1>c. Fuel \in Nat /\ pc' \in PcValues
  BY <1>b, FuelType DEF IInv, TypeOK
<1>d. path' = path
  BY DEF Next, Thread, PeerActs, Ask, Reply, Send, Get, Shut, Leave, vars, Refuse, ReadHead,
     HeadEnds, Open, Establish, Forward, ReadReply, Respond, Relay, Select, ServePeer, SendPage
<1>e. Fuel' = 3 * ((Total("up") - taken'["up"]) + (Total("down") - taken'["down"]))
                 + held'["up"] + held'["down"] + Stages[pc']
  BY <1>a, <1>d DEF Fuel, Left, Stages
<1>f. Fuel = 3 * ((Total("up") - taken["up"]) + (Total("down") - taken["down"]))
                + held["up"] + held["down"] + Stages[pc]
  BY DEF Fuel, Left
<1>g. /\ taken'["up"] \in Nat /\ taken'["down"] \in Nat
      /\ held'["up"] \in Nat /\ held'["down"] \in Nat
      /\ Stages[pc] \in Nat /\ Stages[pc'] \in Nat
  BY <1>0, <1>b, <1>c, StagesFacts DEF IInv, TypeOK
<1>h. Fuel' \in Int
  BY <1>0, <1>e, <1>g
<1>2. ASSUME PeerActs \/ UNCHANGED vars PROVE Fuel' = Fuel
  <2>1. UNCHANGED <<pc, taken, held>>
    BY <1>2 DEF PeerActs, Ask, Reply, Send, Get, Shut, Leave, vars, streams, peers
  <2> QED
    BY <1>e, <1>f, <2>1
<1>3. CASE Refuse \/ HeadEnds \/ Open \/ Select \/ SendPage
  <2>1. UNCHANGED <<taken, held>>
    BY <1>3 DEF Refuse, HeadEnds, Open, Select, SendPage, streams
  <2>2. Stages[pc'] < Stages[pc]
    BY <1>3, StagesFacts DEF Refuse, HeadEnds, Open, Select, SendPage, Close, Fail
  <2> QED
    BY <1>0, <1>e, <1>f, <1>g, <2>1, <2>2
<1>4. CASE ReadHead
  <2>1. PICK n \in 0 .. Waiting("up") : taken' = Add(taken, "up", n) /\ held' = Add(held, "up", n)
    BY <1>4 DEF ReadHead
  <2>2. n \in Nat
    BY <1>0 DEF Waiting, TypeOK
  <2>3. /\ taken'["up"] = taken["up"] + n /\ taken'["down"] = taken["down"]
        /\ held'["up"] = held["up"] + n /\ held'["down"] = held["down"]
    BY <1>0, <2>1 DEF Add, TypeOK
  <2>4. Stages[pc'] < Stages[pc]
    BY <1>4, StagesFacts DEF ReadHead
  <2> QED
    BY <1>0, <1>e, <1>f, <1>g, <2>2, <2>3, <2>4
<1>5. CASE Establish \/ Forward
  <2>1. UNCHANGED taken /\ (UNCHANGED held \/ held' = [held EXCEPT !["up"] = 0])
    BY <1>5 DEF Establish, Forward
  <2>2. held'["up"] <= held["up"] /\ held'["down"] = held["down"]
    BY <1>0, <2>1 DEF TypeOK
  <2>3. Stages[pc'] < Stages[pc]
    BY <1>5, StagesFacts DEF Establish, Forward, Fail
  <2> QED
    BY <1>0, <1>e, <1>f, <1>g, <2>1, <2>2, <2>3
<1>6. CASE ReadReply
  <2>1. UNCHANGED held /\ (UNCHANGED taken \/ \E n \in 0 .. Waiting("down") : taken' = Add(taken, "down", n))
    BY <1>6 DEF ReadReply
  <2>2. taken'["up"] = taken["up"] /\ taken'["down"] >= taken["down"]
    BY <1>0, <2>1 DEF Add, TypeOK, Waiting
  <2>3. Stages[pc'] < Stages[pc]
    BY <1>6, StagesFacts DEF ReadReply, Fail
  <2> QED
    BY <1>0, <1>e, <1>f, <1>g, <2>1, <2>2, <2>3
<1>7. CASE Respond
  <2> DEFINE n == Least(Chunk, Waiting("down"))
  <2>1. \/ UNCHANGED <<taken, held>> /\ Stages[pc'] < Stages[pc]
        \/ /\ Waiting("down") > 0 /\ Stages[pc'] = Stages[pc]
           /\ taken' = Add(taken, "down", n) /\ held' = Add(held, "down", n)
    BY <1>7, StagesFacts DEF Respond, Close, Fail
  <2>2. n \in Int /\ (Waiting("down") > 0 => n > 0)
    BY <1>0 DEF Least, Waiting, TypeOK
  <2> HIDE DEF n
  <2>3. CASE UNCHANGED <<taken, held>> /\ Stages[pc'] < Stages[pc]
    BY <1>0, <1>e, <1>f, <1>g, <2>3
  <2>4. CASE /\ Waiting("down") > 0 /\ Stages[pc'] = Stages[pc]
             /\ taken' = Add(taken, "down", n) /\ held' = Add(held, "down", n)
    <3>1. /\ taken'["up"] = taken["up"] /\ taken'["down"] = taken["down"] + n
          /\ held'["up"] = held["up"] /\ held'["down"] = held["down"] + n
      BY <1>0, <2>2, <2>4 DEF Add, TypeOK
    <3> QED
      BY <1>0, <1>e, <1>f, <1>g, <2>2, <2>4, <3>1
  <2> QED
    BY <2>1, <2>3, <2>4
<1>8. CASE Relay
  <2> DEFINE n == Least(Room("down"), held["down"])
  <2>1. \/ UNCHANGED <<taken, held>> /\ Stages[pc'] < Stages[pc]
        \/ /\ Room("down") > 0 /\ Stages[pc'] = Stages[pc] /\ UNCHANGED taken
           /\ held' = [held EXCEPT !["down"] = @ - n]
    BY <1>8, StagesFacts DEF Relay, Fail
  <2>2. n \in Int /\ (Room("down") > 0 => n > 0)
    BY <1>0, <1>8 DEF Least, Room, TypeOK, Busy, Relay
  <2> HIDE DEF n
  <2>3. CASE UNCHANGED <<taken, held>> /\ Stages[pc'] < Stages[pc]
    BY <1>0, <1>e, <1>f, <1>g, <2>3
  <2>4. CASE /\ Room("down") > 0 /\ Stages[pc'] = Stages[pc] /\ UNCHANGED taken
             /\ held' = [held EXCEPT !["down"] = @ - n]
    <3>1. held'["up"] = held["up"] /\ held'["down"] = held["down"] - n
      BY <1>0, <2>2, <2>4 DEF TypeOK
    <3> QED
      BY <1>0, <1>e, <1>f, <1>g, <2>2, <2>4, <3>1
  <2> QED
    BY <2>1, <2>3, <2>4
<1>9. ASSUME NEW q \in Peers, ServePeer(q) PROVE Fuel' < Fuel
  <2> DEFINE d == Stream(q)
             n == Least(Chunk, Waiting(d))
  <2>1. d \in Dirs
    BY DEF Stream
  <2>2. UNCHANGED held /\ pc = "serve"
    BY <1>9 DEF ServePeer
  <2>3. \/ UNCHANGED taken /\ pc' = "closed"
        \/ n # 0 /\ taken' = Add(taken, d, n) /\ pc' \in {"closed", "tunnel", "serve"}
    BY <1>9 DEF ServePeer, Close
  <2>4. n \in Nat
    BY <1>0, <2>1 DEF Least, Waiting, TypeOK, Accounted
  <2> HIDE DEF n, d
  <2>5. CASE UNCHANGED taken /\ pc' = "closed"
    BY <1>0, <1>e, <1>f, <1>g, <2>2, <2>5, StagesFacts
  <2>6. CASE n # 0 /\ taken' = Add(taken, d, n) /\ pc' \in {"closed", "tunnel", "serve"}
    <3>1. Stages[pc'] <= Stages[pc] + 1
      BY <2>2, <2>6, StagesFacts
    <3>2. \/ taken'["up"] = taken["up"] + n /\ taken'["down"] = taken["down"]
          \/ taken'["up"] = taken["up"] /\ taken'["down"] = taken["down"] + n
      BY <1>0, <2>1, <2>4, <2>6 DEF Add, TypeOK
    <3> QED
      BY <1>0, <1>e, <1>f, <1>g, <2>2, <2>4, <2>6, <3>1, <3>2
  <2> QED
    BY <2>3, <2>5, <2>6
<1>10. Thread => Fuel' < Fuel
  BY <1>3, <1>4, <1>5, <1>6, <1>7, <1>8, <1>9 DEF Thread
<1> QED
  BY <1>2, <1>10, <1>c, <1>h DEF Next

\* A thread takes boundedly many steps, whatever its peers do between them: each
\* step uses some of its fuel, nothing adds to it, and there never is more than
\* the streams are long.
THEOREM ThreadRunsOut ==
    Spec => /\ [](Fuel \in 0 .. 3 * (Total("up") + Total("down")) + 8)
            /\ [][Fuel' <= Fuel /\ (Thread => Fuel' < Fuel)]_vars
<1>1. Init => IInv /\ Busy
  BY InitInvariant, InitBusy
<1>2. IInv /\ Busy /\ [Next]_vars => IInv' /\ Busy'
  BY StepInvariant, StepBusy
<1>3. IInv => Fuel \in 0 .. 3 * (Total("up") + Total("down")) + 8
  <2> SUFFICES ASSUME IInv PROVE Fuel \in 0 .. 3 * (Total("up") + Total("down")) + 8
    OBVIOUS
  <2>1. /\ Fuel \in Nat /\ Stages[pc] \in 0 .. 8
        /\ \A d \in Dirs : held[d] \in Nat /\ Total(d) \in Nat
    BY FuelType, StagesFacts DEF IInv, TypeOK
  <2>2. \A d \in Dirs : taken[d] \in Nat /\ held[d] <= taken[d]
    BY DEF IInv, TypeOK, Accounted
  <2> QED
    BY <2>1, <2>2 DEF Fuel, Left
<1>4. IInv /\ Busy /\ [Next]_vars => [Fuel' <= Fuel /\ (Thread => Fuel' < Fuel)]_vars
  BY FuelStep
<1> QED
  BY <1>1, <1>2, <1>3, <1>4, PTL DEF Spec

----------------------------------------------------------------------------
(* The connection as an implementation of RelayedStreams *)

\* What is on its way is what the proxy has not read, and what it holds.
LEMMA OnTheWay ==
    ASSUME IInv, NEW d \in Dirs
    PROVE  /\ sent[d] \in Nat /\ put[d] \in Nat /\ lost[d] \in Nat /\ held[d] \in Nat
           /\ taken[d] \in Nat /\ taken[d] <= sent[d]
           /\ Streams!left(d) = (sent[d] - taken[d]) + held[d]
BY DEF IInv, TypeOK, Accounted, Streams!left

\* A connection that closes while nothing moves ends, or is cut.
LEMMA CloseStep ==
    ASSUME IInv, IInv', pc # "closed", pc' = "closed", UNCHANGED <<sent, put, lost>>
    PROVE  Streams!Next
<1>1. Over = "no" /\ put \in [Dirs -> Nat] /\ lost \in [Dirs -> Nat]
  BY DEF Over, IInv, TypeOK
<1>2. CASE why' \in Peers
  <2> DEFINE d == Stream(why')
  <2>1. d \in Dirs /\ Over' = d
    BY <1>2 DEF Stream, Over
  <2>2. held'[d] = 0 /\ taken'[d] = sent'[d]
    BY <1>2 DEF IInv, EndsComplete, Stream
  <2> HIDE DEF d
  <2>3. taken'[d] = put'[d] + held'[d] + lost'[d] /\ put'[d] \in Nat /\ lost'[d] \in Nat
    BY <2>1 DEF IInv, Accounted, TypeOK
  <2>4. Streams!left(d) = 0
    BY <2>2, <2>3 DEF Streams!left
  <2> QED
    BY <1>1, <2>1, <2>4 DEF Streams!Next, Streams!End
<1>3. CASE why' \notin Peers
  <2>1. Over' = "cut"
    BY <1>3 DEF Over
  <2>2. put' = [put EXCEPT !["up"] = @ + 0] /\ lost' = [lost EXCEPT !["up"] = @ + 0]
    BY <1>1
  <2>3. 0 \in 0 .. Streams!left("up") /\ 0 \in 0 .. Streams!left("up") - 0
    BY OnTheWay
  <2> QED
    BY <1>1, <2>1, <2>2, <2>3 DEF Streams!Next, Streams!Cut
<1> QED
  BY <1>2, <1>3

\* Units written pass, as many as were on their way.
LEMMA PassStep ==
    ASSUME IInv, pc # "closed", pc' # "closed", UNCHANGED <<sent, lost>>,
           NEW d \in Dirs, NEW n \in Nat, n <= Streams!left(d), put' = Add(put, d, n)
    PROVE  [Streams!Next]_<<sent, put, lost, Over>>
<1>1. Over = "no" /\ Over' = "no" /\ put \in [Dirs -> Nat]
  BY DEF Over, IInv, TypeOK
<1>2. CASE n = 0
  BY <1>1, <1>2 DEF Add
<1>3. CASE n # 0
  <2>1. n \in 1 .. Streams!left(d)
    BY <1>3, OnTheWay
  <2> QED
    BY <1>1, <2>1 DEF Add, Streams!Next, Streams!Pass
<1> QED
  BY <1>2, <1>3

\* Every step of the thread and of the peers is one of RelayedStreams, or changes
\* nothing there.
LEMMA StreamsStep ==
    ASSUME IInv, IInv', Busy, [Next]_vars
    PROVE  [Streams!Next]_<<sent, put, lost, Over>>
<1>0. /\ TypeOK /\ Accounted /\ StepOfPath /\ HeldWhere /\ NothingSaid /\ NotSentYet /\ NoHole
      /\ put \in [Dirs -> Nat] /\ lost \in [Dirs -> Nat]
  BY DEF IInv, TypeOK
<1>1. CASE \/ UNCHANGED vars \/ Ask \/ Reply \/ \E d \in Dirs : Get(d)
           \/ \E peer \in Peers : Shut(peer) \/ Leave(peer)
  <2>1. UNCHANGED <<pc, why, sent, put, lost>>
    BY <1>1 DEF vars, Ask, Reply, Get, Shut, Leave, streams, peers
  <2> QED
    BY <2>1 DEF Over
<1>2. ASSUME NEW d \in Dirs, Send(d) PROVE Streams!Next
  <2>1. pc # "closed" /\ UNCHANGED <<pc, why, put, lost>> /\ sent' = Add(sent, d, 1)
    BY <1>2 DEF Send, CanSend, Alive, Linked, From
  <2>2. Over = "no" /\ Over' = "no"
    BY <2>1 DEF Over
  <2> QED
    BY <2>1, <2>2 DEF Add, Streams!Next, Streams!Send
<1>3. CASE Refuse \/ HeadEnds \/ Open \/ Select \/ SendPage
  <2>1. pc # "closed" /\ UNCHANGED <<sent, put, lost>>
    BY <1>3 DEF Refuse, HeadEnds, Open, Select, SendPage, streams
  <2>2. CASE pc' = "closed"
    BY <2>1, <2>2, CloseStep
  <2>3. CASE pc' # "closed"
    BY <2>1, <2>3 DEF Over
  <2> QED
    BY <2>2, <2>3
<1>4. CASE ReadHead
  <2>1. pc # "closed" /\ pc' # "closed" /\ UNCHANGED <<sent, put, lost>>
    BY <1>4 DEF ReadHead
  <2> QED
    BY <2>1 DEF Over
<1>5. CASE Establish
  <2>1. pc = "establish" /\ pc' # "closed" /\ UNCHANGED <<sent, put>>
    BY <1>5 DEF Establish, Fail
  <2>2. Over = "no" /\ Over' = "no"
    BY <2>1 DEF Over
  <2>3. CASE UNCHANGED lost
    BY <2>1, <2>2, <2>3
  <2>4. CASE lost' = Add(lost, "up", held["up"]) /\ held["up"] # 0
    <3>1. put["up"] = 0 /\ lost["up"] = 0
      BY <1>0, <2>1 DEF HeldWhere, Busy
    <3>2. held["up"] \in 1 .. Streams!left("up")
      BY <2>4, OnTheWay
    <3>3. sent["up"] # 0
      BY <3>1, <3>2, OnTheWay DEF Streams!left
    <3>4. EarlyData /\ "connect_direct" \in Paths
      BY <1>0, <2>1, <3>3 DEF StepOfPath, NothingSaid, NotSentYet, TypeOK
    <3>5. lost' = [lost EXCEPT !["up"] = held["up"]]
      <4>1. held["up"] \in Nat /\ lost["up"] + held["up"] = held["up"]
        BY <1>0, <3>1 DEF TypeOK
      <4> QED
        BY <1>0, <2>4, <4>1 DEF Add
    <3> QED
      BY <2>1, <2>2, <3>1, <3>2, <3>4, <3>5 DEF Streams!Next, Streams!Forget
  <2>5. UNCHANGED lost \/ (lost' = Add(lost, "up", held["up"]) /\ held["up"] # 0)
    <3>1. UNCHANGED lost \/ lost' = Add(lost, "up", held["up"])
      BY <1>5 DEF Establish
    <3>2. Add(lost, "up", 0) = lost
      BY <1>0 DEF Add
    <3> QED
      BY <3>1, <3>2
  <2> QED
    BY <2>3, <2>4, <2>5
<1>6. CASE Forward
  <2>1. pc # "closed" /\ pc' # "closed" /\ UNCHANGED <<sent, lost>>
    BY <1>6 DEF Forward, Fail
  <2>2. UNCHANGED put \/ put' = Add(put, "up", held["up"])
    BY <1>6 DEF Forward
  <2>3. held["up"] \in Nat /\ held["up"] <= Streams!left("up")
    BY OnTheWay
  <2>4. CASE UNCHANGED put
    BY <2>1, <2>4 DEF Over
  <2>5. CASE put' = Add(put, "up", held["up"])
    BY <2>1, <2>3, <2>5, PassStep
  <2> QED
    BY <2>2, <2>4, <2>5
<1>7. CASE ReadReply
  <2>1. pc # "closed" /\ pc' # "closed" /\ UNCHANGED <<sent, lost>>
    BY <1>7 DEF ReadReply, Fail
  <2>2. CASE UNCHANGED put
    BY <2>1, <2>2 DEF Over
  <2>3. ASSUME NEW n \in 0 .. Waiting("down"), put' = Add(put, "down", n)
        PROVE  [Streams!Next]_<<sent, put, lost, Over>>
    <3>1. n \in Nat /\ n <= Streams!left("down")
      BY OnTheWay DEF Waiting
    <3> QED
      BY <2>1, <2>3, <3>1, PassStep
  <2>4. UNCHANGED put \/ \E n \in 0 .. Waiting("down") : put' = Add(put, "down", n)
    BY <1>7 DEF ReadReply
  <2> QED
    BY <2>2, <2>3, <2>4
<1>8. CASE Respond
  <2>1. pc # "closed" /\ UNCHANGED <<sent, put, lost>>
    BY <1>8 DEF Respond
  <2>2. CASE pc' = "closed"
    BY <2>1, <2>2, CloseStep
  <2>3. CASE pc' # "closed"
    BY <2>1, <2>3 DEF Over
  <2> QED
    BY <2>2, <2>3
<1>9. CASE Relay
  <2> DEFINE n == Least(Room("down"), held["down"])
  <2>1. pc # "closed" /\ pc' # "closed" /\ UNCHANGED <<sent, lost>>
    BY <1>9 DEF Relay, Fail
  <2>2. UNCHANGED put \/ (Room("down") > 0 /\ put' = Add(put, "down", n))
    BY <1>9 DEF Relay
  <2>3. Room("down") > 0 => n \in Nat /\ n <= Streams!left("down")
    BY <1>0, OnTheWay DEF Least, Room, TypeOK
  <2> HIDE DEF n
  <2>4. CASE UNCHANGED put
    BY <2>1, <2>4 DEF Over
  <2>5. CASE Room("down") > 0 /\ put' = Add(put, "down", n)
    BY <2>1, <2>3, <2>5, PassStep
  <2> QED
    BY <2>2, <2>4, <2>5
<1>10. ASSUME NEW q \in Peers, ServePeer(q)
       PROVE  [Streams!Next]_<<sent, put, lost, Over>>
  <2> DEFINE d == Stream(q)
             n == Least(Chunk, Waiting(d))
             m == IF To(d) \in gone THEN 0 ELSE Least(n, Room(d))
  <2>1. d \in Dirs
    BY DEF Stream
  <2>2. pc = "serve" /\ UNCHANGED sent
    BY <1>10 DEF ServePeer
  <2>3. \/ pc' = "closed" /\ UNCHANGED <<put, lost>>
        \/ /\ put' = Add(put, d, m) /\ lost' = Add(lost, d, n - m)
           /\ \/ m < n /\ pc' = "closed" /\ why' \in {"gone", "full"}
              \/ ~(m < n) /\ pc' \in {"tunnel", "serve"}
    BY <1>10 DEF ServePeer, Close
  <2>4. n \in Nat /\ m \in Nat /\ m <= n /\ n <= Streams!left(d)
    BY <1>0, <2>1, OnTheWay DEF Least, Room, Waiting, TypeOK, Accounted
  <2> HIDE DEF d, n, m
  <2>5. CASE pc' = "closed" /\ UNCHANGED <<put, lost>>
    BY <2>2, <2>5, CloseStep
  <2>6. CASE /\ put' = Add(put, d, m) /\ lost' = Add(lost, d, n - m)
             /\ m < n /\ pc' = "closed" /\ why' \in {"gone", "full"}
    <3>1. Over = "no" /\ Over' = "cut"
      BY <2>2, <2>6 DEF Over
    <3>2. m \in 0 .. Streams!left(d) /\ n - m \in 0 .. Streams!left(d) - m
      BY <2>1, <2>4, <2>6, OnTheWay
    <3> QED
      BY <2>1, <2>2, <2>6, <3>1, <3>2 DEF Add, Streams!Next, Streams!Cut
  <2>7. CASE /\ put' = Add(put, d, m) /\ lost' = Add(lost, d, n - m)
             /\ ~(m < n) /\ pc' \in {"tunnel", "serve"}
    <3>1. m = n /\ lost' = lost
      BY <1>0, <2>1, <2>4, <2>7 DEF Add
    <3> QED
      BY <2>1, <2>2, <2>4, <2>7, <3>1, PassStep
  <2> QED
    BY <2>3, <2>5, <2>6, <2>7
<1> QED
  BY <1>1, <1>2, <1>3, <1>4, <1>5, <1>6, <1>7, <1>8, <1>9, <1>10 DEF Next, Thread, PeerActs

\* A connection is a RelayedStreams, whatever the sizes of buffers, reads and
\* streams, whatever the peers do and wherever the thread gives up.
THEOREM PeersMayRely == Spec => PeersRely
<1>1. Init => IInv /\ Busy
  BY InitInvariant, InitBusy
<1>2. IInv /\ Busy /\ [Next]_vars => IInv' /\ Busy'
  BY StepInvariant, StepBusy
<1>3. Init => Streams!Init
  BY DEF Init, Zero, Streams!Init, Over
<1>4. IInv /\ IInv' /\ Busy /\ [Next]_vars => [Streams!Next]_<<sent, put, lost, Over>>
  BY StreamsStep
<1> QED
  BY <1>1, <1>2, <1>3, <1>4, PTL DEF Spec, PeersRely, Streams!Spec
==============================================================================
