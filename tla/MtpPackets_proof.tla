---------------------------- MODULE MtpPackets_proof ----------------------------
(***************************************************************************)
(* Proofs about the request loop of MtpServer::run, and about what its     *)
(* answers say: the packets' types, the descriptions read back by the      *)
(* host, and the lists of properties.                                      *)
(***************************************************************************)
EXTENDS MtpPackets, SequenceTheorems, FiniteSetTheorems, WellFoundedInduction, TLAPS

-----------------------------------------------------------------------------
(* Where the containers of the host's transaction are.  Whatever else is   *)
(* under way is of a transaction the host has given up; each one given up  *)
(* went wrong, so that its id is at most so many ids behind as things went *)
(* wrong, and does not come around.                                        *)

\* The id of the transaction that is, or that comes next.
Following(tid) == IF tid + 1 = Tids THEN 0 ELSE tid + 1
Now == IF host.phase = "idle" THEN Following(host.tid) ELSE host.tid
Stale(tid) == \E a \in 1..rare : tid + a = Now \/ tid + a = Now + Tids

StaleWire(n) == \A i \in 1..n : Stale(wire[i].tid)
StaleReq == pc = "request" \/ Stale(req.tid)

\* The containers and the request of the transaction the host is in.
IsRequest(c) == c.kind = "request" /\ c.op = host.op /\ c.tid = host.tid /\ c.par = host.par
IsPayload(c) == c.kind = "data" /\ c.op = host.op /\ c.tid = host.tid /\ c.payload = host.payload
IsReq == pc # "request" /\ req.op = host.op /\ req.tid = host.tid /\ SubSeq(req.par, 1, Len(host.par)) = host.par

\* All of it waits behind what is stale.
Queued ==
  /\ host.phase \in {"sending", "waiting"} /\ StaleReq
  /\ IF host.phase = "waiting" /\ host.op \in DataIn
     THEN /\ Len(wire) = 2 /\ IsRequest(wire[1]) /\ IsPayload(wire[2])
     ELSE /\ wire # <<>> /\ IsRequest(wire[Len(wire)]) /\ StaleWire(Len(wire) - 1)

\* The request is being worked on, with its data and no other.
Working ==
  /\ IsReq
  /\ \/ host.phase = "sending" /\ pc = "data" /\ wire = <<>>
     \/ /\ host.phase = "waiting" /\ host.op \in DataIn
        /\ pc = "data" /\ Len(wire) = 1 /\ IsPayload(wire[1])
     \/ /\ host.phase = "waiting" /\ wire = <<>>
        /\ pc \in {"handle", "send", "respond"}
        /\ host.op \in DataIn => (IF pc = "handle" THEN data ELSE resp.of.payload) = host.payload

\* Its data were taken for a request, which waits for data that will not come.
Mistaken == pc = "data" /\ req.tid = host.tid

\* The request was given up or taken for data, or the answer was lost.
Lost ==
  /\ rare > 0
  /\ \/ host.phase \in {"sending", "waiting"} /\ wire = <<>> /\ StaleReq
     \/ host.phase = "waiting" /\ wire = <<>> /\ Mistaken
     \/ /\ host.phase = "waiting" /\ host.op \in DataIn /\ StaleReq
        /\ Len(wire) = 1 /\ IsPayload(wire[1])

Heard ==
  /\ host.phase = "done" /\ pc = "request" /\ wire = <<>>
  /\ host.heard.of.op = host.op
  /\ SubSeq(host.heard.of.par, 1, Len(host.par)) = host.par
  /\ host.op \in DataIn => host.heard.of.payload = host.payload

GivenUp == host.phase = "idle" /\ StaleReq /\ StaleWire(Len(wire))

Placed == Queued \/ Working \/ Lost \/ Heard \/ GivenUp

\* What the places are told from.
Pars(p) == Len(p) \in 0..5 /\ p = [i \in 1..Len(p) |-> p[i]]
Loop ==
  /\ pc \in {"request", "data", "handle", "send", "respond"}
  /\ pc # "request" => req.tid \in 0..(Tids - 1)
  /\ pc = "data" => req.op \in DataIn
  /\ pc \in {"send", "respond"} => resp.of.op = req.op /\ resp.of.par = req.par
  /\ rare \in 0..MaxRare
HostOK ==
  /\ DOMAIN host = {"phase", "op", "par", "payload", "heard", "tid"}
  /\ host.phase \in {"idle", "sending", "waiting", "done"} /\ host.tid \in 0..(Tids - 1)
  /\ Pars(host.par)
  /\ host.phase = "sending" => host.op \in DataIn
WireOK ==
  /\ Len(wire) \in 0..2 /\ wire = [i \in 1..Len(wire) |-> wire[i]]
  /\ \A i \in 1..Len(wire) : wire[i].tid \in 0..(Tids - 1)

PacketsInv == Loop /\ HostOK /\ WireOK /\ Placed

-----------------------------------------------------------------------------
(* Transaction ids.                                                        *)

\* The id after the last one is 0.
LEMMA FollowingIs ==
  ASSUME NEW tid \in 0..(Tids - 1) PROVE (tid + 1) % Tids = Following(tid)
<1>1. CASE tid + 1 = Tids
  <2>1. Tids \in Nat /\ Tids > 0 /\ Tids % Tids = 0  BY <1>1, PacketsAssumption, SMT
  <2> QED  BY <2>1, <1>1 DEF Following
<1>2. CASE tid + 1 # Tids
  <2>1. tid + 1 \in 0..(Tids - 1) /\ Tids \in Nat /\ Tids > 0  BY <1>2, PacketsAssumption
  <2>2. (tid + 1) % Tids = tid + 1  BY <2>1
  <2> QED  BY <2>2, <1>2 DEF Following
<1> QED  BY <1>1, <1>2

\* While a transaction is on, its id is not that of one given up before (run, the ids of the host).
LEMMA StaleOther ==
  ASSUME HostOK, Loop, host.phase # "idle", NEW tid \in 0..(Tids - 1), Stale(tid)
  PROVE  tid # host.tid
BY PacketsAssumption DEF HostOK, Loop, Stale, Now

\* What is stale stays so when more goes wrong.
LEMMA StaleStays ==
  ASSUME Loop, rare' \in Nat, rare <= rare', Now' = Now, NEW tid, Stale(tid)
  PROVE  Stale(tid)'
<1>1. PICK a \in 1..rare : tid + a = Now \/ tid + a = Now + Tids  BY DEF Stale
<1>2. a \in 1..rare'  BY DEF Loop
<1> QED  BY <1>1, <1>2 DEF Stale

\* A transaction that is given up is one thing more that went wrong: its own id is stale, and what
\* was stale is one id further behind.
LEMMA GivenUpIsStale ==
  ASSUME HostOK, Loop, host.phase # "idle", host' = Idle(host.tid), rare' = rare + 1, rare < MaxRare,
         NEW tid \in 0..(Tids - 1), tid = host.tid \/ Stale(tid)
  PROVE  Stale(tid)'
<1> DEFINE h == host.tid
           n == Following(h)
<1>1. h \in 0..(Tids - 1) /\ Now = h /\ rare \in Nat /\ MaxRare < Tids /\ MaxRare \in Nat /\ Tids \in Nat
  BY PacketsAssumption DEF HostOK, Loop, Now
<1>2. Now' = n
  BY DEF Now, Idle
<1>3. n = h + 1 \/ n + Tids = h + 1
  BY <1>1 DEF Following
<1>4. CASE tid = h
  <2>1. 1 \in 1..rare' /\ (tid + 1 = n \/ tid + 1 = n + Tids)  BY <1>1, <1>3, <1>4
  <2> QED  BY <2>1, <1>2 DEF Stale
<1>5. CASE Stale(tid)
  <2>1. PICK a \in 1..rare : tid + a = h \/ tid + a = h + Tids  BY <1>1, <1>5 DEF Stale
  <2>2. a + 1 \in 1..rare'  BY <1>1
  <2>3. tid + (a + 1) = n \/ tid + (a + 1) = n + Tids
    <3>1. n \in 0..(Tids - 1)  BY <1>1 DEF Following
    <3> HIDE DEF h, n
    <3> QED  BY <2>1, <1>1, <1>3, <3>1
  <2> QED  BY <2>2, <2>3, <1>2 DEF Stale
<1> QED  BY <1>4, <1>5

-----------------------------------------------------------------------------
(* Requests and responses.                                                 *)

\* A host sends at most five parameters.
LEMMA RequestPars ==
  ASSUME NEW r \in Requests PROVE Pars(r.par)
<1>1. ASSUME NEW op, NEW payload, r = [op |-> op, par |-> <<>>, payload |-> payload] PROVE Pars(r.par)
  BY <1>1 DEF Pars
<1>2. ASSUME NEW op, NEW payload, NEW x, r = [op |-> op, par |-> <<x>>, payload |-> payload]
      PROVE  Pars(r.par)
  BY <1>2 DEF Pars
<1>3. ASSUME NEW op, NEW payload, NEW x, NEW y, r = [op |-> op, par |-> <<x, y>>, payload |-> payload]
      PROVE  Pars(r.par)
  BY <1>3 DEF Pars
<1>4. ASSUME NEW op, NEW payload, NEW x, NEW y, NEW z,
             r = [op |-> op, par |-> <<x, y, z>>, payload |-> payload]
      PROVE  Pars(r.par)
  BY <1>4 DEF Pars
<1>5. ASSUME NEW op, NEW payload, NEW x, NEW p, NEW y, NEW g, NEW d,
             r = [op |-> op, par |-> <<x, p, y, g, d>>, payload |-> payload]
      PROVE  Pars(r.par)
  BY <1>5 DEF Pars
<1> QED  BY <1>1, <1>2, <1>3, <1>4, <1>5, SMTT(60) DEF Requests, Ask1

\* Every handler answers the request it was called for, and leaves the host and what is under way alone.
Replies ==
  /\ pc = "handle" /\ pc' = "send"
  /\ resp'.of = [op |-> req.op, par |-> req.par, payload |-> data]
  /\ UNCHANGED <<req, wire, host, rare>>

\* handleRequest is called once for a request, and each of its ways out makes a response.
LEMMA HandlerReplies == Handler => Replies
<1> SUFFICES ASSUME Handler PROVE Replies  OBVIOUS
<1>0. ASSUME NEW rc, NEW par, NEW items, Reply(rc, par, items), pc = "handle" PROVE Replies
  BY <1>0 DEF Reply, Replies
<1> HIDE DEF Replies
<1>1. CASE GetDeviceInfo  BY <1>1, <1>0, Zenon DEF GetDeviceInfo, Answer, Handle
<1>2. CASE OpenSession  BY <1>2, <1>0, Zenon DEF OpenSession, Answer, Handle
<1>3. CASE CloseSession  BY <1>3, <1>0, Zenon DEF CloseSession, Answer, Handle
<1>4. CASE GetStorageIDs  BY <1>4, <1>0, Zenon DEF GetStorageIDs, Answer, Handle
<1>5. CASE GetStorageInfo  BY <1>5, <1>0, Zenon DEF GetStorageInfo, Answer, Handle
<1>6. CASE GetObjectPropsSupported  BY <1>6, <1>0, Zenon DEF GetObjectPropsSupported, Answer, Handle
<1>7. CASE GetObjectHandles  BY <1>7, <1>0, Zenon DEF GetObjectHandles, Answer, Handle
<1>8. CASE GetNumObjects  BY <1>8, <1>0, Zenon DEF GetNumObjects, Answer, Handle
<1>9. CASE GetObjectReferences  BY <1>9, <1>0, Zenon DEF GetObjectReferences, Answer, Handle
<1>10. CASE SetObjectReferences  BY <1>10, <1>0, Zenon DEF SetObjectReferences, Answer, Handle
<1>11. CASE GetObjectPropValue  BY <1>11, <1>0, Zenon DEF GetObjectPropValue, Answer, Handle
<1>12. CASE SetObjectPropValue  BY <1>12, <1>0, Zenon DEF SetObjectPropValue, Answer, Handle
<1>13. CASE GetDevicePropValue  BY <1>13, <1>0, Zenon DEF GetDevicePropValue, Answer, Handle
<1>14. CASE SetDevicePropValue  BY <1>14, <1>0, Zenon DEF SetDevicePropValue, Answer, Handle
<1>15. CASE ResetDevicePropValue  BY <1>15, <1>0, Zenon DEF ResetDevicePropValue, Answer, Handle
<1>16. CASE GetObjectPropList  BY <1>16, <1>0, Zenon DEF GetObjectPropList, Answer, Handle
<1>17. CASE GetObjectInfo  BY <1>17, <1>0, Zenon DEF GetObjectInfo, Answer, Handle
<1>18. CASE GetObjectPropDesc  BY <1>18, <1>0, Zenon DEF GetObjectPropDesc, Answer, Handle
<1>19. CASE GetDevicePropDesc  BY <1>19, <1>0, Zenon DEF GetDevicePropDesc, Answer, Handle
<1>20. CASE GetThumb  BY <1>20, <1>0, Zenon DEF GetThumb, Answer, Handle
<1>21. CASE SendObjectInfo  BY <1>21, <1>0, Zenon DEF SendObjectInfo, Answer, Handle
<1>22. CASE Unsupported  BY <1>22, <1>0, Zenon DEF Unsupported, Answer, Handle
<1> QED  BY <1>1, <1>2, <1>3, <1>4, <1>5, <1>6, <1>7, <1>8, <1>9, <1>10, <1>11, <1>12, <1>13, <1>14, <1>15, <1>16, <1>17, <1>18, <1>19, <1>20, <1>21, <1>22, Zenon DEF Handler

-----------------------------------------------------------------------------
(* The wire, and the parameters of a request.                              *)

\* A sequence of no elements.
LEMMA NoneLeft ==
  ASSUME NEW w, w = [i \in 1..Len(w) |-> w[i]], Len(w) = 0 PROVE w = <<>>
<1>1. w \in Seq({w[i] : i \in 1..0})
  OBVIOUS
<1> QED  BY <1>1, EmptySeq

\* What is left when a container was read.
LEMMA WireTail ==
  ASSUME WireOK, wire # <<>>
  PROVE  /\ Head(wire) = wire[1] /\ Len(wire) \in 1..2
         /\ Len(Tail(wire)) = Len(wire) - 1
         /\ Tail(wire) = [i \in 1..Len(Tail(wire)) |-> Tail(wire)[i]]
         /\ \A i \in 1..Len(Tail(wire)) : Tail(wire)[i] = wire[i + 1]
<1>1. (\E a : wire = <<a>>) \/ (\E a, b : wire = <<a, b>>)
  BY DEF WireOK
<1>2. ASSUME NEW a, wire = <<a>>
      PROVE  Tail(wire) = <<>> /\ wire[1] = a /\ Len(wire) = 1 /\ Head(wire) = a
  BY <1>2
<1>3. ASSUME NEW a, NEW b, wire = <<a, b>>
      PROVE  Tail(wire) = <<b>> /\ wire[1] = a /\ wire[2] = b /\ Len(wire) = 2 /\ Head(wire) = a
  BY <1>3
<1> QED  BY <1>1, <1>2, <1>3

\* What is there when a container was sent.
LEMMA WireAppend ==
  ASSUME WireOK, Len(wire) < 2, NEW c
  PROVE  LET w == Append(wire, c) IN
         /\ Len(w) = Len(wire) + 1 /\ w = [i \in 1..Len(w) |-> w[i]]
         /\ w[Len(w)] = c /\ w # <<>>
         /\ \A i \in 1..Len(wire) : w[i] = wire[i]
<1> DEFINE S == {wire[i] : i \in 1..Len(wire)} \cup {c}
           w == Append(wire, c)
<1>1. wire \in Seq(S)
  BY DEF WireOK
<1>2. /\ w \in Seq(S) /\ Len(w) = Len(wire) + 1 /\ w[Len(wire) + 1] = c
      /\ \A i \in 1..Len(wire) : w[i] = wire[i]
  BY <1>1, AppendProperties
<1> HIDE DEF w, S
<1>3. w = [i \in 1..Len(w) |-> w[i]] /\ Len(w) # 0
  BY <1>1, <1>2
<1> QED  BY <1>2, <1>3 DEF w

\* A request is read with the parameters it was sent with (MtpRequestPacket::read).
LEMMA ParsRead ==
  ASSUME NEW c, c.kind = "request", Pars(c.par), NEW left
  PROVE  SubSeq(Parameters(c, left), 1, Len(c.par)) = c.par
<1> DEFINE p == c.par
           n == Len(p)
           s == Parameters(c, left)
<1>1. n \in 0..5 /\ p = [i \in 1..n |-> p[i]]
  BY DEF Pars
<1>2. s = [i \in 1..5 |-> IF i <= n THEN p[i] ELSE left]
  BY Zenon DEF Parameters
<1>3. SubSeq(s, 1, n) = [i \in 1..n |-> s[i]]
  BY <1>1, <1>2
<1>4. ASSUME NEW i \in 1..n PROVE s[i] = p[i]
  <2> HIDE DEF s, p, n
  <2>1. i \in 1..5 /\ i <= n  BY <1>1
  <2> QED  BY <1>2, <2>1
<1> HIDE DEF s, p, n
<1>5. [i \in 1..n |-> s[i]] = [i \in 1..n |-> p[i]]
  BY <1>4
<1> QED  BY <1>1, <1>3, <1>5 DEF s, p, n

-----------------------------------------------------------------------------
(* The invariant, action by action.                                        *)

\* Nothing is under way when the program starts.
LEMMA InitPlaced == Init => PacketsInv
<1> SUFFICES ASSUME Init PROVE PacketsInv  OBVIOUS
<1>1. Loop  BY PacketsAssumption DEF Init, Loop
<1>2. HostOK
  <2>1. /\ host = Idle(0) /\ 0 \in 0..(Tids - 1)  BY PacketsAssumption DEF Init
  <2>2. /\ DOMAIN host = {"phase", "op", "par", "payload", "heard", "tid"}
        /\ host.phase = "idle" /\ host.tid = 0 /\ host.par = <<>>
    BY <2>1 DEF Idle
  <2>3. Pars(<<>>)  BY DEF Pars
  <2> QED  BY <2>1, <2>2, <2>3 DEF HostOK
<1>3. WireOK  BY DEF Init, WireOK
<1>4. GivenUp
  <2>1. host.phase = "idle" /\ pc = "request" /\ Len(wire) = 0  BY DEF Init, Idle
  <2> QED  BY <2>1 DEF GivenUp, StaleReq, StaleWire
<1> QED  BY <1>1, <1>2, <1>3, <1>4 DEF PacketsInv, Placed

\* What the host and the trouble so far are the same for.
LEMMA SameStale ==
  ASSUME PacketsInv, UNCHANGED <<host, rare>>
  PROVE  \A tid : Stale(tid)' <=> Stale(tid)
BY DEF Stale, Now

\* A container that is read is the host's request, its data, or stale (run, MtpRequestPacket::read).
LEMMA ReceiveKeeps ==
  ASSUME PacketsInv, Receive PROVE PacketsInv'
<1> DEFINE c == Head(wire)
<1>1. /\ pc = "request" /\ wire # <<>> /\ UNCHANGED <<host, rare>> /\ wire' = Tail(wire)
      /\ c = wire[1] /\ Len(wire) \in 1..2 /\ Len(wire') = Len(wire) - 1
      /\ wire' = [i \in 1..Len(wire') |-> wire'[i]]
      /\ \A i \in 1..Len(wire') : wire'[i] = wire[i + 1]
      /\ c.tid \in 0..(Tids - 1)
  BY WireTail DEF Receive, PacketsInv, WireOK
<1>2. PICK left \in Leftover : req' = [op |-> c.op, tid |-> c.tid, par |-> Parameters(c, left)]
  BY Zenon DEF Receive
<1>3. req'.op = c.op /\ req'.tid = c.tid /\ req'.par = Parameters(c, left)
  BY <1>2
<1>4. pc' = (IF c.op \in DataIn THEN "data" ELSE "handle")
  BY DEF Receive
<1>5. \A tid : Stale(tid)' <=> Stale(tid)
  BY <1>1, SameStale
<1> HIDE DEF c
<1>6. Loop' /\ HostOK' /\ WireOK'
  BY <1>1, <1>3, <1>4 DEF PacketsInv, Loop, HostOK, WireOK
<1>7. Placed
  BY DEF PacketsInv
<1>8. CASE Queued
  <2>1. CASE Len(wire) = 2 /\ ~(host.phase = "waiting" /\ host.op \in DataIn)
    <3>0. IsRequest(wire[2]) /\ StaleWire(1)
      BY <2>1, <1>8 DEF Queued
    <3>1. Len(wire') = 1 /\ wire'[1] = wire[2]
      BY SMTT(40), <2>1, <1>1
    <3>11. Stale(c.tid)
      BY <3>0, <1>1 DEF StaleWire
    <3>2. StaleReq'
      BY <3>11, <1>3, <1>5 DEF StaleReq
    <3>3. IsRequest(wire[1])' /\ wire' # <<>> /\ StaleWire(0)'
      BY <3>0, <3>1, <1>1 DEF IsRequest, StaleWire
    <3>4. IsRequest(wire[Len(wire)])' /\ StaleWire(Len(wire) - 1)'
      BY <3>0, <3>1, <3>3, <1>1 DEF IsRequest
    <3>5. Queued'
      BY <3>2, <3>3, <3>4, <2>1, <1>1, <1>8 DEF Queued
    <3> QED  BY <3>5, <1>6 DEF PacketsInv, Placed
  <2>2. CASE ~(Len(wire) = 2 /\ ~(host.phase = "waiting" /\ host.op \in DataIn))
    <3>1. IsRequest(c)
      BY <2>2, <1>1, <1>8 DEF Queued
    <3>2. SubSeq(Parameters(c, left), 1, Len(c.par)) = c.par
      BY <3>1, ParsRead, Zenon DEF IsRequest, PacketsInv, HostOK
    <3>3. IsReq'
      BY <3>1, <3>2, <1>1, <1>3, <1>4 DEF IsReq, IsRequest
    <3>4. Working'
      BY <3>1, <3>3, <2>2, <1>1, <1>4, <1>8 DEF Working, Queued, IsRequest, IsPayload, PacketsInv, HostOK
    <3> QED  BY <3>4, <1>6 DEF PacketsInv, Placed
  <2> QED  BY <2>1, <2>2
<1>9. CASE Working
  BY <1>9, <1>1 DEF Working, IsReq
<1>10. CASE Lost
  <2>1. host.phase = "waiting" /\ host.op \in DataIn /\ Len(wire) = 1 /\ IsPayload(c) /\ rare > 0
    BY <1>10, <1>1 DEF Lost, Mistaken
  <2>2. Mistaken'
    BY <2>1, <1>1, <1>3, <1>4 DEF Mistaken, IsPayload
  <2>3. wire' = <<>>
    <3>1. Len(wire') = 0  BY <2>1, <1>1
    <3> QED  BY <3>1, <1>1, NoneLeft, Zenon
  <2> QED  BY <2>1, <2>2, <2>3, <1>1, <1>6 DEF Lost, PacketsInv, Placed
<1>11. CASE Heard
  BY <1>11, <1>1 DEF Heard
<1>12. CASE GivenUp
  <2>1. Stale(c.tid) /\ \A i \in 1..Len(wire') : Stale(wire'[i].tid)
    BY <1>12, <1>1 DEF GivenUp, StaleWire
  <2>2. StaleReq' /\ StaleWire(Len(wire))'
    BY <2>1, <1>1, <1>3, <1>5 DEF StaleReq, StaleWire
  <2> QED  BY <2>2, <1>1, <1>6, <1>12 DEF GivenUp, PacketsInv, Placed
<1> QED  BY <1>7, <1>8, <1>9, <1>10, <1>11, <1>12 DEF Placed

\* The data of a request are those of its transaction, or the request is stale and so is what is
\* answered to it (run, MtpDataPacket::read).
LEMMA ReceiveDataKeeps ==
  ASSUME PacketsInv, ReceiveData PROVE PacketsInv'
<1> DEFINE c == Head(wire)
<1>1. /\ pc = "data" /\ pc' = "handle" /\ wire # <<>> /\ UNCHANGED <<req, resp, host, rare>>
      /\ wire' = Tail(wire)
      /\ c = wire[1] /\ Len(wire) \in 1..2 /\ Len(wire') = Len(wire) - 1
      /\ wire' = [i \in 1..Len(wire') |-> wire'[i]]
      /\ \A i \in 1..Len(wire') : wire'[i] = wire[i + 1]
  BY WireTail DEF ReceiveData, PacketsInv, WireOK
<1>2. c.kind = "data" => data' = c.payload
  BY DEF ReceiveData
<1>3. \A tid : Stale(tid)' <=> Stale(tid)
  BY <1>1, SameStale
<1> HIDE DEF c
<1>4. Loop' /\ HostOK' /\ WireOK'
  BY <1>1 DEF PacketsInv, Loop, HostOK, WireOK
<1>5. Placed
  BY DEF PacketsInv
<1>6. Len(wire) = 1 => wire' = <<>>
  <2>1. Len(wire) = 1 => Len(wire') = 0  BY <1>1
  <2> QED  BY <2>1, <1>1, NoneLeft, Zenon
<1>7. Len(wire) = 2 => Len(wire') = 1 /\ wire'[1] = wire[2]
  BY <1>1
<1>8. StaleReq => StaleReq' /\ rare > 0
  BY <1>1, <1>3 DEF StaleReq, Stale, PacketsInv, Loop
<1>9. CASE Queued
  <2>1. StaleReq' /\ rare > 0 /\ host.phase \in {"sending", "waiting"}
    BY <1>8, <1>9 DEF Queued
  <2>2. CASE host.phase = "waiting" /\ host.op \in DataIn
    <3>1. Len(wire) = 2 /\ IsPayload(wire[2])
      BY <1>9, <2>2 DEF Queued
    <3>2. IsPayload(wire[1])'
      BY <3>1, <1>1, <1>7 DEF IsPayload
    <3> QED  BY <3>1, <3>2, <2>1, <2>2, <1>1, <1>4, <1>7 DEF Lost, PacketsInv, Placed
  <2>3. CASE ~(host.phase = "waiting" /\ host.op \in DataIn) /\ Len(wire) = 1
    BY <2>1, <2>3, <1>1, <1>4, <1>6 DEF Lost, PacketsInv, Placed
  <2>4. CASE ~(host.phase = "waiting" /\ host.op \in DataIn) /\ Len(wire) = 2
    <3>1. IsRequest(wire[2])
      BY <1>9, <2>4 DEF Queued
    <3>0. Len(wire') = 1 /\ wire'[1] = wire[2]
      BY <2>4, <1>7
    <3>2. IsRequest(wire[1])' /\ Len(wire') = 1 /\ wire' # <<>> /\ StaleWire(0)'
      BY <3>0, <3>1, <1>1 DEF IsRequest, StaleWire
    <3>3. IsRequest(wire[Len(wire)])' /\ StaleWire(Len(wire) - 1)'
      BY <3>2
    <3> QED  BY <3>2, <3>3, <2>1, <2>4, <1>1, <1>4 DEF Queued, PacketsInv, Placed
  <2> QED  BY <2>2, <2>3, <2>4, <1>1
<1>10. CASE Working
  <2>1. host.phase = "waiting" /\ IsPayload(c) /\ IsReq /\ Len(wire) = 1
    BY <1>10, <1>1 DEF Working
  <2>2. data' = host.payload /\ wire' = <<>> /\ IsReq'
    BY <2>1, <1>1, <1>2, <1>6 DEF IsPayload, IsReq
  <2> QED  BY <2>1, <2>2, <1>1, <1>4 DEF Working, PacketsInv, Placed
<1>11. CASE Lost
  <2>1. StaleReq' /\ rare > 0 /\ host.phase = "waiting" /\ Len(wire) = 1
    BY <1>11, <1>1, <1>8 DEF Lost, Mistaken
  <2> QED  BY <2>1, <1>1, <1>4, <1>6 DEF Lost, PacketsInv, Placed
<1>12. CASE Heard
  BY <1>12, <1>1 DEF Heard
<1>13. CASE GivenUp
  <2>1. \A i \in 1..Len(wire') : Stale(wire'[i].tid)
    BY <1>13, <1>1 DEF GivenUp, StaleWire
  <2>2. StaleReq' /\ StaleWire(Len(wire))'
    BY <2>1, <1>1, <1>3, <1>8, <1>13 DEF StaleWire, GivenUp
  <2> QED  BY <2>2, <1>1, <1>4, <1>13 DEF GivenUp, PacketsInv, Placed
<1> QED  BY <1>5, <1>9, <1>10, <1>11, <1>12, <1>13 DEF Placed

\* A request whose data do not come is forgotten; if it was the host's, something went wrong.
LEMMA DataLateKeeps ==
  ASSUME PacketsInv, DataLate PROVE PacketsInv'
<1>1. /\ pc = "data" /\ pc' = "request" /\ wire = <<>> /\ UNCHANGED <<wire, host>>
      /\ host.phase = "sending" => rare < MaxRare
      /\ rare' = IF host.phase = "sending" THEN rare + 1 ELSE rare
  BY DEF DataLate, Abandon
<1>2. rare \in Nat /\ rare' \in 0..MaxRare /\ rare <= rare' /\ Now' = Now /\ MaxRare \in Nat
  BY <1>1, PacketsAssumption DEF PacketsInv, Loop, Now
<1>3. Loop' /\ HostOK' /\ WireOK' /\ StaleReq'
  BY <1>1, <1>2 DEF PacketsInv, Loop, HostOK, WireOK, StaleReq
<1>4. StaleWire(Len(wire))'
  <2>1. Len(wire') = 0  BY <1>1
  <2> QED  BY <2>1 DEF StaleWire
<1>5. CASE host.phase \in {"sending", "waiting"}
  <2>1. rare' > 0
    BY <1>1, <1>2, <1>5 DEF PacketsInv, Placed, Queued, Working, Lost, Heard, GivenUp
  <2> QED  BY <2>1, <1>1, <1>3, <1>5 DEF Lost, PacketsInv, Placed
<1>6. CASE host.phase \notin {"sending", "waiting"}
  <2>1. GivenUp
    BY <1>1, <1>6 DEF PacketsInv, Placed, Queued, Working, Lost, Heard
  <2> QED  BY <2>1, <1>1, <1>3, <1>4 DEF GivenUp, PacketsInv, Placed
<1> QED  BY <1>5, <1>6

\* A handler's response carries the request it was made for, and the data it was given.
LEMMA HandlerKeeps ==
  ASSUME PacketsInv, Handler PROVE PacketsInv'
<1>1. /\ pc = "handle" /\ pc' = "send" /\ UNCHANGED <<req, wire, host, rare>>
      /\ resp'.of.op = req.op /\ resp'.of.par = req.par /\ resp'.of.payload = data
  BY HandlerReplies DEF Replies
<1>2. \A tid : Stale(tid)' <=> Stale(tid)
  BY <1>1, SameStale
<1>3. Loop' /\ HostOK' /\ WireOK'
  BY <1>1 DEF PacketsInv, Loop, HostOK, WireOK
<1>4. StaleReq => StaleReq'
  BY <1>1, <1>2 DEF StaleReq
<1>5. \A n : StaleWire(n) => StaleWire(n)'
  BY <1>1, <1>2 DEF StaleWire
<1>6. CASE Queued
  <2>1. Queued'
    BY <1>6, <1>1, <1>4, <1>5 DEF Queued, IsRequest, IsPayload
  <2> QED  BY <2>1, <1>3 DEF PacketsInv, Placed
<1>7. CASE Working
  <2>1. Working'
    BY <1>7, <1>1 DEF Working, IsReq
  <2> QED  BY <2>1, <1>3 DEF PacketsInv, Placed
<1>8. CASE Lost
  <2>1. Lost'
    BY <1>8, <1>1, <1>4 DEF Lost, Mistaken, IsPayload
  <2> QED  BY <2>1, <1>3 DEF PacketsInv, Placed
<1>9. CASE GivenUp
  <2>1. GivenUp'
    BY <1>9, <1>1, <1>4, <1>5 DEF GivenUp
  <2> QED  BY <2>1, <1>3 DEF PacketsInv, Placed
<1> QED  BY <1>1, <1>6, <1>7, <1>8, <1>9 DEF PacketsInv, Placed, Heard

\* What the responder writes is for the host only if it works on the request of the host.
LEMMA ListensTo ==
  ASSUME PacketsInv, pc \in {"send", "respond"}, Listens PROVE Working
<1>1. host.phase = "waiting" /\ host.tid = req.tid /\ req.tid \in 0..(Tids - 1)
  BY DEF Listens, AnswerId, PacketsInv, Loop
<1>2. ~StaleReq
  BY <1>1, StaleOther DEF StaleReq, PacketsInv
<1> QED  BY <1>1, <1>2 DEF PacketsInv, Placed, Queued, Lost, Mistaken, Heard, GivenUp

\* What is stale where the host stays in its transaction.
LEMMA StaleWhile ==
  ASSUME PacketsInv, rare' = rare, host'.tid = host.tid, host'.phase = "idle" <=> host.phase = "idle"
  PROVE  \A tid : Stale(tid)' <=> Stale(tid)
<1>1. Now' = Now  BY DEF Now
<1> QED  BY <1>1 DEF Stale

\* Data are sent to the host for its own request.
LEMMA SendDataKeeps ==
  ASSUME PacketsInv, SendData PROVE PacketsInv'
<1>1. /\ pc = "send" /\ pc' = "respond" /\ UNCHANGED <<req, data, resp, wire, rare>>
  BY DEF SendData
<1>2. CASE Listens /\ req.op \notin DataIn
  <2>1. Working  BY <1>1, <1>2, ListensTo
  <2>2. host' = [host EXCEPT !.payload = data]  BY <1>2 DEF SendData
  <2>3. /\ host'.phase = host.phase /\ host'.op = host.op /\ host'.tid = host.tid
        /\ host'.par = host.par /\ DOMAIN host' = DOMAIN host
    BY <2>2 DEF PacketsInv, HostOK
  <2>4. Loop' /\ HostOK' /\ WireOK'
    BY <2>3, <1>1 DEF PacketsInv, Loop, HostOK, WireOK
  <2>5. Working'
    BY <2>1, <2>3, <1>1, <1>2 DEF Working, IsReq
  <2> QED  BY <2>4, <2>5 DEF PacketsInv, Placed
<1>3. CASE ~(Listens /\ req.op \notin DataIn)
  <2>1. host' = host  BY <1>3 DEF SendData
  <2>2. \A tid : Stale(tid)' <=> Stale(tid)
    BY <1>1, <2>1, SameStale
  <2>3. Loop' /\ HostOK' /\ WireOK'
    BY <1>1, <2>1 DEF PacketsInv, Loop, HostOK, WireOK
  <2>4. StaleReq => StaleReq'
    BY <1>1, <2>2 DEF StaleReq
  <2>5. \A n : StaleWire(n) => StaleWire(n)'
    BY <1>1, <2>2 DEF StaleWire
  <2>6. CASE Queued
    <3>1. Queued'
      BY <2>6, <1>1, <2>1, <2>4, <2>5 DEF Queued, IsRequest, IsPayload
    <3> QED  BY <3>1, <2>3 DEF PacketsInv, Placed
  <2>7. CASE Working
    <3>1. Working'
      BY <2>7, <1>1, <2>1 DEF Working, IsReq
    <3> QED  BY <3>1, <2>3 DEF PacketsInv, Placed
  <2>8. CASE Lost
    <3>1. Lost'
      BY <2>8, <1>1, <2>1, <2>4 DEF Lost, Mistaken, IsPayload
    <3> QED  BY <3>1, <2>3 DEF PacketsInv, Placed
  <2>9. CASE GivenUp
    <3>1. GivenUp'
      BY <2>9, <1>1, <2>1, <2>4, <2>5 DEF GivenUp
    <3> QED  BY <3>1, <2>3 DEF PacketsInv, Placed
  <2> QED  BY <1>1, <2>6, <2>7, <2>8, <2>9 DEF PacketsInv, Placed, Heard
<1> QED  BY <1>2, <1>3

\* The host hears the response to its own request, or goes on waiting.
LEMMA RespondKeeps ==
  ASSUME PacketsInv, Respond PROVE PacketsInv'
<1>1. pc = "respond" /\ pc' = "request" /\ UNCHANGED <<wire, rare>>
  BY DEF Respond, Abandon
<1>2. CASE Listens
  <2>1. Working  BY <1>1, <1>2, ListensTo
  <2>2. host' = [host EXCEPT !.phase = "done", !.heard = resp]  BY <1>2 DEF Respond
  <2>3. /\ host'.phase = "done" /\ host'.heard = resp /\ host'.op = host.op /\ host'.tid = host.tid
        /\ host'.par = host.par /\ host'.payload = host.payload /\ DOMAIN host' = DOMAIN host
    BY <2>2 DEF PacketsInv, HostOK
  <2>4. Loop' /\ HostOK' /\ WireOK'
    BY <2>3, <1>1 DEF PacketsInv, Loop, HostOK, WireOK
  <2>5. resp.of.op = req.op /\ resp.of.par = req.par
    BY <1>1 DEF PacketsInv, Loop
  <2>6. Heard'
    BY <2>1, <2>3, <2>5, <1>1 DEF Working, IsReq, Heard
  <2> QED  BY <2>4, <2>6 DEF PacketsInv, Placed
<1>3. CASE ~Listens
  <2>1. host' = host  BY <1>3 DEF Respond
  <2>2. \A tid : Stale(tid)' <=> Stale(tid)
    BY <1>1, <2>1, SameStale
  <2>3. Loop' /\ HostOK' /\ WireOK'
    BY <1>1, <2>1 DEF PacketsInv, Loop, HostOK, WireOK
  <2>4. StaleReq'
    BY <1>1 DEF StaleReq
  <2>5. \A n : StaleWire(n) => StaleWire(n)'
    BY <1>1, <2>2 DEF StaleWire
  <2>6. CASE Queued
    <3>1. Queued'
      BY <2>6, <1>1, <2>1, <2>4, <2>5 DEF Queued, IsRequest, IsPayload
    <3> QED  BY <3>1, <2>3 DEF PacketsInv, Placed
  <2>7. CASE Working
    BY <2>7, <1>1, <1>3 DEF Working, IsReq, Listens, AnswerId
  <2>8. CASE Lost
    <3>1. Lost'
      BY <2>8, <1>1, <2>1, <2>4 DEF Lost, Mistaken, IsPayload
    <3> QED  BY <3>1, <2>3 DEF PacketsInv, Placed
  <2>9. CASE GivenUp
    <3>1. GivenUp'
      BY <2>9, <1>1, <2>1, <2>4, <2>5 DEF GivenUp
    <3> QED  BY <3>1, <2>3 DEF PacketsInv, Placed
  <2> QED  BY <1>1, <2>6, <2>7, <2>8, <2>9 DEF PacketsInv, Placed, Heard
<1> QED  BY <1>2, <1>3

\* A write that fails loses the response; that is one thing more that went wrong.
LEMMA WriteFailsKeeps ==
  ASSUME PacketsInv, WriteFails PROVE PacketsInv'
<1>1. /\ pc \in {"send", "respond"} /\ pc' = "request" /\ UNCHANGED <<wire, host>>
      /\ rare < MaxRare /\ rare' = rare + 1
  BY DEF WriteFails, Abandon
<1>2. rare \in Nat /\ rare' \in 0..MaxRare /\ rare <= rare' /\ rare' > 0 /\ Now' = Now
  BY <1>1, PacketsAssumption DEF PacketsInv, Loop, Now
<1>3. \A tid : Stale(tid) => Stale(tid)'
  BY <1>2, StaleStays DEF PacketsInv
<1>4. Loop' /\ HostOK' /\ WireOK' /\ StaleReq'
  BY <1>1, <1>2 DEF PacketsInv, Loop, HostOK, WireOK, StaleReq
<1>5. \A n : StaleWire(n) => StaleWire(n)'
  BY <1>1, <1>3 DEF StaleWire
<1>6. CASE Queued
  <2>1. Queued'
    BY <1>6, <1>1, <1>4, <1>5 DEF Queued, IsRequest, IsPayload
  <2> QED  BY <2>1, <1>4 DEF PacketsInv, Placed
<1>7. CASE Working
  <2>1. host.phase \in {"sending", "waiting"} /\ wire = <<>>
    BY <1>7, <1>1 DEF Working
  <2> QED  BY <2>1, <1>1, <1>2, <1>4 DEF Lost, PacketsInv, Placed
<1>8. CASE Lost
  <2>1. Lost'
    BY <1>8, <1>1, <1>2, <1>4 DEF Lost, Mistaken, IsPayload
  <2> QED  BY <2>1, <1>4 DEF PacketsInv, Placed
<1>9. CASE GivenUp
  <2>1. GivenUp'
    BY <1>9, <1>1, <1>4, <1>5 DEF GivenUp
  <2> QED  BY <2>1, <1>4 DEF PacketsInv, Placed
<1> QED  BY <1>1, <1>6, <1>7, <1>8, <1>9 DEF PacketsInv, Placed, Heard

-----------------------------------------------------------------------------
(* The host.                                                               *)

\* A new request goes behind all that is stale.
LEMMA AskKeeps ==
  ASSUME PacketsInv, Ask PROVE PacketsInv'
<1>1. PICK r \in Requests :
        LET tid == (host.tid + 1) % Tids IN
        /\ host' = [phase |-> IF r.op \in DataIn THEN "sending" ELSE "waiting", op |-> r.op,
                    par |-> r.par, payload |-> r.payload, heard |-> Nothing, tid |-> tid]
        /\ wire' = Append(wire, [kind |-> "request", op |-> r.op, tid |-> tid, par |-> r.par,
                                 payload |-> <<>>])
  BY Zenon DEF Ask
<1> DEFINE tid == Following(host.tid)
           c == [kind |-> "request", op |-> r.op, tid |-> tid, par |-> r.par, payload |-> <<>>]
<1>2. host.phase = "idle" /\ Len(wire) < 2 /\ UNCHANGED <<pc, req, resp, rare>>
  BY DEF Ask
<1>3. host.tid \in 0..(Tids - 1) /\ (host.tid + 1) % Tids = tid /\ tid \in 0..(Tids - 1)
  <2>1. host.tid \in 0..(Tids - 1)  BY DEF PacketsInv, HostOK
  <2> QED  BY <2>1, FollowingIs, PacketsAssumption DEF Following
<1>4. /\ host'.phase = (IF r.op \in DataIn THEN "sending" ELSE "waiting") /\ host'.op = r.op
      /\ host'.par = r.par /\ host'.tid = tid
      /\ DOMAIN host' = {"phase", "op", "par", "payload", "heard", "tid"}
  BY <1>1, <1>3
<1>5. Pars(r.par)
  BY RequestPars
<1>6. /\ wire' = Append(wire, c) /\ c.kind = "request" /\ c.op = r.op /\ c.tid = tid /\ c.par = r.par
  BY <1>1, <1>3
<1>7. tid = Now /\ Now' = Now
  BY <1>2, <1>4 DEF Now
<1> HIDE DEF tid, c
<1>8. /\ Len(wire') = Len(wire) + 1 /\ wire' = [i \in 1..Len(wire') |-> wire'[i]]
      /\ wire'[Len(wire')] = c /\ wire' # <<>> /\ Len(wire) \in 0..1
      /\ \A i \in 1..Len(wire) : wire'[i] = wire[i]
  BY <1>2, <1>6, WireAppend DEF PacketsInv, WireOK
<1>9. Loop' /\ HostOK'
  BY <1>2, <1>3, <1>4, <1>5 DEF PacketsInv, Loop, HostOK
<1>10. WireOK'
  <2>1. \A i \in 1..Len(wire') : wire'[i].tid \in 0..(Tids - 1)
    <3> TAKE i \in 1..Len(wire')
    <3>1. i = Len(wire') \/ i \in 1..Len(wire)  BY <1>8
    <3> QED  BY <3>1, <1>3, <1>6, <1>8 DEF PacketsInv, WireOK
  <2>2. Len(wire') \in 0..2
    <3>1. Len(wire') = Len(wire) + 1 /\ Len(wire) \in 0..1  BY <1>8, Zenon
    <3>2. \A m, n : n \in 0..1 /\ m = n + 1 => m \in 0..2  OBVIOUS
    <3> QED  BY <3>1, <3>2, Zenon
  <2> QED  BY <2>1, <2>2, <1>8, Zenon DEF WireOK
<1>11. \A t : Stale(t)' <=> Stale(t)
  BY <1>2, <1>7 DEF Stale
<1>12. GivenUp
  BY <1>2 DEF PacketsInv, Placed, Queued, Working, Lost, Heard, IsReq
<1>13. StaleReq'
  BY <1>2, <1>11, <1>12 DEF GivenUp, StaleReq
<1>14. StaleWire(Len(wire) - 1)'
  <2>1. Len(wire') - 1 = Len(wire)  BY <1>8
  <2> QED  BY <2>1, <1>8, <1>11, <1>12 DEF GivenUp, StaleWire
<1>15. IsRequest(wire[Len(wire)])'
  BY <1>4, <1>6, <1>8 DEF IsRequest
<1>16. Queued'
  BY <1>4, <1>8, <1>13, <1>14, <1>15 DEF Queued
<1> QED  BY <1>9, <1>10, <1>16 DEF PacketsInv, Placed

\* The data follow their request, wherever it is.
LEMMA SendPayloadKeeps ==
  ASSUME PacketsInv, SendPayload PROVE PacketsInv'
<1> DEFINE c == Container("data")
<1>1. /\ host.phase = "sending" /\ Len(wire) < 2 /\ wire' = Append(wire, c)
      /\ host' = [host EXCEPT !.phase = "waiting"] /\ UNCHANGED <<pc, req, data, resp, rare>>
  BY DEF SendPayload
<1>2. /\ host'.phase = "waiting" /\ host'.op = host.op /\ host'.tid = host.tid
      /\ host'.par = host.par /\ host'.payload = host.payload /\ DOMAIN host' = DOMAIN host
      /\ host.op \in DataIn /\ host.tid \in 0..(Tids - 1)
  BY <1>1 DEF PacketsInv, HostOK
<1>3. c.kind = "data" /\ c.op = host.op /\ c.tid = host.tid /\ c.payload = host.payload
  BY DEF Container
<1> HIDE DEF c
<1>4. /\ Len(wire') = Len(wire) + 1 /\ wire' = [i \in 1..Len(wire') |-> wire'[i]]
      /\ wire'[Len(wire')] = c /\ wire' # <<>> /\ Len(wire) \in 0..1
      /\ \A i \in 1..Len(wire) : wire'[i] = wire[i]
  BY <1>1, WireAppend DEF PacketsInv, WireOK
<1>5. Loop' /\ HostOK'
  BY <1>1, <1>2 DEF PacketsInv, Loop, HostOK
<1>6. WireOK'
  <2>1. \A i \in 1..Len(wire') : wire'[i].tid \in 0..(Tids - 1)
    <3> TAKE i \in 1..Len(wire')
    <3>1. i = Len(wire') \/ i \in 1..Len(wire)  BY <1>4
    <3> QED  BY <3>1, <1>2, <1>3, <1>4 DEF PacketsInv, WireOK
  <2>2. Len(wire') \in 0..2  BY <1>4
  <2> QED  BY <2>1, <2>2, <1>4, Zenon DEF WireOK
<1>7. \A tid : Stale(tid)' <=> Stale(tid)
  BY <1>1, <1>2, StaleWhile
<1>8. StaleReq => StaleReq'
  BY <1>1, <1>7 DEF StaleReq
<1>9. IsPayload(wire[Len(wire)])'
  BY <1>2, <1>3, <1>4 DEF IsPayload
<1>10. CASE Queued
  <2>1. Len(wire) = 1 /\ IsRequest(wire[1]) /\ StaleReq'
    BY <1>10, <1>1, <1>4, <1>8 DEF Queued
  <2>2. Len(wire') = 2 /\ wire'[1] = wire[1]
    BY <2>1, <1>4
  <2>3. IsRequest(wire[1])'
    BY <2>1, <2>2, <1>2 DEF IsRequest
  <2>4. Queued'
    BY <2>1, <2>2, <2>3, <1>2, <1>9 DEF Queued
  <2> QED  BY <2>4, <1>5, <1>6 DEF PacketsInv, Placed
<1>11. CASE wire = <<>>
  <2>1. Len(wire') = 1
    BY <1>11, <1>4
  <2>2. IsPayload(wire[1])'
    BY <2>1, <1>9
  <2>3. CASE Working
    <3>1. Working'
      BY <2>1, <2>2, <2>3, <1>1, <1>2 DEF Working, IsReq
    <3> QED  BY <3>1, <1>5, <1>6 DEF PacketsInv, Placed
  <2>4. CASE Lost
    <3>1. Lost'
      BY <2>1, <2>2, <2>4, <1>1, <1>2, <1>8 DEF Lost
    <3> QED  BY <3>1, <1>5, <1>6 DEF PacketsInv, Placed
  <2> QED  BY <2>3, <2>4, <1>1, <1>11 DEF PacketsInv, Placed, Queued, Heard, GivenUp
<1> QED  BY <1>1, <1>10, <1>11 DEF PacketsInv, Placed, Working, Lost, Heard, GivenUp

\* When the host has its response, nothing of the transaction is left.
LEMMA ConcludeKeeps ==
  ASSUME PacketsInv, Conclude PROVE PacketsInv'
<1>1. host.phase = "done" /\ host' = Idle(host.tid) /\ UNCHANGED <<pc, req, data, resp, wire, rare>>
  BY DEF Conclude, Forget
<1>2. /\ host'.phase = "idle" /\ host'.tid = host.tid /\ host'.par = <<>>
      /\ DOMAIN host' = {"phase", "op", "par", "payload", "heard", "tid"}
  BY <1>1 DEF Idle
<1>3. Heard
  BY <1>1 DEF PacketsInv, Placed, Queued, Working, Lost, GivenUp
<1>4. Pars(<<>>)
  BY DEF Pars
<1>5. Loop' /\ HostOK' /\ WireOK'
  BY <1>1, <1>2, <1>4 DEF PacketsInv, Loop, HostOK, WireOK
<1>6. Len(wire') = 0 /\ pc' = "request"
  BY <1>1, <1>3 DEF Heard
<1>7. GivenUp'
  BY <1>2, <1>6 DEF GivenUp, StaleReq, StaleWire
<1> QED  BY <1>5, <1>7 DEF PacketsInv, Placed

\* A host that gives up leaves nothing behind, or something went wrong and all it leaves is stale.
LEMMA GiveUpKeeps ==
  ASSUME PacketsInv, GiveUp PROVE PacketsInv'
<1>1. /\ host.phase \in {"sending", "waiting"} /\ host' = Idle(host.tid)
      /\ wire' \in {wire, <<>>} /\ UNCHANGED <<pc, req, data, resp>>
      /\ \/ pc = "request" /\ wire = <<>> /\ rare' = rare
         \/ rare < MaxRare /\ rare' = rare + 1
  BY DEF GiveUp, Forget
<1>2. /\ host'.phase = "idle" /\ host'.tid = host.tid /\ host'.par = <<>>
      /\ DOMAIN host' = {"phase", "op", "par", "payload", "heard", "tid"}
  BY <1>1 DEF Idle
<1>3. Pars(<<>>) /\ Len(<<>>) = 0 /\ <<>> = [i \in 1..Len(<<>>) |-> <<>>[i]]
  BY DEF Pars
<1>4. Loop' /\ HostOK'
  BY <1>1, <1>2, <1>3, PacketsAssumption DEF PacketsInv, Loop, HostOK
<1>5. WireOK'
  <2>1. CASE wire' = wire
    BY <2>1 DEF PacketsInv, WireOK
  <2>2. CASE wire' = <<>>
    <3>1. \A i \in 1..Len(<<>>) : (wire'[i]).tid \in 0..(Tids - 1)  BY <1>3
    <3>2. Len(<<>>) \in 0..2  BY <1>3
    <3> QED  BY <3>1, <3>2, <2>2, <1>3, Zenon DEF WireOK
  <2> QED  BY <2>1, <2>2, <1>1
<1>6. CASE pc = "request" /\ wire = <<>>
  <2>1. Len(wire') = 0 /\ pc' = "request"
    BY <1>1, <1>6
  <2>2. GivenUp'
    BY <2>1, <1>2 DEF GivenUp, StaleReq, StaleWire
  <2> QED  BY <2>2, <1>4, <1>5 DEF PacketsInv, Placed
<1>7. CASE rare < MaxRare /\ rare' = rare + 1
  <2>1. ASSUME NEW tid \in 0..(Tids - 1), tid = host.tid \/ Stale(tid) PROVE Stale(tid)'
    BY <2>1, <1>1, <1>7, GivenUpIsStale DEF PacketsInv
  <2>2. pc = "request" \/ req.tid = host.tid \/ Stale(req.tid)
    BY <1>1 DEF PacketsInv, Placed, Queued, Working, Lost, Heard, GivenUp, StaleReq, IsReq, Mistaken
  <2>3. StaleReq'
    BY <2>1, <2>2, <1>1 DEF StaleReq, PacketsInv, Loop
  <2>4. \A i \in 1..Len(wire) : wire[i].tid = host.tid \/ Stale(wire[i].tid)
    BY <1>1 DEF PacketsInv, WireOK, Placed, Queued, Working, Lost, Heard, GivenUp, StaleWire,
                IsRequest, IsPayload
  <2>5. StaleWire(Len(wire))'
    <3>1. CASE wire' = wire
      BY <3>1, <2>1, <2>4 DEF StaleWire, PacketsInv, WireOK
    <3>2. CASE Len(wire') = 0
      BY <3>2 DEF StaleWire
    <3> QED  BY <3>1, <3>2, <1>1, <1>3
  <2> QED  BY <2>3, <2>5, <1>2, <1>4, <1>5 DEF GivenUp, PacketsInv, Placed
<1> QED  BY <1>1, <1>6, <1>7

-----------------------------------------------------------------------------
(* The theorems.                                                           *)

\* Where the containers of a transaction are, throughout: the inductive invariant of run().
THEOREM PacketsInvariance == Spec => []PacketsInv
<1>1. ASSUME PacketsInv, [Next]_vars PROVE PacketsInv'
  <2>1. CASE UNCHANGED vars
    <3>1. \A tid : Stale(tid)' <=> Stale(tid)  BY <2>1 DEF vars, Stale, Now
    <3>2. StaleReq' <=> StaleReq  BY <2>1, <3>1 DEF vars, StaleReq
    <3>3. \A n : StaleWire(n)' <=> StaleWire(n)  BY <2>1, <3>1 DEF vars, StaleWire
    <3>4. Loop' /\ HostOK' /\ WireOK'
      BY <1>1, <2>1 DEF vars, PacketsInv, Loop, HostOK, WireOK
    <3>5. Placed'
      BY <1>1, <2>1, <3>2, <3>3 DEF vars, PacketsInv, Placed, Queued, Working, Lost, Mistaken, Heard,
                                    GivenUp, IsReq, IsRequest, IsPayload
    <3> QED  BY <3>4, <3>5 DEF PacketsInv
  <2>2. CASE Next
    BY <1>1, <2>2, ReceiveKeeps, ReceiveDataKeeps, DataLateKeeps, HandlerKeeps, SendDataKeeps,
       RespondKeeps, WriteFailsKeeps, AskKeeps, SendPayloadKeeps, ConcludeKeeps, GiveUpKeeps DEF Next
  <2> QED  BY <1>1, <2>1, <2>2
<1> QED  BY <1>1, InitPlaced, PTL DEF Spec

\* A response the host takes for the answer to its request was made for that request, with its
\* parameters and its data, for any number of things going wrong, as long as transaction ids do not
\* come around (run, handleRequest).
THEOREM AnswersAreRight == Spec => []AnswersItsRequest
<1>1. PacketsInv => AnswersItsRequest
  BY DEF PacketsInv, Placed, Queued, Working, Lost, Heard, GivenUp, AnswersItsRequest, Told
<1> QED  BY <1>1, PacketsInvariance, PTL

\* Unless something went wrong, the responder does not wait for a request while the host waits for
\* an answer and nothing is under way (run).
THEOREM NothingUnanswered == Spec => []NoneUnanswered
<1>1. PacketsInv => NoneUnanswered
  BY DEF PacketsInv, Placed, Queued, Working, Lost, Heard, GivenUp, IsReq, NoneUnanswered
<1> QED  BY <1>1, PacketsInvariance, PTL

-----------------------------------------------------------------------------
(* Induction and recursion, for sets and functions instead of operators.   *)

\* A set of numbers has a least member.
LEMMA Least ==
  ASSUME NEW T \in SUBSET Nat, T # {}
  PROVE  \E x \in T : \A y \in T : x <= y
<1>. DEFINE R == {ss \in Nat \X Nat : ss[1] < ss[2]}
<1>1. IsWellFoundedOn(R, Nat)
  <2>1. OpToRel(<, Nat) = R
    BY DEF OpToRel
  <2>2. IsWellFoundedOn(OpToRel(<, Nat), Nat)
    BY NatLessThanWellFounded
  <2>. QED BY <2>1, <2>2
<1>2. \A x, y \in Nat : y < x => <<y, x>> \in R
  OBVIOUS
<1>. HIDE DEF R
<1>3. \E x \in T : \A y \in T : ~ (<<y, x>> \in R)
  BY <1>1, WFMin
<1>4. PICK x \in T : \A y \in T : ~ (<<y, x>> \in R)
  BY <1>3
<1>5. ASSUME NEW y \in T PROVE x <= y
  <2>1. x \in Nat /\ y \in Nat
    OBVIOUS
  <2>2. ~(y < x)
    BY <1>2, <1>4, <2>1
  <2>. QED BY <2>1, <2>2
<1>. QED
  BY <1>5

\* A set with 0 and with every successor of its members has all numbers.
LEMMA Induct ==
  ASSUME NEW S, 0 \in S, \A n \in Nat : n \in S => n + 1 \in S
  PROVE  \A n \in Nat : n \in S
<1> SUFFICES ASSUME NEW m \in Nat, m \notin S PROVE FALSE  OBVIOUS
<1> DEFINE T == {n \in Nat : n \notin S}
<1>1. PICK s \in T : \A t \in T : s <= t  BY Least
<1>2. s # 0  BY <1>1
<1>3. s - 1 \in Nat /\ s - 1 \in S  BY <1>1, <1>2
<1>4. (s - 1) + 1 \in S  BY <1>3
<1> QED  BY <1>1, <1>4

\* f goes from base by steps.
Goes(f, n, base, step) == f[0] = base /\ \A i \in 1..n : f[i] = step[<<i, f[i - 1]>>]

\* Steps from a value of V to a value of V can be taken one after the other.
LEMMA Recursion ==
  ASSUME NEW n \in Nat, NEW V, NEW base \in V, NEW step \in [(1..n) \X V -> V]
  PROVE  \E f \in [0..n -> V] : Goes(f, n, base, step)
<1> DEFINE Is(k, f) == f[0] = base /\ \A i \in 1..k : f[i] = step[<<i, f[i - 1]>>]
           S == {k \in Nat : k <= n => \E f \in [0..k -> V] : Is(k, f)}
<1>1. 0 \in S
  <2>1. [i \in 0..0 |-> base] \in [0..0 -> V] /\ Is(0, [i \in 0..0 |-> base])  OBVIOUS
  <2> QED  BY <2>1
<1>2. ASSUME NEW k \in Nat, k \in S PROVE k + 1 \in S
  <2> SUFFICES ASSUME k + 1 <= n PROVE \E f \in [0..(k + 1) -> V] : Is(k + 1, f)  OBVIOUS
  <2>1. PICK f \in [0..k -> V] : Is(k, f)  BY <1>2
  <2> DEFINE v == step[<<k + 1, f[k]>>]
             g == [i \in 0..(k + 1) |-> IF i = k + 1 THEN v ELSE f[i]]
  <2>2. v \in V  BY <2>1
  <2>3. g \in [0..(k + 1) -> V]  BY <2>1, <2>2
  <2>4. g[0] = base  BY <2>1
  <2>5. ASSUME NEW i \in 1..(k + 1) PROVE g[i] = step[<<i, g[i - 1]>>]
    <3>1. i - 1 \in 0..k /\ g[i - 1] = f[i - 1]  BY <2>1
    <3>2. CASE i = k + 1
      <4>1. g[i] = v /\ i - 1 = k  BY <3>2
      <4> QED  BY <3>1, <3>2, <4>1
    <3>3. CASE i # k + 1
      <4>1. i \in 1..k /\ g[i] = f[i]  BY <3>3
      <4>2. f[i] = step[<<i, f[i - 1]>>]  BY <4>1, <2>1
      <4> QED  BY <4>1, <4>2, <3>1
    <3> QED  BY <3>2, <3>3
  <2>6. Is(k + 1, g)  BY <2>4, <2>5
  <2> QED  BY <2>3, <2>6
<1>3. n \in S
  <2> HIDE DEF S
  <2> QED  BY <1>1, <1>2, Induct
<1> QED  BY <1>3 DEF Goes

-----------------------------------------------------------------------------
(* Sequences one after the other.                                          *)

\* Where each of the sequences ss ends.
Ends(ss, e) == e \in [0..Len(ss) -> Nat] /\ e[0] = 0 /\ \A i \in 1..Len(ss) : e[i] = e[i - 1] + Len(ss[i])

\* FlattenSeq joins the sequences from the first on.
LEMMA FlattenIs ==
  ASSUME NEW S, NEW ss \in Seq(Seq(S))
  PROVE  \E f \in [0..Len(ss) -> Seq(S)] :
           f[0] = <<>> /\ (\A i \in 1..Len(ss) : f[i] = f[i - 1] \o ss[i]) /\ FlattenSeq(ss) = f[Len(ss)]
<1> DEFINE n == Len(ss)
<1>0. n \in Nat /\ \A i \in 1..n : ss[i] \in Seq(S)  BY LenProperties
<1>1. PICK f \in [0..n -> Seq(S)] : f[0] = <<>> /\ \A i \in 1..n : f[i] = f[i - 1] \o ss[i]
  <2> DEFINE step == [x \in (1..n) \X Seq(S) |-> x[2] \o ss[x[1]]]
  <2>1. step \in [(1..n) \X Seq(S) -> Seq(S)]  BY <1>0, ConcatProperties
  <2>2. <<>> \in Seq(S)  OBVIOUS
  <2>3. \E f \in [0..n -> Seq(S)] : Goes(f, n, <<>>, step)
    <3> HIDE DEF step, n
    <3> QED  BY <2>1, <2>2, <1>0, Recursion
  <2>4. PICK f \in [0..n -> Seq(S)] : f[0] = <<>> /\ \A i \in 1..n : f[i] = step[<<i, f[i - 1]>>]
    BY <2>3 DEF Goes
  <2>5. ASSUME NEW i \in 1..n PROVE step[<<i, f[i - 1]>>] = f[i - 1] \o ss[i]
    <3>1. i - 1 \in 0..n  BY <1>0
    <3>2. f[i - 1] \in Seq(S)  BY <3>1, <2>4
    <3>3. <<i, f[i - 1]>> \in (1..n) \X Seq(S)  BY <3>2
    <3> QED  BY <3>3
  <2> QED  BY <2>4, <2>5, ZenonT(60)
<1>2. CASE n = 0
  <2>1. ss = <<>>  BY <1>2, EmptySeq
  <2> QED  BY <1>1, <1>2, <2>1 DEF FlattenSeq
<1>3. CASE n # 0
  <2> DEFINE Is(h) == h = [i \in 1..n |-> IF i = 1 THEN ss[i] ELSE h[i - 1] \o ss[i]]
             g == [i \in 1..n |-> f[i]]
             h == CHOOSE h : Is(h)
  <2>1. Is(g)
    <3>1. ASSUME NEW i \in 1..n PROVE g[i] = IF i = 1 THEN ss[i] ELSE g[i - 1] \o ss[i]
      <4>1. CASE i = 1
        <5>1. f[1] = <<>> \o ss[1]
          <6>1. 1 \in 1..n /\ 1 - 1 = 0  BY <4>1, <1>0, <1>3
          <6> QED  BY <1>1, <6>1, Zenon
        <5>2. ss[1] \in Seq(S)  BY <1>0, <4>1
        <5> QED  BY <5>1, <5>2, <4>1, ConcatEmptySeq
      <4>2. CASE i # 1
        <5>1. i - 1 \in 1..n  BY <4>2, <1>0
        <5> QED  BY <5>1, <1>1, <4>2
      <4> QED  BY <4>1, <4>2
    <3> QED  BY <3>1, Zenon
  <2>2. Is(h)  BY <2>1, Zenon
  <2>3. FlattenSeq(ss) = h[n]  BY <1>3, Zenon DEF FlattenSeq
  <2>4. \A i \in 1..n : h[i] = IF i = 1 THEN ss[i] ELSE h[i - 1] \o ss[i]
    <3> HIDE DEF h
    <3>1. h = [i \in 1..n |-> IF i = 1 THEN ss[i] ELSE h[i - 1] \o ss[i]]  BY <2>2
    <3> QED  BY <3>1, Zenon
  <2>5. \A k \in Nat : k \in {l \in Nat : l \in 1..n => h[l] = f[l]}
    <3> DEFINE T == {k \in Nat : k \in 1..n => h[k] = f[k]}
    <3>1. 0 \in T  OBVIOUS
    <3>2. ASSUME NEW k \in Nat, k \in T PROVE k + 1 \in T
      <4> SUFFICES ASSUME k + 1 \in 1..n PROVE h[k + 1] = f[k + 1]  OBVIOUS
      <4> HIDE DEF h
      <4>1. CASE k = 0
        <5>1. f[1] = <<>> \o ss[1]
          <6>1. 1 \in 1..n /\ 1 - 1 = 0  BY <4>1, <1>0, <1>3
          <6> QED  BY <1>1, <6>1, Zenon
        <5>2. ss[1] \in Seq(S) /\ h[1] = ss[1]  BY <1>0, <4>1, <2>4
        <5> QED  BY <5>1, <5>2, <4>1, ConcatEmptySeq
      <4>2. CASE k # 0
        <5>1. k \in 1..n /\ (k + 1) - 1 = k /\ k + 1 # 1  BY <4>2, <1>0
        <5>2. h[k] = f[k]  BY <3>2, <5>1
        <5>3. h[k + 1] = h[k] \o ss[k + 1]  BY <5>1, <2>4
        <5>4. f[k + 1] = f[k] \o ss[k + 1]  BY <5>1, <1>1
        <5> QED  BY <5>2, <5>3, <5>4
      <4> QED  BY <4>1, <4>2
    <3> HIDE DEF T
    <3>3. \A k \in Nat : k \in T  BY <3>1, <3>2, Induct
    <3> QED  BY <3>3 DEF T
  <2>6. h[n] = f[n]
    <3> HIDE DEF h
    <3> QED  BY <2>5, <1>0, <1>3
  <2> HIDE DEF h
  <2> QED  BY <1>1, <2>3, <2>6
<1> QED  BY <1>2, <1>3

\* There are ends, they do not go down, and every place up to the last end is in one of the sequences.
LEMMA EndsExist ==
  ASSUME NEW S, NEW ss \in Seq(Seq(S))
  PROVE  \E e : Ends(ss, e)
<1> DEFINE n == Len(ss)
           step == [x \in (1..n) \X Nat |-> x[2] + Len(ss[x[1]])]
<1>0. n \in Nat /\ \A i \in 1..n : ss[i] \in Seq(S) /\ Len(ss[i]) \in Nat  BY LenProperties
<1>1. step \in [(1..n) \X Nat -> Nat]  BY <1>0
<1>2. PICK e \in [0..n -> Nat] : Goes(e, n, 0, step)
  <2> HIDE DEF step, n
  <2> QED  BY <1>0, <1>1, Recursion
<1>3. ASSUME NEW i \in 1..n PROVE e[i] = e[i - 1] + Len(ss[i])
  <2>1. i - 1 \in 0..n  BY <1>0
  <2>2. <<i, e[i - 1]>> \in (1..n) \X Nat  BY <2>1
  <2>3. e[i] = step[<<i, e[i - 1]>>]  BY <1>2 DEF Goes
  <2> QED  BY <2>2, <2>3
<1>4. e[0] = 0  BY <1>2 DEF Goes
<1> QED  BY <1>3, <1>4 DEF Ends

\* Where a part ends is not before where an earlier one does.
LEMMA EndsGrow ==
  ASSUME NEW S, NEW ss \in Seq(Seq(S)), NEW e, Ends(ss, e), NEW j \in 0..Len(ss), NEW i \in 0..j
  PROVE  e[i] <= e[j]
<1> DEFINE n == Len(ss)
           T == {k \in Nat : i + k <= n => e[i] <= e[i + k]}
<1>0. n \in Nat /\ \A k \in 1..n : ss[k] \in Seq(S) /\ Len(ss[k]) \in Nat  BY LenProperties
<1>8. j \in Nat /\ i \in Nat /\ i \in 0..n /\ i + 0 = i  BY <1>0
<1>7. e \in [0..n -> Nat]  BY DEF Ends
<1>9. j \in Nat /\ i \in Nat /\ i \in 0..n /\ e[i] \in Nat /\ i + 0 = i  BY <1>7, <1>8
<1>1. 0 \in T  BY <1>9
<1>2. ASSUME NEW k \in Nat, k \in T PROVE k + 1 \in T
  <2> SUFFICES ASSUME i + (k + 1) <= n PROVE e[i] <= e[i + (k + 1)]  OBVIOUS
  <2>1. i + k <= n /\ e[i] <= e[i + k]  BY <1>2, <1>0, <1>9
  <2>2. i + (k + 1) \in 1..n /\ (i + (k + 1)) - 1 = i + k /\ i + k \in 0..n  BY <1>0, <1>9, <2>1
  <2>3. e[i + (k + 1)] = e[i + k] + Len(ss[i + (k + 1)])  BY <2>2 DEF Ends
  <2>4. e[i] \in Nat /\ e[i + k] \in Nat /\ Len(ss[i + (k + 1)]) \in Nat  BY <2>2, <1>0, <1>9 DEF Ends
  <2> QED  BY <2>1, <2>3, <2>4
<1>3. \A k \in Nat : k \in T
  <2> HIDE DEF T
  <2> QED  BY <1>1, <1>2, Induct
<1>4. j - i \in Nat /\ i + (j - i) = j  BY <1>0
<1>5. j - i \in T  BY <1>3, <1>4
<1> QED  BY <1>4, <1>5, <1>0

\* Each place lies in one of the parts.
LEMMA EndsCover ==
  ASSUME NEW S, NEW ss \in Seq(Seq(S)), NEW e, Ends(ss, e), NEW p \in 1..e[Len(ss)]
  PROVE  \E i \in 1..Len(ss) : e[i - 1] < p /\ p <= e[i]
<1> DEFINE n == Len(ss)
           T == {k \in Nat : k \in 0..n /\ p <= e[k]}
<1>0. n \in Nat  BY LenProperties
<1>1. n \in T  BY <1>0 DEF Ends
<1>2. PICK i \in T : \A k \in T : i <= k
  <2> HIDE DEF n
  <2>1. T \in SUBSET Nat /\ T # {}  BY <1>1
  <2> QED  BY <2>1, Least
<1>3. i # 0  BY <1>0, <1>2 DEF Ends
<1>4. i \in 1..n /\ i - 1 \in 0..n /\ i - 1 \notin T  BY <1>0, <1>2, <1>3
<1>5. e[i - 1] \in Nat  BY <1>4 DEF Ends
<1> QED  BY <1>2, <1>4, <1>5

\* What FlattenSeq makes: each sequence is where the one before it ends.
Lies(flat, ss, e) ==
  /\ Len(flat) = e[Len(ss)]
  /\ \A i \in 1..Len(ss) : \A k \in 1..Len(ss[i]) : flat[e[i - 1] + k] = ss[i][k]

\* The parts lie in the flattened sequence one behind the other.
LEMMA FlattenLies ==
  ASSUME NEW S, NEW ss \in Seq(Seq(S)), NEW e, Ends(ss, e)
  PROVE  FlattenSeq(ss) \in Seq(S) /\ Lies(FlattenSeq(ss), ss, e)
<1> DEFINE n == Len(ss)
<1>0. n \in Nat /\ \A k \in 1..n : ss[k] \in Seq(S) /\ Len(ss[k]) \in Nat  BY LenProperties
<1>1. PICK f \in [0..n -> Seq(S)] :
        f[0] = <<>> /\ (\A i \in 1..n : f[i] = f[i - 1] \o ss[i]) /\ FlattenSeq(ss) = f[n]
  BY FlattenIs
<1> DEFINE Good(j) == /\ Len(f[j]) = e[j]
                      /\ \A i \in 1..j : \A k \in 1..Len(ss[i]) : f[j][e[i - 1] + k] = ss[i][k]
           T == {j \in Nat : j <= n => Good(j)}
<1>2. 0 \in T  BY <1>0, <1>1 DEF Ends
<1>3. ASSUME NEW j \in Nat, j \in T PROVE j + 1 \in T
  <2> SUFFICES ASSUME j + 1 <= n PROVE Good(j + 1)  OBVIOUS
  <2>1. Good(j) /\ j \in 0..n /\ j + 1 \in 1..n /\ (j + 1) - 1 = j  BY <1>3, <1>0, SMTT(40)
  <2>2. f[j + 1] = f[j] \o ss[j + 1] /\ f[j] \in Seq(S) /\ ss[j + 1] \in Seq(S)  BY <2>1, <1>1, <1>0
  <2>3. e[j + 1] = e[j] + Len(ss[j + 1]) /\ e[j] \in Nat  BY <2>1 DEF Ends
  <2>4. /\ Len(f[j + 1]) = Len(f[j]) + Len(ss[j + 1])
        /\ \A i \in 1..Len(f[j]) + Len(ss[j + 1]) :
             f[j + 1][i] = IF i <= Len(f[j]) THEN f[j][i] ELSE ss[j + 1][i - Len(f[j])]
    <3> DEFINE p == f[j]
               q == ss[j + 1]
    <3>1. p \in Seq(S) /\ q \in Seq(S) /\ f[j + 1] = p \o q  BY <2>2
    <3> HIDE DEF p, q
    <3>2. /\ Len(p \o q) = Len(p) + Len(q)
          /\ \A i \in 1..Len(p) + Len(q) : (p \o q)[i] = IF i <= Len(p) THEN p[i] ELSE q[i - Len(p)]
      BY <3>1, ConcatProperties
    <3>3. /\ Len(f[j + 1]) = Len(p) + Len(q)
          /\ \A i \in 1..Len(p) + Len(q) : f[j + 1][i] = IF i <= Len(p) THEN p[i] ELSE q[i - Len(p)]
      BY <3>1, <3>2
    <3> QED  BY <3>3 DEF p, q
  <2>5. Len(f[j]) = e[j] /\ Len(ss[j + 1]) \in Nat  BY <2>1, <1>0
  <2>6. ASSUME NEW i \in 1..(j + 1), NEW k \in 1..Len(ss[i])
        PROVE  f[j + 1][e[i - 1] + k] = ss[i][k]
    <3>9. i - 1 \in 0..n /\ i \in 1..n  BY <1>0, <2>1
    <3>0. i - 1 \in 0..n /\ e[i - 1] \in Nat /\ i \in 1..n /\ Len(ss[i]) \in Nat  BY <1>0, <3>9 DEF Ends
    <3>1. CASE i = j + 1
      <4>1. e[i - 1] = e[j]  BY <3>1, <2>1
      <4>2. e[j] + k \in 1..(Len(f[j]) + Len(ss[j + 1])) /\ ~(e[j] + k <= Len(f[j])) /\ (e[j] + k) - Len(f[j]) = k
        BY <2>3, <2>5, <3>1, <3>0, SMTT(40)
      <4>3. f[j + 1][e[j] + k] = ss[j + 1][(e[j] + k) - Len(f[j])]  BY <4>2, <2>4
      <4> QED  BY <4>1, <4>2, <4>3, <3>1
    <3>2. CASE i # j + 1
      <4>1. i \in 1..j  BY <3>2, <2>1
      <4>2. f[j][e[i - 1] + k] = ss[i][k]  BY <4>1, <2>1
      <4>3. e[i] = e[i - 1] + Len(ss[i]) /\ e[i] <= e[j]
        <5>1. e[i] <= e[j]  BY <4>1, <2>1, EndsGrow
        <5> QED  BY <5>1, <3>0 DEF Ends
      <4>4. e[i - 1] + k \in 1..(Len(f[j]) + Len(ss[j + 1])) /\ e[i - 1] + k <= Len(f[j])
        <5> DEFINE a == e[i - 1]
                   l == Len(ss[i])
                   c == Len(f[j])
                   d == Len(ss[j + 1])
        <5>1. a \in Nat /\ l \in Nat /\ c \in Nat /\ d \in Nat /\ a + l <= c /\ k \in 1..l
          BY <3>0, <4>3, <2>3, <2>5
        <5> HIDE DEF a, l, c, d
        <5>2. a + k \in 1..(c + d) /\ a + k <= c  BY <5>1
        <5> QED  BY <5>2 DEF a, c, d
      <4> QED  BY <4>2, <4>4, <2>4
    <3> QED  BY <3>1, <3>2
  <2> QED  BY <2>3, <2>4, <2>5, <2>6
<1>4. n \in T
  <2> HIDE DEF T
  <2> QED  BY <1>0, <1>2, <1>3, Induct
<1>5. Good(n)
  <2>1. n \in Nat /\ n <= n  BY <1>0
  <2> HIDE DEF n, Good
  <2> QED  BY <1>4, <2>1
<1> QED  BY <1>0, <1>1, <1>5 DEF Lies

\* What is behind the end of sequence i.
Rest(flat, e, i) == SubSeq(flat, e[i] + 1, Len(flat))

\* Behind the first sequences are the others.
LEMMA FlattenRest ==
  ASSUME NEW S, NEW ss \in Seq(Seq(S)), NEW e, NEW flat \in Seq(S), NEW i \in 1..Len(ss),
         Ends(ss, e), Lies(flat, ss, e)
  PROVE  /\ Rest(flat, e, i) \in Seq(S)
         /\ Rest(flat, e, i - 1) = ss[i] \o Rest(flat, e, i)
<1> DEFINE n == Len(ss)
           m == Len(flat)
           a == e[i - 1]
           b == e[i]
           x == SubSeq(flat, a + 1, m)
           y == SubSeq(flat, b + 1, m)
<1>0. n \in Nat /\ ss[i] \in Seq(S) /\ Len(ss[i]) \in Nat /\ i - 1 \in 0..n /\ i \in 0..n  BY LenProperties
<1>9. e \in [0..n -> Nat] /\ e[i] = e[i - 1] + Len(ss[i])  BY DEF Ends
<1>10. a \in Nat /\ b \in Nat /\ b = a + Len(ss[i]) /\ e[n] \in Nat
  <2>1. i - 1 \in 0..n /\ i \in 0..n /\ n \in 0..n  BY <1>0
  <2> HIDE DEF n
  <2> QED  BY <2>1, <1>9
<1>11. m = e[n]  BY DEF Lies
<1>1. a \in Nat /\ b \in Nat /\ b = a + Len(ss[i]) /\ m = e[n] /\ m \in Nat
  <2> HIDE DEF a, b, m
  <2> QED  BY <1>10, <1>11
<1>12. PICK l \in Nat : l = Len(ss[i])  BY <1>0
<1>2. b <= m
  <2>1. n \in 0..Len(ss) /\ i \in 0..n  BY <1>0
  <2>2. e[i] <= e[n]  BY <2>1, EndsGrow
  <2> QED  BY <2>2, <1>1
<1>3. \A k \in 1..m : flat[k] \in S  BY LenProperties
<1>4. x \in Seq(S) /\ Len(x) = m - a /\ \A k \in 1..(m - a) : x[k] = flat[a + k]
  <2>1. \A k \in (a + 1)..m : flat[k] \in S  BY <1>1, <1>3, SMTT(40)
  <2>2. /\ x \in Seq(S) /\ Len(x) = IF a + 1 <= m THEN m - (a + 1) + 1 ELSE 0
        /\ \A k \in 1..(m - (a + 1) + 1) : x[k] = flat[(a + 1) + k - 1]
    <3>1. a + 1 \in Int /\ m \in Int  BY <1>1
    <3> HIDE DEF a, m
    <3> QED  BY <2>1, <3>1, SubSeqProperties, SMTT(40)
  <2> HIDE DEF a, m, b, x
  <2>9. a \in Nat /\ m \in Nat /\ a <= m  BY <1>1, <1>2, <1>12
  <2>8. m - (a + 1) + 1 = m - a  BY <2>9
  <2>3. Len(x) = m - a  BY ONLY <2>2, <2>9
  <2>4. \A k \in 1..(m - a) : (a + 1) + k - 1 = a + k  BY <1>1
  <2> QED  BY <2>2, <2>3, <2>4, <2>8
<1>5. y \in Seq(S) /\ Len(y) = m - b /\ \A k \in 1..(m - b) : y[k] = flat[b + k]
  <2>1. \A k \in (b + 1)..m : flat[k] \in S  BY <1>1, <1>3
  <2>2. /\ y \in Seq(S) /\ Len(y) = IF b + 1 <= m THEN m - (b + 1) + 1 ELSE 0
        /\ \A k \in 1..(m - (b + 1) + 1) : y[k] = flat[(b + 1) + k - 1]
    <3>1. b + 1 \in Int /\ m \in Int  BY <1>1
    <3> HIDE DEF b, m
    <3> QED  BY <2>1, <3>1, SubSeqProperties
  <2> HIDE DEF a, m, b, y
  <2>9. b \in Nat /\ m \in Nat /\ b <= m  BY <1>1, <1>2, <1>12
  <2>8. m - (b + 1) + 1 = m - b  BY <2>9
  <2>3. Len(y) = m - b  BY ONLY <2>2, <2>9
  <2>4. \A k \in 1..(m - b) : (b + 1) + k - 1 = b + k  BY <1>1
  <2> QED  BY <2>2, <2>3, <2>4, <2>8
<1>6. /\ ss[i] \o y \in Seq(S) /\ Len(ss[i] \o y) = Len(ss[i]) + Len(y)
      /\ \A k \in 1..Len(ss[i]) + Len(y) : (ss[i] \o y)[k] = IF k <= Len(ss[i]) THEN ss[i][k] ELSE y[k - Len(ss[i])]
  <2> HIDE DEF y
  <2> QED  BY <1>0, <1>5, ConcatProperties
<1>7. ASSUME NEW k \in 1..Len(x) PROVE x[k] = (ss[i] \o y)[k]
  <2> DEFINE lx == Len(x)
             ly == Len(y)
  <2>9. l \in Nat /\ a \in Nat /\ b \in Nat /\ m \in Nat /\ b <= m /\ b = a + l /\ lx = m - a /\ ly = m - b
    <3> HIDE DEF x, y, a, b, m
    <3> QED  BY <1>1, <1>2, <1>12, <1>4, <1>5
  <2>1. k \in 1..(m - a) /\ k \in 1..(l + ly) /\ x[k] = flat[a + k]
    <3>1. k \in 1..lx  OBVIOUS
    <3> HIDE DEF x, y, a, b, m, lx, ly
    <3>2. k \in 1..(m - a) /\ k \in 1..(l + ly)  BY <3>1, <2>9
    <3> QED  BY <3>2, <1>4
  <2>2. CASE k <= Len(ss[i])
    <3>0. k \in 1..Len(ss[i])
      <4> HIDE DEF x, y, a, b, m, lx, ly
      <4> QED  BY <2>1, <2>2, <2>9, <1>12
    <3>1. flat[a + k] = ss[i][k]  BY <3>0 DEF Lies
    <3> HIDE DEF x, y, a, b, m
    <3> QED  BY <2>1, <2>2, <3>1, <1>6, <1>12
  <2>3. CASE ~(k <= Len(ss[i]))
    <3> HIDE DEF x, y, a, b, m
    <3>0. ~(k <= l)  BY <2>3, <1>12
    <3>1. k - l \in 1..(m - b) /\ b + (k - l) = a + k
      <4> HIDE DEF lx, ly
      <4> QED  BY <2>9, <2>1, <3>0
    <3>2. y[k - l] = flat[a + k]  BY <3>1, <1>5
    <3> QED  BY <2>1, <2>3, <3>2, <1>6, <1>12
  <2> QED  BY <2>2, <2>3
<1>8. Len(x) = Len(ss[i] \o y)
  <2> DEFINE lx == Len(x)
             ly == Len(y)
  <2>1. l \in Nat /\ a \in Nat /\ b \in Nat /\ m \in Nat /\ b = a + l /\ lx = m - a /\ ly = m - b
    <3> HIDE DEF x, y, a, b, m
    <3> QED  BY <1>1, <1>12, <1>4, <1>5
  <2>2. Len(ss[i] \o y) = l + ly  BY <1>6, <1>12
  <2>3. lx = l + ly
    <3> HIDE DEF x, y, a, b, m, lx, ly
    <3> QED  BY <2>1
  <2> QED  BY <2>2, <2>3
<1>13. x = ss[i] \o y
  <2> HIDE DEF x, y
  <2> QED  BY <1>4, <1>6, <1>7, <1>8, SeqEqual
<1>14. Rest(flat, e, i) = y /\ Rest(flat, e, i - 1) = x  BY Zenon DEF Rest
<1> HIDE DEF x, y
<1> QED  BY <1>5, <1>13, <1>14

\* A quotient and a remainder are the quotient and the remainder.
LEMMA DivideIs ==
  ASSUME NEW d \in Nat, d > 0, NEW q \in Nat, NEW r \in 0..(d - 1)
  PROVE  (r + d * q) % d = r /\ (r + d * q) \div d = q
<1> DEFINE v == r + d * q
           x == v \div d
           y == v % d
<1>1. d * q \in Nat  BY SMT
<1>2. v \in Nat  BY <1>1
<1>3. x \in Int /\ y \in 0..(d - 1) /\ v = d * x + y
  <2> HIDE DEF v
  <2> QED  BY <1>2, SMT
<1>4. d * (x - q) = r - y
  <2>1. d * x + y = r + d * q  BY <1>3
  <2>2. d * (x - q) = d * x - d * q  
    <3> HIDE DEF x
    <3> QED BY <1>3, SMT
  <2> DEFINE a == d * x
             b == d * q
  <2>3. a \in Int /\ b \in Int
    <3> HIDE DEF x
    <3> QED BY <1>3, SMT
  <2> HIDE DEF x, y, a, b
  <2>4. a + y = r + b  BY <2>1 DEF a, b
  <2>5. a - b = r - y  BY <2>3, <2>4, <1>3
  <2> QED  BY <2>2, <2>5 DEF a, b
<1>5. x = q
  <2> HIDE DEF x, y, v
  <2>1. ~(x - q >= 1)
    <3> SUFFICES ASSUME x - q >= 1 PROVE FALSE  OBVIOUS
    <3>1. d * (x - q) >= d  BY <1>3, SMT
    <3> QED  BY <3>1, <1>4, <1>3
  <2>2. ~(q - x >= 1)
    <3> SUFFICES ASSUME q - x >= 1 PROVE FALSE  OBVIOUS
    <3>1. d * (x - q) <= 0 - d  BY <1>3, SMT
    <3> QED  BY <3>1, <1>4, <1>3
  <2> QED  BY <2>1, <2>2, <1>3
<1>6. y = r
  <2> HIDE DEF y, v
  <2>1. d * (x - q) = 0  BY <1>5, <1>3, SMT
  <2> HIDE DEF x
  <2> QED  BY <2>1, <1>4, <1>3
<1> QED  BY <1>5, <1>6

\* Behind the first of two sequences is the second.
LEMMA BehindConcat ==
  ASSUME NEW S, NEW p \in Seq(S), NEW q \in Seq(S)
  PROVE  SubSeq(p \o q, Len(p) + 1, Len(p \o q)) = q
<1> DEFINE c == p \o q
           m == Len(p) + 1
           n == Len(c)
           x == SubSeq(c, m, n)
<1>1. PICK a \in Nat : a = Len(p)  BY LenProperties
<1>2. PICK b \in Nat : b = Len(q)  BY LenProperties
<1>3. c \in Seq(S) /\ n = a + b /\ \A i \in 1..(a + b) : c[i] = IF i <= a THEN p[i] ELSE q[i - a]
  BY <1>1, <1>2, ConcatProperties
<1>4. m = a + 1 /\ m \in Int /\ n \in Int  BY <1>1, <1>2, <1>3
<1>5. \A i \in 1..n : c[i] \in S
  <2> HIDE DEF c
  <2> QED BY <1>3, LenProperties
<1>6. \A i \in m..n : c[i] \in S
  <2> HIDE DEF c, n, m
  <2> QED  BY <1>4, <1>5
<1>7. x \in Seq(S) /\ (Len(x) = IF m <= n THEN n - m + 1 ELSE 0) /\ \A i \in 1..(n - m + 1) : x[i] = c[m + i - 1]
  <2> HIDE DEF c, n, m
  <2> QED  BY <1>4, <1>6, SubSeqProperties
<1>8. Len(x) = b /\ n - m + 1 = b
  <2> HIDE DEF c, n, m, x
  <2> QED  BY <1>3, <1>4, <1>7
<1>9. ASSUME NEW i \in 1..b PROVE x[i] = q[i]
  <2> HIDE DEF c, n, m, x
  <2>1. x[i] = c[m + i - 1]  BY <1>7, <1>8
  <2>2. m + i - 1 = a + i /\ a + i \in 1..(a + b) /\ ~(a + i <= a) /\ (a + i) - a = i  BY <1>4
  <2> QED  BY <2>1, <2>2, <1>3
<1> HIDE DEF c, n, m, x
<1>10. x = q  BY <1>2, <1>7, <1>8, <1>9, SeqEqual
<1> QED  BY <1>10 DEF x, c, n, m

\* What is put behind a sequence is the last of it, and the rest is in front of it.
LEMMA FrontLast ==
  ASSUME NEW V, NEW out \in Seq(V), NEW v
  PROVE  Front(Append(out, v)) = out /\ Last(Append(out, v)) = v
<1> DEFINE W == V \cup {v}
<1>1. out \in Seq(W) /\ v \in W  BY SeqMonotonic
<1> HIDE DEF W
<1>2. PICK n \in Nat : n = Len(out)  BY LenProperties
<1> DEFINE a == Append(out, v)
<1>3. a \in Seq(W) /\ Len(a) = n + 1 /\ (\A i \in 1..n : a[i] = out[i]) /\ a[n + 1] = v  BY <1>1, <1>2, AppendProperties
<1> HIDE DEF a
<1>4. Last(a) = v  BY <1>3 DEF Last
<1>5. Front(a) = SubSeq(a, 1, n)
  <2>1. Len(a) - 1 = n  BY <1>3
  <2> QED  BY <2>1 DEF Front
<1>6. \A i \in 1..n : a[i] \in W
  <2>1. \A i \in 1..(n + 1) : a[i] \in W  BY <1>3, LenProperties
  <2> QED  BY <2>1
<1>7. SubSeq(a, 1, n) \in Seq(W) /\ (Len(SubSeq(a, 1, n)) = IF 1 <= n THEN n - 1 + 1 ELSE 0) /\ \A i \in 1..(n - 1 + 1) : SubSeq(a, 1, n)[i] = a[1 + i - 1]
  BY <1>6, SubSeqProperties
<1> DEFINE b == SubSeq(a, 1, n)
<1>8. Len(b) = n
  <2> HIDE DEF b
  <2>1. Len(b) = IF 1 <= n THEN n - 1 + 1 ELSE 0 BY <1>7 DEF b
  <2> QED  BY ONLY <2>1, n \in Nat
<1>9. ASSUME NEW i \in 1..n PROVE b[i] = out[i]
  <2>1. i \in 1..(n - 1 + 1) /\ 1 + i - 1 = i  OBVIOUS
  <2> QED  BY <2>1, <1>3, <1>7
<1>10. b \in Seq(W) BY <1>7
<1>11. b = out
  <2> HIDE DEF b
  <2> QED  BY <1>1, <1>2, <1>8, <1>9, <1>10, SeqEqual
<1> QED  BY <1>4, <1>5, <1>11 DEF a

-----------------------------------------------------------------------------
(* Reading what was written.                                               *)

Widths == {1, 2, 4}
FieldSet == Widths \X Nat

\* A reader that has read out and has in before it.
At(in, out) == [in |-> in, out |-> out, ok |-> TRUE]

\* The fields ws with the numbers vs.
FieldsOf(ws, vs) == [i \in 1..Len(ws) |-> <<ws[i], vs[i]>>]

\* Fields of the widths asked for are taken.
LEMMA TakesFields ==
  ASSUME NEW ws \in Seq(Widths), NEW vs, \A i \in 1..Len(ws) : vs[i] \in Nat,
         NEW rest \in Seq(FieldSet), NEW out
  PROVE  GetFields(At(FieldsOf(ws, vs) \o rest, out), ws) = At(rest, Append(out, [i \in 1..Len(ws) |-> vs[i]]))
<1> DEFINE fs == FieldsOf(ws, vs)
           in == fs \o rest
<1>1. PICK n \in Nat : n = Len(ws)  BY LenProperties
<1>2. \A i \in 1..n : ws[i] \in Widths  BY <1>1, LenProperties
<1>3. fs \in Seq(FieldSet) /\ Len(fs) = n /\ \A i \in 1..n : fs[i] = <<ws[i], vs[i]>>
  <2>1. \A i \in 1..n : <<ws[i], vs[i]>> \in FieldSet  BY <1>1, <1>2 DEF FieldSet
  <2>2. fs = [i \in 1..n |-> <<ws[i], vs[i]>>]  BY <1>1 DEF FieldsOf
  <2>3. fs \in [1..n -> FieldSet]  BY <2>1, <2>2
  <2>4. fs \in Seq(FieldSet)  BY <2>3, SeqDef
  <2>5. Len(fs) = n  BY <2>2, <2>4
  <2> QED  BY <2>2, <2>4, <2>5
<1> HIDE DEF fs
<1>4. PICK m \in Nat : m = Len(rest)  BY LenProperties
<1>5. /\ in \in Seq(FieldSet) /\ Len(in) = n + m
      /\ \A i \in 1..(n + m) : in[i] = IF i <= n THEN fs[i] ELSE rest[i - n]
  BY <1>3, <1>4, ConcatProperties
<1>6. SubSeq(in, n + 1, Len(in)) = rest
  <2>1. SubSeq(fs \o rest, Len(fs) + 1, Len(fs \o rest)) = rest  BY <1>3, BehindConcat
  <2> QED  BY <2>1, <1>3
<1> HIDE DEF in
<1>7. \A i \in 1..n : in[i] = <<ws[i], vs[i]>>  BY <1>3, <1>5
<1>8. n <= Len(in)  BY <1>4, <1>5
<1>9. \A i \in 1..n : in[i][1] = ws[i] /\ in[i][2] = vs[i]  BY <1>7
<1>10. [i \in 1..n |-> in[i][2]] = [i \in 1..n |-> vs[i]]  BY <1>9, Zenon
<1>11. \A i \in 1..n : in[i][1] = ws[i]  BY <1>9
<1> DEFINE r == At(in, out)
<1>12. r.in = in /\ r.out = out /\ r.ok = TRUE  BY DEF At
<1>13. GetFields(r, ws) = [in |-> SubSeq(r.in, n + 1, Len(r.in)), out |-> Append(r.out, [i \in 1..n |-> r.in[i][2]]), ok |-> TRUE]
  <2> HIDE DEF r
  <2> QED  BY <1>1, <1>8, <1>11, <1>12, Zenon DEF GetFields
<1>14. GetFields(r, ws) = [in |-> rest, out |-> Append(out, [i \in 1..n |-> vs[i]]), ok |-> TRUE]
  <2> HIDE DEF r
  <2>1. SubSeq(r.in, n + 1, Len(r.in)) = rest  BY <1>6, <1>12
  <2>2. Append(r.out, [i \in 1..n |-> r.in[i][2]]) = Append(out, [i \in 1..n |-> vs[i]])  BY <1>10, <1>12, Zenon
  <2> QED  BY <1>13, <2>1, <2>2, Zenon
<1> QED  BY <1>1, <1>14 DEF At, in, fs

\* The numbers a number of type t can be.
Numbers(t) ==
  IF t \in {UINT8, UINT16, UINT32} THEN 0..(Modulus(Parts[t][1]) - 1)
  ELSE {x[1] + Long * x[2] : x \in (0..(Long - 1)) \X (0..(Long - 1))}

\* The fields of the numbers (putUInt8 to putUInt128).
LEMMA PartsAre ==
  /\ DOMAIN Parts = {UINT8, UINT16, UINT32, UINT64, UINT128}
  /\ Parts[UINT8] = <<1>> /\ Parts[UINT16] = <<2>> /\ Parts[UINT32] = <<4>>
  /\ Parts[UINT64] = <<4, 4>> /\ Parts[UINT128] = <<4, 4, 4, 4>>
BY DEF Parts, UINT8, UINT16, UINT32, UINT64, UINT128

\* Each field of a number is of one, two or four bytes.
LEMMA PartsType == ASSUME NEW t \in DOMAIN Parts PROVE Parts[t] \in Seq(Widths)
<1>1. <<1>> \in Seq(Widths) /\ <<2>> \in Seq(Widths) /\ <<4>> \in Seq(Widths) /\ <<4, 4>> \in Seq(Widths)
      /\ <<4, 4, 4, 4>> \in Seq(Widths)
  BY DEF Widths
<1> QED  BY <1>1, PartsAre

\* How many numbers a field can hold, and what is known of that.
LEMMA ModulusIs ==
  /\ Modulus(1) = Byte /\ Modulus(2) = 65536 /\ Modulus(4) = Long
  /\ Byte \in Nat /\ Byte > 2 /\ Long \in Nat /\ Long > 65536
BY WidthsAssumption DEF Modulus

\* A number that has room in its field.
LEMMA FieldIs ==
  ASSUME NEW w \in Widths, NEW v \in 0..(Modulus(w) - 1) PROVE Field(w, v) = <<w, v>>
<1>1. Modulus(w) \in Nat /\ Modulus(w) > 0  BY ModulusIs DEF Widths
<1> DEFINE d == Modulus(w)
<1>2. (v + d * 0) % d = v
  <2> HIDE DEF d
  <2> QED BY <1>1, DivideIs DEF d
<1>3. v + d * 0 = v  BY <1>1
<1> QED  BY <1>2, <1>3 DEF Field

\* What the fields of a number are, and that they make the number.
LEMMA NumberParts ==
  ASSUME NEW t \in DOMAIN Parts, NEW v \in Numbers(t)
  PROVE  \E vs : /\ \A i \in 1..Len(Parts[t]) : vs[i] \in Nat
                 /\ PutNumber(t, v) = FieldsOf(Parts[t], vs)
                 /\ NumberOf([i \in 1..Len(Parts[t]) |-> vs[i]]) = v
<1> DEFINE Goal == \E vs : /\ \A i \in 1..Len(Parts[t]) : vs[i] \in Nat
                           /\ PutNumber(t, v) = FieldsOf(Parts[t], vs)
                           /\ NumberOf([i \in 1..Len(Parts[t]) |-> vs[i]]) = v
<1>1. ASSUME NEW w \in Widths, Parts[t] = <<w>>, v \in 0..(Modulus(w) - 1) PROVE Goal
  <2> DEFINE vs == <<v>>
  <2>1. Len(Parts[t]) = 1 /\ DOMAIN Parts[t] = 1..1 /\ Parts[t][1] = w  BY <1>1
  <2>2. v \in Nat  BY <1>1, ModulusIs DEF Widths
  <2>3. PutNumber(t, v) = [i \in 1..1 |-> <<w, v>>]
    <3>1. Field(w, v) = <<w, v>>  BY <1>1, FieldIs
    <3>2. \A i \in 1..1 : i = 1 /\ Parts[t][i] = w  BY <2>1
    <3>3. \A i \in 1..1 : Field(Parts[t][i], CASE i = 1 -> v [] i = 2 -> v \div Long [] OTHER -> 0) = <<w, v>>
      BY <3>1, <3>2
    <3> QED  BY <2>1, <3>3 DEF PutNumber
  <2>4. FieldsOf(Parts[t], vs) = [i \in 1..1 |-> <<w, v>>]
    <3>1. \A i \in 1..1 : Parts[t][i] = w /\ vs[i] = v  BY <2>1
    <3> QED  BY <2>1, <3>1 DEF FieldsOf
  <2>5. NumberOf([i \in 1..1 |-> vs[i]]) = v  BY DEF NumberOf
  <2>6. \A i \in 1..1 : vs[i] \in Nat  BY <2>2
  <2> HIDE DEF vs
  <2> QED  BY <2>1, <2>3, <2>4, <2>5, <2>6
<1>2. ASSUME NEW n \in {2, 4}, Len(Parts[t]) = n, DOMAIN Parts[t] = 1..n, \A i \in 1..n : Parts[t][i] = 4,
             v \in {x[1] + Long * x[2] : x \in (0..(Long - 1)) \X (0..(Long - 1))}
      PROVE  Goal
  <2>1. PICK a \in 0..(Long - 1), b \in 0..(Long - 1) : v = a + Long * b  BY <1>2
  <2> DEFINE vs == [i \in 1..n |-> CASE i = 1 -> a [] i = 2 -> b [] OTHER -> 0]
  <2>0. Long \in Nat /\ Long > 0  BY ModulusIs
  <2>2. v % Long = a /\ v \div Long = b
    <3>1. a \in 0..(Long - 1) /\ b \in Nat  OBVIOUS
    <3> QED  BY <2>0, <2>1, <3>1, DivideIs
  <2>3. Field(4, v) = <<4, a>> /\ Field(4, b) = <<4, b>> /\ Field(4, 0) = <<4, 0>>
    <3>1. Field(4, v) = <<4, a>>  BY <2>2, ModulusIs DEF Field
    <3>2. b \in 0..(Modulus(4) - 1) /\ 0 \in 0..(Modulus(4) - 1) /\ 4 \in Widths  BY ModulusIs DEF Widths
    <3> QED  BY <3>1, <3>2, FieldIs
  <2>4. \A i \in 1..n : Field(Parts[t][i], CASE i = 1 -> v [] i = 2 -> v \div Long [] OTHER -> 0) = <<4, vs[i]>>
    <3> SUFFICES ASSUME NEW i \in 1..n
                 PROVE  Field(Parts[t][i], CASE i = 1 -> v [] i = 2 -> v \div Long [] OTHER -> 0) = <<4, vs[i]>>
      OBVIOUS
    <3>1. CASE i = 1  BY <3>1, <1>2, <2>3
    <3>2. CASE i = 2  BY <3>2, <1>2, <2>2, <2>3
    <3>3. CASE i # 1 /\ i # 2  BY <3>3, <1>2, <2>3
    <3> QED  BY <3>1, <3>2, <3>3
  <2>5. PutNumber(t, v) = [i \in 1..n |-> <<4, vs[i]>>]
    <3> HIDE DEF vs
    <3> QED  BY <2>4, <1>2 DEF PutNumber
  <2>6. FieldsOf(Parts[t], vs) = [i \in 1..n |-> <<4, vs[i]>>]
    <3> HIDE DEF vs
    <3> QED  BY <1>2 DEF FieldsOf
  <2>7. \A i \in 1..n : vs[i] \in Nat  OBVIOUS
  <2>8. NumberOf([i \in 1..n |-> vs[i]]) = v
    <3> DEFINE f == [i \in 1..n |-> vs[i]]
    <3>1. f[1] = a /\ f[2] = b  OBVIOUS
    <3>2. Len(f) = n  
      <4>1. f \in [1..n -> Nat]  BY <2>7
      <4>2. f \in Seq(Nat)  BY <4>1, SeqDef
      <4> QED  BY <4>1, <4>2, LenProperties
    <3> HIDE DEF f
    <3>3. NumberOf(f) = f[1] + Long * f[2]  BY <3>2, <1>2 DEF NumberOf
    <3> QED  BY <3>1, <3>3, <2>1 DEF f
  <2> HIDE DEF vs
  <2> QED  BY <1>2, <2>5, <2>6, <2>7, <2>8
<1> HIDE DEF Goal
<1>3. ASSUME t \in {UINT8, UINT16, UINT32} PROVE Goal
  <2>1. PICK w \in Widths : Parts[t] = <<w>>  BY <1>3, PartsAre DEF Widths
  <2>2. v \in 0..(Modulus(w) - 1)  BY <1>3, <2>1 DEF Numbers
  <2> QED  BY <2>1, <2>2, <1>1
<1>6. ASSUME t \in {UINT64, UINT128} PROVE Goal
  <2>1. v \in {x[1] + Long * x[2] : x \in (0..(Long - 1)) \X (0..(Long - 1))}
    <3>1. t \notin {UINT8, UINT16, UINT32}  BY <1>6 DEF UINT8, UINT16, UINT32, UINT64, UINT128
    <3> QED  BY <3>1, Zenon DEF Numbers
  <2>2. ASSUME t = UINT64 PROVE Goal
    <3>1. Len(Parts[t]) = 2 /\ DOMAIN Parts[t] = 1..2 /\ \A i \in 1..2 : Parts[t][i] = 4  BY <2>2, PartsAre
    <3>2. 2 \in {2, 4}  OBVIOUS
    <3> QED  BY <3>1, <3>2, <2>1, <1>2
  <2>3. ASSUME t = UINT128 PROVE Goal
    <3>1. Len(Parts[t]) = 4 /\ DOMAIN Parts[t] = 1..4 /\ \A i \in 1..4 : Parts[t][i] = 4  BY <2>3, PartsAre
    <3>2. 4 \in {2, 4}  OBVIOUS
    <3> QED  BY <3>1, <3>2, <2>1, <1>2
  <2> QED  BY <1>6, <2>2, <2>3
<1> QED  BY <1>3, <1>6, PartsAre, Zenon DEF Goal

\* What a reader has read is put in place of what it had.
LEMMA AtHaving ==
  ASSUME NEW in, NEW out, NEW x PROVE Having(At(in, out), x) = At(in, x)
BY DEF At, Having

\* What a reader has left, what it has read, and that it went well.
LEMMA AtIs == ASSUME NEW in, NEW out PROVE At(in, out).in = in /\ At(in, out).out = out /\ At(in, out).ok = TRUE
BY DEF At

\* A number comes back as it was put.
LEMMA TakesNumber ==
  ASSUME NEW t \in DOMAIN Parts, NEW v \in Numbers(t), NEW rest \in Seq(FieldSet), NEW V, NEW out \in Seq(V)
  PROVE  GetNumber(At(PutNumber(t, v) \o rest, out), t) = At(rest, Append(out, v))
<1>1. PICK vs : /\ \A i \in 1..Len(Parts[t]) : vs[i] \in Nat
                /\ PutNumber(t, v) = FieldsOf(Parts[t], vs)
                /\ NumberOf([i \in 1..Len(Parts[t]) |-> vs[i]]) = v
  BY NumberParts
<1> DEFINE x == [i \in 1..Len(Parts[t]) |-> vs[i]]
           r == At(rest, Append(out, x))
<1>2. GetFields(At(PutNumber(t, v) \o rest, out), Parts[t]) = r  BY <1>1, PartsType, TakesFields
<1>3. NumberOf(x) = v  BY <1>1
<1> HIDE DEF x
<1>4. Front(Append(out, x)) = out /\ Last(Append(out, x)) = x  BY FrontLast
<1> DEFINE y == Append(out, x)
<1>5. AsNumber(r) = At(rest, Append(out, v))
  <2>1. AsNumber(r) = Having(r, Append(Front(r.out), NumberOf(Last(r.out))))  BY DEF AsNumber
  <2>2. r.out = y  BY AtIs, ZenonT(60)
  <2>3. Append(Front(y), NumberOf(Last(y))) = Append(out, v)  BY <1>3, <1>4
  <2> HIDE DEF y
  <2> QED  BY <2>1, <2>2, <2>3, AtHaving
<1> QED  BY <1>2, <1>5 DEF GetNumber

\* n fields of one width with the numbers vs, and the numbers.
Row(each, n, vs) == [i \in 1..n |-> <<each, vs[i]>>]
Numbered(n, vs) == [i \in 1..n |-> vs[i]]

Counts(w, each, put, all) ==
  \E n, vs : /\ n \in Nat /\ \A i \in 1..n : vs[i] \in Nat
             /\ put = <<<<w, n>>>> \o Row(each, n, vs) /\ all = Numbered(n, vs)

\* A count, and as many fields as it says.
LEMMA TakesCounted ==
  ASSUME NEW w \in Widths, NEW each \in Widths, NEW rest \in Seq(FieldSet), NEW V, NEW out \in Seq(V),
         NEW put, NEW all, Counts(w, each, put, all)
  PROVE  GetCounted(At(put \o rest, out), w, each) = At(rest, Append(out, all))
<1>0. PICK n, vs : n \in Nat /\ (\A i \in 1..n : vs[i] \in Nat) /\ put = <<<<w, n>>>> \o Row(each, n, vs) /\ all = Numbered(n, vs)
  BY DEF Counts
<1> DEFINE fs == [i \in 1..n |-> <<each, vs[i]>>]
           one == <<<<w, n>>>>
           ws == [i \in 1..n |-> each]
<1>1. one \in Seq(FieldSet)  BY <1>0 DEF FieldSet
<1>2. fs \in Seq(FieldSet) /\ ws \in Seq(Widths) /\ Len(ws) = n
  <2>1. fs \in [1..n -> FieldSet] /\ ws \in [1..n -> Widths]  BY <1>0 DEF FieldSet
  <2>2. fs \in Seq(FieldSet) /\ ws \in Seq(Widths)  BY <1>0, <2>1, SeqDef
  <2>3. Len(ws) = n  BY <1>0, <2>1, <2>2, LenProperties
  <2> QED  BY <2>2, <2>3
<1>3. fs = FieldsOf(ws, vs)
  <2>1. \A i \in 1..n : ws[i] = each  OBVIOUS
  <2> HIDE DEF ws
  <2> QED  BY <1>2, <2>1 DEF FieldsOf
<1>4. one = FieldsOf(<<w>>, <<n>>)  BY DEF FieldsOf
<1> HIDE DEF fs, one, ws
<1>14. fs \o rest \in Seq(FieldSet)  BY <1>2, ConcatProperties
<1>15. (one \o fs) \o rest = one \o (fs \o rest)  BY <1>1, <1>2, ConcatAssociative, SMTT(40)
<1>5. fs \o rest \in Seq(FieldSet) /\ (one \o fs) \o rest = one \o (fs \o rest)  BY <1>14, <1>15
<1> DEFINE start == At((one \o fs) \o rest, out)
           x == [i \in 1..Len(<<w>>) |-> <<n>>[i]]
           counted == At(fs \o rest, Append(out, x))
<1>6. GetFields(start, <<w>>) = counted
  <2>1. <<w>> \in Seq(Widths) /\ \A i \in 1..Len(<<w>>) : <<n>>[i] \in Nat  BY <1>0
  <2>2. GetFields(At(FieldsOf(<<w>>, <<n>>) \o (fs \o rest), out), <<w>>) = counted
    BY <2>1, <1>5, TakesFields, ZenonT(60)
  <2> QED  BY <2>2, <1>4, <1>5
<1>7. x[1] = n  OBVIOUS
<1> HIDE DEF x
<1>8. Last(Append(out, x)) = x  BY FrontLast
<1>9. counted.ok /\ counted.out = Append(out, x) /\ start.out = out /\ Having(counted, out) = At(fs \o rest, out)
  <2>1. counted.ok = TRUE /\ counted.out = Append(out, x)  BY AtIs, ZenonT(60)
  <2>2. start.out = out  BY AtIs, ZenonT(60)
  <2>3. Having(counted, out) = At(fs \o rest, out)  BY AtHaving, Zenon
  <2> QED  BY <2>1, <2>2, <2>3, Zenon
<1>10. GetFields(At(fs \o rest, out), ws) = At(rest, Append(out, [i \in 1..n |-> vs[i]]))
  BY <1>0, <1>2, <1>3, TakesFields, ZenonT(60)
<1> HIDE DEF counted, start
<1>11. GetCounted(start, w, each) = GetFields(Having(counted, start.out), ws)
  <2>1. Last(counted.out)[1] = n  BY <1>7, <1>8, <1>9
  <2> QED  BY <2>1, <1>6, <1>9 DEF GetCounted, ws
<1>12. GetCounted(start, w, each) = At(rest, Append(out, all))
  <2>1. GetFields(At(fs \o rest, out), ws) = At(rest, Append(out, all))  BY <1>0, <1>10, Zenon DEF Numbered
  <2>2. Having(counted, start.out) = At(fs \o rest, out)  BY <1>9
  <2> QED  BY <1>11, <2>1, <2>2
<1>13. put = one \o fs  BY <1>0, Zenon DEF one, fs, Row
<1> QED  BY <1>12, <1>13 DEF start

\* The bytes of texts.
ByteSet == Nat \X Nat

\* The characters of cs, each as its bytes, and where each ends.
CharsOf(cs) == [i \in DOMAIN cs |-> Char(cs[i])]

\* Below 65536 a character has less than four bytes, and its lead says how many are taken.
LEMMA Utf8LenIs ==
  ASSUME NEW c \in Nat
  PROVE  /\ Utf8Len(c) \in 1..4 /\ (Utf8Len(c) < 4 <=> c < 65536)
         /\ c < 65536 => Taken(<<c, 1>>) = Utf8Len(c)
<1>1. Utf8Len(c) \in 1..4 /\ (Utf8Len(c) < 4 <=> c < 65536)  BY SMT DEF Utf8Len
<1>2. c < 65536 => Taken(<<c, 1>>) = Utf8Len(c)
  <2> DEFINE b == <<c, 1>>
  <2>1. b[1] = c /\ b[2] = 1  OBVIOUS
  <2> HIDE DEF b
  <2>2. c < 65536 => Taken(b) = Utf8Len(c)  BY <2>1, SMT DEF Taken, Utf8Len
  <2> QED  BY <2>2 DEF b
<1> QED  BY <1>1, <1>2

\* A character has one to four bytes.
LEMMA Utf8LenNat == ASSUME NEW c \in Nat PROVE Utf8Len(c) \in 1..4 /\ Utf8Len(c) \in Nat
BY SMT DEF Utf8Len

\* The bytes of a character.
LEMMA CharIs ==
  ASSUME NEW c \in Nat
  PROVE  Char(c) \in Seq(ByteSet) /\ Len(Char(c)) = Utf8Len(c) /\ \A k \in 1..Utf8Len(c) : Char(c)[k] = <<c, k>>
<1>1. PICK n \in Nat : n = Utf8Len(c)  BY Utf8LenNat
<1>2. Char(c) = [k \in 1..n |-> <<c, k>>]  BY <1>1 DEF Char
<1>3. Char(c) \in [1..n -> ByteSet]  BY <1>2 DEF ByteSet
<1>4. Char(c) \in Seq(ByteSet)  BY <1>3, SeqDef
<1>5. Len(Char(c)) = n  BY <1>3, <1>4, LenProperties
<1> QED  BY <1>1, <1>2, <1>4, <1>5

\* The bytes of each character of a text.
LEMMA CharsAre ==
  ASSUME NEW cs \in Seq(Nat)
  PROVE  /\ CharsOf(cs) \in Seq(Seq(ByteSet)) /\ Len(CharsOf(cs)) = Len(cs)
         /\ \A i \in 1..Len(cs) : CharsOf(cs)[i] = Char(cs[i])
<1>1. PICK n \in Nat : n = Len(cs) /\ DOMAIN cs = 1..n  BY LenProperties
<1>2. CharsOf(cs) = [i \in 1..n |-> Char(cs[i])]  BY <1>1 DEF CharsOf
<1>3. \A i \in 1..n : cs[i] \in Nat  BY <1>1, LenProperties
<1>4. CharsOf(cs) \in [1..n -> Seq(ByteSet)]  BY <1>2, <1>3, CharIs
<1>5. CharsOf(cs) \in Seq(Seq(ByteSet))  BY <1>4, SeqDef
<1>6. Len(CharsOf(cs)) = n  BY <1>4, <1>5, LenProperties
<1> QED  BY <1>1, <1>2, <1>5, <1>6

\* Where the characters of a text are in its bytes.
Spells(text, cs, e) ==
  /\ e \in [0..Len(cs) -> Nat] /\ e[0] = 0 /\ Len(text) = e[Len(cs)]
  /\ \A i \in 1..Len(cs) : e[i] = e[i - 1] + Utf8Len(cs[i])
  /\ \A i \in 1..Len(cs) : \A k \in 1..Utf8Len(cs[i]) : text[e[i - 1] + k] = <<cs[i], k>>

\* A text spells its characters one behind the other.
LEMMA TextSpells ==
  ASSUME NEW cs \in Seq(Nat)
  PROVE  Text(cs) \in Seq(ByteSet) /\ \E e : Ends(CharsOf(cs), e) /\ Spells(Text(cs), cs, e)
<1> DEFINE ss == CharsOf(cs)
<1>1. ss \in Seq(Seq(ByteSet)) /\ Len(ss) = Len(cs) /\ \A i \in 1..Len(cs) : ss[i] = Char(cs[i])  BY CharsAre
<1>2. Text(cs) = FlattenSeq(ss)  BY DEF Text, CharsOf
<1>3. \A i \in 1..Len(cs) : /\ cs[i] \in Nat /\ Len(ss[i]) = Utf8Len(cs[i])
                            /\ \A k \in 1..Utf8Len(cs[i]) : ss[i][k] = <<cs[i], k>>
  <2>1. \A i \in 1..Len(cs) : cs[i] \in Nat  BY LenProperties
  <2> QED  BY <2>1, <1>1, CharIs
<1> HIDE DEF ss
<1>4. PICK e : Ends(ss, e)  BY <1>1, EndsExist
<1>5. Text(cs) \in Seq(ByteSet) /\ Lies(Text(cs), ss, e)  BY <1>1, <1>2, <1>4, FlattenLies
<1>6. Spells(Text(cs), cs, e)
  <2>1. e \in [0..Len(cs) -> Nat] /\ e[0] = 0 /\ \A i \in 1..Len(cs) : e[i] = e[i - 1] + Utf8Len(cs[i])
    BY <1>1, <1>3, <1>4 DEF Ends
  <2>2. Len(Text(cs)) = e[Len(cs)]  BY <1>1, <1>5 DEF Lies
  <2>3. \A i \in 1..Len(cs) : \A k \in 1..Utf8Len(cs[i]) : Text(cs)[e[i - 1] + k] = <<cs[i], k>>
    <3> SUFFICES ASSUME NEW i \in 1..Len(cs), NEW k \in 1..Utf8Len(cs[i])
                 PROVE  Text(cs)[e[i - 1] + k] = <<cs[i], k>>
      OBVIOUS
    <3>1. ss[i][k] = <<cs[i], k>> /\ k \in 1..Len(ss[i]) /\ i \in 1..Len(ss)  BY <1>1, <1>3
    <3> QED  BY <3>1, <1>5 DEF Lies
  <2> QED  BY <2>1, <2>2, <2>3 DEF Spells
<1> QED  BY <1>4, <1>5, <1>6 DEF ss

\* Each byte of a text is one of a character.
LEMMA TextCovers ==
  ASSUME NEW cs \in Seq(Nat), NEW e, Ends(CharsOf(cs), e), Spells(Text(cs), cs, e), NEW p \in 1..Len(Text(cs))
  PROVE  \E i \in 1..Len(cs) : \E k \in 1..Utf8Len(cs[i]) : p = e[i - 1] + k
<1>1. CharsOf(cs) \in Seq(Seq(ByteSet)) /\ Len(CharsOf(cs)) = Len(cs)  BY CharsAre
<1>2. p \in 1..e[Len(CharsOf(cs))]  BY <1>1 DEF Spells
<1>3. PICK i \in 1..Len(cs) : e[i - 1] < p /\ p <= e[i]  BY <1>1, <1>2, EndsCover
<1>4. Len(cs) \in Nat /\ cs[i] \in Nat /\ Utf8Len(cs[i]) \in Nat
  <2>1. Len(cs) \in Nat /\ cs[i] \in Nat  BY LenProperties
  <2> QED  BY <2>1, Utf8LenNat
<1>5. i - 1 \in 0..Len(cs)  BY <1>4
<1>6. e[i - 1] \in Nat /\ e[i] = e[i - 1] + Utf8Len(cs[i])  BY <1>5 DEF Spells
<1>7. p - e[i - 1] \in 1..Utf8Len(cs[i]) /\ p = e[i - 1] + (p - e[i - 1])
  <2> DEFINE a == e[i - 1]
             l == Utf8Len(cs[i])
  <2>1. a \in Nat /\ l \in Nat /\ a < p /\ p <= a + l /\ p \in Int  BY <1>3, <1>4, <1>6
  <2> HIDE DEF a, l
  <2>2. p - a \in 1..l /\ p = a + (p - a)  BY <2>1
  <2> QED  BY <2>2 DEF a, l
<1> QED  BY <1>7

\* Characters that take no more than three bytes.
Low(cs) == \A i \in 1..Len(cs) : Utf8Len(cs[i]) < 4

\* A text and where its characters are.
Spelt(cs, e) == Ends(CharsOf(cs), e) /\ Spells(Text(cs), cs, e)

\* Where a character ends is not before where an earlier one does.
LEMMA SpeltGrows ==
  ASSUME NEW cs \in Seq(Nat), NEW e, Spelt(cs, e), NEW j \in 0..Len(cs), NEW i \in 0..j
  PROVE  e[i] <= e[j] /\ e[i] \in Nat /\ e[j] \in Nat
<1>1. CharsOf(cs) \in Seq(Seq(ByteSet)) /\ Len(CharsOf(cs)) = Len(cs)  BY CharsAre
<1>2. e[i] <= e[j]  BY <1>1, EndsGrow DEF Spelt
<1>3. i \in 0..Len(cs)
  <2>1. Len(cs) \in Nat  BY LenProperties
  <2> QED  BY <2>1
<1>4. e \in [0..Len(cs) -> Nat]  BY DEF Spelt, Spells
<1> QED  BY <1>2, <1>3, <1>4

\* One character of a text.
LEMMA SpeltAt ==
  ASSUME NEW cs \in Seq(Nat), NEW e, Spelt(cs, e), NEW i \in 1..Len(cs)
  PROVE  /\ Len(cs) \in Nat /\ cs[i] \in Nat /\ Utf8Len(cs[i]) \in 1..4
         /\ i - 1 \in 0..Len(cs) /\ e[i - 1] \in Nat /\ e[i] \in Nat /\ e[Len(cs)] \in Nat
         /\ e[i] = e[i - 1] + Utf8Len(cs[i]) /\ e[i] <= e[Len(cs)]
         /\ Len(Text(cs)) = e[Len(cs)]
         /\ \A k \in 1..Utf8Len(cs[i]) : Text(cs)[e[i - 1] + k] = <<cs[i], k>>
<1>1. Len(cs) \in Nat /\ cs[i] \in Nat  BY LenProperties
<1>2. Utf8Len(cs[i]) \in 1..4  BY <1>1, Utf8LenNat
<1>3. i - 1 \in 0..Len(cs) /\ Len(cs) \in 0..Len(cs) /\ i \in 0..Len(cs)  BY <1>1
<1>4. e[i] <= e[Len(cs)]  BY <1>3, SpeltGrows
<1>5. e \in [0..Len(cs) -> Nat]  BY DEF Spelt, Spells
<1>6. e[i - 1] \in Nat /\ e[i] \in Nat /\ e[Len(cs)] \in Nat  BY <1>3, <1>5
<1> QED  BY <1>1, <1>2, <1>3, <1>4, <1>6 DEF Spelt, Spells

\* Each byte of a text belongs to a character.
LEMMA SpeltByte ==
  ASSUME NEW cs \in Seq(Nat), NEW e, Spelt(cs, e), NEW p \in 1..Len(Text(cs))
  PROVE  \E i \in 1..Len(cs) : \E k \in 1..Utf8Len(cs[i]) : p = e[i - 1] + k
BY TextCovers DEF Spelt

\* Every text is spelt.
LEMMA SpeltExists == ASSUME NEW cs \in Seq(Nat) PROVE Text(cs) \in Seq(ByteSet) /\ \E e : Spelt(cs, e)
BY TextSpells DEF Spelt

\* What MtpStringBuffer counts are the characters.
LEMMA TextCount ==
  ASSUME NEW cs \in Seq(Nat), Low(cs) PROVE BufferOf(Text(cs)).count = Len(cs)
<1> DEFINE text == Text(cs)
           L == {i \in DOMAIN text : text[i][2] = 1 \/ Utf8Len(text[i][1]) = 4}
<1>1. PICK n \in Nat : n = Len(cs)  BY LenProperties
<1>2. text \in Seq(ByteSet) /\ DOMAIN text = 1..Len(text)  BY SpeltExists, LenProperties
<1>3. PICK e : Spelt(cs, e)  BY SpeltExists
<1> DEFINE f == [i \in 1..n |-> e[i - 1] + 1]
<1>4. ASSUME NEW i \in 1..n PROVE e[i - 1] + 1 \in L
  <2>1. e[i - 1] \in Nat /\ e[i] = e[i - 1] + Utf8Len(cs[i]) /\ Utf8Len(cs[i]) \in 1..4 /\ e[i] <= e[n] /\ e[n] \in Nat
        /\ Len(text) = e[n]
    BY <1>1, <1>3, SpeltAt
  <2>2. e[i - 1] + 1 \in 1..Len(text) /\ 1 \in 1..Utf8Len(cs[i])  BY <2>1
  <2>3. text[e[i - 1] + 1] = <<cs[i], 1>>  BY <1>1, <1>3, <2>2, SpeltAt, ZenonT(60)
  <2>4. text[e[i - 1] + 1][2] = 1  BY <2>3
  <2> HIDE DEF text
  <2> QED  BY <1>2, <2>2, <2>4
<1>5. ASSUME NEW i \in 1..n, NEW j \in 1..n, i < j PROVE e[i - 1] + 1 # e[j - 1] + 1
  <2>1. e[i - 1] \in Nat /\ e[i] = e[i - 1] + Utf8Len(cs[i]) /\ Utf8Len(cs[i]) \in 1..4  BY <1>1, <1>3, SpeltAt
  <2>2. j - 1 \in 0..Len(cs) /\ i \in 0..(j - 1)  BY <1>1, <1>5
  <2>3. e[i] <= e[j - 1] /\ e[i] \in Nat /\ e[j - 1] \in Nat  BY <1>3, <2>2, SpeltGrows
  <2> DEFINE x == e[i - 1]
             y == e[i]
             z == e[j - 1]
             l == Utf8Len(cs[i])
  <2>4. x \in Nat /\ y = x + l /\ l \in 1..4 /\ y <= z /\ z \in Nat  BY <2>1, <2>3
  <2> HIDE DEF x, y, z, l
  <2>5. x + 1 # z + 1  BY <2>4
  <2> QED  BY <2>5 DEF x, z
<1>6. ASSUME NEW p \in L PROVE \E i \in 1..n : e[i - 1] + 1 = p
  <2>1. p \in 1..Len(text) /\ (text[p][2] = 1 \/ Utf8Len(text[p][1]) = 4)  BY <1>2
  <2>8. p \in 1..Len(Text(cs))  BY <2>1
  <2>9. \E i \in 1..Len(cs) : \E k \in 1..Utf8Len(cs[i]) : p = e[i - 1] + k  
    <3> HIDE DEF text, L
    <3> QED  BY <1>3, <2>8, SpeltByte
  <2>7. PICK i \in 1..Len(cs) : \E k \in 1..Utf8Len(cs[i]) : p = e[i - 1] + k  BY <2>9
  <2>2. PICK k \in 1..Utf8Len(cs[i]) : p = e[i - 1] + k  BY <2>7
  <2>3. text[p] = <<cs[i], k>>  BY <1>3, <2>2, SpeltAt
  <2>4. text[p][1] = cs[i] /\ text[p][2] = k  BY <2>3
  <2>5. Utf8Len(cs[i]) < 4 /\ Utf8Len(cs[i]) \in 1..4  BY <1>3, SpeltAt DEF Low
  <2>6. k = 1
    <3> HIDE DEF text
    <3> QED  BY <2>1, <2>4, <2>5
  <2> QED  BY <1>1, <2>2, <2>6
<1> HIDE DEF text, L
<1>7. f \in Bijection(1..n, L)
  <2>1. f \in [1..n -> L]  BY <1>4
  <2>2. \A i, j \in 1..n : f[i] = f[j] => i = j
    <3> SUFFICES ASSUME NEW i \in 1..n, NEW j \in 1..n, i # j PROVE f[i] # f[j]  OBVIOUS
    <3>1. f[i] = e[i - 1] + 1 /\ f[j] = e[j - 1] + 1  OBVIOUS
    <3>2. i < j \/ j < i  OBVIOUS
    <3> HIDE DEF f
    <3> QED  BY <3>1, <3>2, <1>5
  <2>3. \A p \in L : \E i \in 1..n : f[i] = p  BY <1>6
  <2> HIDE DEF f
  <2>4. IsInjective(f)  BY <2>1, <2>2 DEF IsInjective
  <2> QED  BY <2>1, <2>3, <2>4 DEF Bijection, Injection, Surjection
<1>8. ExistsBijection(1..n, L)  BY <1>7 DEF ExistsBijection
<1>9. IsFiniteSet(1..n) /\ Cardinality(1..n) = n
  <2>1. 1 \in Int /\ n \in Int  OBVIOUS
  <2>2. IsFiniteSet(1..n) /\ Cardinality(1..n) = IF 1 > n THEN 0 ELSE n - 1 + 1  BY <2>1, FS_Interval
  <2> QED  BY <2>2
<1>10. Cardinality(L) = n  BY <1>8, <1>9, FS_Bijection
<1>11. BufferOf(text).count = Cardinality(L)  BY DEF BufferOf, L
<1> QED  BY <1>1, <1>10, <1>11 DEF text

\* A text that can be counted has room in the buffer.
LEMMA TextRoom ==
  ASSUME NEW cs \in Seq(Nat), Low(cs), Len(cs) < Byte - 1
  PROVE  BufferOf(Text(cs)).bytes = Text(cs)
<1>1. PICK n \in Nat : n = Len(cs)  BY LenProperties
<1>2. PICK e : Spelt(cs, e)  BY SpeltExists
<1> DEFINE T == {i \in Nat : i <= n => e[i] <= 3 * i /\ e[i] \in Nat}
<1>3. 0 \in T
  <2>1. e[0] = 0  BY <1>2 DEF Spelt, Spells
  <2> QED  BY <2>1
<1>4. ASSUME NEW i \in Nat, i \in T PROVE i + 1 \in T
  <2> SUFFICES ASSUME i + 1 <= n PROVE e[i + 1] <= 3 * (i + 1) /\ e[i + 1] \in Nat  OBVIOUS
  <2>1. e[i] <= 3 * i /\ e[i] \in Nat /\ i + 1 \in 1..Len(cs) /\ (i + 1) - 1 = i  BY <1>1, <1>4
  <2>2. e[i + 1] = e[i] + Utf8Len(cs[i + 1]) /\ Utf8Len(cs[i + 1]) \in 1..4  BY <1>2, <2>1, SpeltAt
  <2>3. Utf8Len(cs[i + 1]) < 4  BY <2>1 DEF Low
  <2> QED  BY <2>1, <2>2, <2>3, SMTT(40)
<1>5. n \in T
  <2> HIDE DEF T
  <2> QED  BY <1>3, <1>4, Induct
<1>6. e[n] <= 3 * n /\ e[n] \in Nat  BY <1>5
<1>7. Len(Text(cs)) = e[n]  BY <1>1, <1>2 DEF Spelt, Spells
<1>8. Len(Text(cs)) < 3 * Byte - 2  BY <1>1, <1>6, <1>7, ModulusIs
<1> QED  BY <1>8 DEF BufferOf

\* How many units a text is sent as, and the units: its characters and a zero, or nothing.
UnitCount(cs) == IF Len(cs) = 0 THEN 0 ELSE Len(cs) + 1
UnitOf(cs) == [i \in 1..UnitCount(cs) |-> IF i <= Len(cs) THEN cs[i] ELSE 0]

\* A character of no more than three bytes is a unit.
LEMMA LowUnit ==
  ASSUME NEW c \in Nat, Utf8Len(c) < 4 PROVE c \in 0..(Modulus(2) - 1)
<1>1. c < 65536  BY SMT DEF Utf8Len
<1>2. Modulus(2) = 65536  BY ModulusIs
<1> QED  BY <1>1, <1>2, SMT

\* The unit made of a character of no more than three bytes is the character.
LEMMA UnitIs ==
  ASSUME NEW cs \in Seq(Nat), Low(cs), NEW e, Spelt(cs, e), NEW i \in 1..Len(cs)
  PROVE  /\ UnitAt(Text(cs), e[i - 1] + 1) = cs[i]
         /\ Taken(ByteAt(Text(cs), e[i - 1] + 1)) = Utf8Len(cs[i])
<1> DEFINE text == Text(cs)
           p == e[i - 1] + 1
           c == cs[i]
           l == Utf8Len(c)
<1>1. PICK a \in Nat : a = e[i - 1]  BY SpeltAt
<1>2. c \in Nat /\ l \in 1..4 /\ l < 4  BY SpeltAt DEF Low
<1>3. c < 65536 /\ Taken(<<c, 1>>) = l  BY <1>2, Utf8LenIs
<1>4. ASSUME NEW k \in 1..l PROVE ByteAt(text, a + k) = <<c, k>>
  <2>1. text[a + k] = <<c, k>>  BY <1>1, SpeltAt
  <2>2. PICK m \in Nat : m = Len(text)
    <3>1. Len(text) \in Nat  BY SpeltExists, LenProperties
    <3> QED  BY <3>1
  <2>3. a + l <= m
    <3>1. e[i] = e[i - 1] + Utf8Len(cs[i]) /\ e[i] <= e[Len(cs)] /\ Len(Text(cs)) = e[Len(cs)]  BY SpeltAt
    <3> QED  BY <3>1, <2>2, <1>1
  <2>4. a + k <= m
    <3> HIDE DEF l
    <3> QED  BY <2>3, <1>2
  <2> HIDE DEF text, c
  <2> QED  BY <2>1, <2>2, <2>4 DEF ByteAt
<1>5. p + 1 - 1 = a + 1 /\ p = a + 1 /\ \A k \in 1..l : p + k - 1 = a + k  BY <1>1
<1> HIDE DEF text, l, p
<1>6. ByteAt(text, p) = <<c, 1>>
  <2>1. 1 \in 1..l  BY <1>2
  <2> QED  BY <2>1, <1>4, <1>5
<1>7. \A k \in 1..l : ByteAt(text, p + k - 1) = <<c, k>>  BY <1>4, <1>5
<1>8. Taken(ByteAt(text, p)) = l  BY <1>3, <1>6
<1>9. ByteAt(text, p)[1] = c  BY <1>6
<1>10. UnitAt(text, p) = c
  <2> HIDE DEF c
  <2> QED  BY <1>3, <1>7, <1>8, <1>9 DEF UnitAt
<1> QED  BY <1>8, <1>10 DEF text, p, c, l

\* The units of a text.
LEMMA UnitsAre ==
  ASSUME NEW cs \in Seq(Nat)
  PROVE  /\ UnitCount(cs) \in Nat /\ UnitOf(cs) \in Seq(Nat) /\ Len(UnitOf(cs)) = UnitCount(cs)
         /\ \A i \in 1..UnitCount(cs) : UnitOf(cs)[i] \in Nat
<1>1. PICK n \in Nat : n = Len(cs)  BY LenProperties
<1>2. \A i \in 1..n : cs[i] \in Nat  BY <1>1, LenProperties
<1>3. PICK m \in Nat : m = UnitCount(cs)  BY <1>1 DEF UnitCount
<1>4. UnitOf(cs) \in [1..m -> Nat]
  <2>1. ASSUME NEW i \in 1..m PROVE (IF i <= Len(cs) THEN cs[i] ELSE 0) \in Nat
    <3>1. i <= n => i \in 1..n  OBVIOUS
    <3> QED  BY <3>1, <1>1, <1>2
  <2> QED  BY <2>1, <1>3 DEF UnitOf
<1>5. UnitOf(cs) \in Seq(Nat)  BY <1>4, SeqDef
<1>6. Len(UnitOf(cs)) = m  BY <1>4, <1>5, LenProperties
<1> QED  BY <1>3, <1>4, <1>5, <1>6

\* MtpStringBuffer::writeToPacket puts the count and the units.
LEMMA PutTextIs ==
  ASSUME NEW cs \in Seq(Nat), Low(cs), Len(cs) < Byte - 1
  PROVE  PutText(Text(cs))
         = <<<<1, UnitCount(cs)>>>> \o [i \in 1..UnitCount(cs) |-> <<2, UnitOf(cs)[i]>>]
<1> DEFINE text == Text(cs)
           b == BufferOf(text)
<1>1. PICK n \in Nat : n = Len(cs)  BY LenProperties
<1>2. b.count = n /\ b.bytes = text  BY <1>1, TextCount, TextRoom
<1>3. PICK e : Spelt(cs, e)  BY SpeltExists
<1> DEFINE Is(at) == at = [i \in 1..b.count |-> IF i = 1 THEN 1 ELSE at[i - 1] + Taken(ByteAt(b.bytes, at[i - 1]))]
           g == [i \in 1..n |-> e[i - 1] + 1]
           at == CHOOSE at : Is(at)
<1>5. ASSUME NEW i \in 1..n
      PROVE  /\ e[i - 1] + 1 \in Nat /\ UnitAt(text, e[i - 1] + 1) = cs[i] 
             /\ e[i] + 1 = (e[i - 1] + 1) + Taken(ByteAt(text, e[i - 1] + 1))
  <2>1. UnitAt(text, e[i - 1] + 1) = cs[i] /\ Taken(ByteAt(text, e[i - 1] + 1)) = Utf8Len(cs[i])
    BY <1>1, <1>3, UnitIs
  <2>2. e[i] = e[i - 1] + Utf8Len(cs[i]) /\ e[i - 1] \in Nat /\ Utf8Len(cs[i]) \in 1..4  BY <1>1, <1>3, SpeltAt
  <2> QED  BY <2>1, <2>2, SMTT(40)
<1>9. e[0] = 0  BY <1>3 DEF Spelt, Spells
<1> HIDE DEF text, b
<1>6. Is(g)
  <2>1. ASSUME NEW i \in 1..n PROVE g[i] = IF i = 1 THEN 1 ELSE g[i - 1] + Taken(ByteAt(text, g[i - 1]))
    <3>1. CASE i = 1  BY <3>1, <1>9
    <3>2. CASE i # 1
      <4>1. i - 1 \in 1..n  BY <3>2
      <4>2. e[i - 1] + 1 = (e[(i - 1) - 1] + 1) + Taken(ByteAt(text, e[(i - 1) - 1] + 1))  BY <4>1, <1>5
      <4>3. g[i - 1] = e[(i - 1) - 1] + 1 /\ g[i] = e[i - 1] + 1  BY <4>1
      <4> HIDE DEF g
      <4> QED  BY <3>2, <4>2, <4>3
    <3> QED  BY <3>1, <3>2
  <2> DEFINE G(i) == IF i = 1 THEN 1 ELSE g[i - 1] + Taken(ByteAt(text, g[i - 1]))
  <2>2. \A i \in 1..n : g[i] = G(i)  BY <2>1
  <2>3. g = [i \in 1..n |-> g[i]]  OBVIOUS
  <2> HIDE DEF g
  <2>4. g = [i \in 1..n |-> G(i)]
    <3> HIDE DEF G
    <3> QED  BY <2>2, <2>3, Zenon
  <2>5. 1..b.count = 1..n /\ b.bytes = text  BY <1>2
  <2> QED  BY <2>4, <2>5, Zenon
<1>7. Is(at)  BY <1>6, Zenon
<1>8. \A i \in 1..n : at[i] = IF i = 1 THEN 1 ELSE at[i - 1] + Taken(ByteAt(text, at[i - 1]))
  <2> HIDE DEF at
  <2>1. at = [i \in 1..b.count |-> IF i = 1 THEN 1 ELSE at[i - 1] + Taken(ByteAt(b.bytes, at[i - 1]))]  BY <1>7
  <2> QED  BY <2>1, <1>2, Zenon
<1>10. PutText(text) =
        IF b.count = 0 THEN <<Field(1, 0)>>
        ELSE <<Field(1, b.count + 1)>> \o [i \in 1..b.count |-> Field(2, UnitAt(b.bytes, at[i]))] \o <<Field(2, 0)>>
  BY Zenon DEF PutText, b
<1> HIDE DEF at
<1>11. \A i \in 1..n : at[i] = e[i - 1] + 1
  <2> DEFINE T == {k \in Nat : k \in 1..n => at[k] = e[k - 1] + 1}
  <2>1. 0 \in T  OBVIOUS
  <2>2. ASSUME NEW k \in Nat, k \in T PROVE k + 1 \in T
    <3> SUFFICES ASSUME k + 1 \in 1..n PROVE at[k + 1] = e[(k + 1) - 1] + 1  OBVIOUS
    <3>1. (k + 1) - 1 = k  OBVIOUS
    <3>2. CASE k = 0
      <4>1. at[k + 1] = 1  BY <3>2, <1>8
      <4> QED  BY <3>1, <3>2, <4>1, <1>9
    <3>3. CASE k # 0
      <4>1. k \in 1..n /\ k + 1 # 1  BY <3>3
      <4>2. at[k + 1] = at[k] + Taken(ByteAt(text, at[k]))  BY <4>1, <3>1, <1>8
      <4>3. at[k] = e[k - 1] + 1  BY <4>1, <2>2
      <4> QED  BY <4>1, <4>2, <4>3, <3>1, <1>5
    <3> QED  BY <3>2, <3>3
  <2>3. \A k \in Nat : k \in T
    <3> HIDE DEF T
    <3> QED  BY <2>1, <2>2, Induct
  <2> QED  BY <2>3
<1>12. \A i \in 1..n : UnitAt(b.bytes, at[i]) = cs[i]  BY <1>2, <1>5, <1>11
<1>13. 1 \in Widths /\ 2 \in Widths  BY DEF Widths
<1>14. \A i \in 1..n : Field(2, cs[i]) = <<2, cs[i]>>
  <2> SUFFICES ASSUME NEW i \in 1..n PROVE Field(2, cs[i]) = <<2, cs[i]>>  OBVIOUS
  <2>1. cs[i] \in Nat /\ Utf8Len(cs[i]) < 4  BY <1>1, LenProperties DEF Low
  <2>3. cs[i] \in 0..(Modulus(2) - 1)  BY <2>1, LowUnit
  <2> QED  BY <2>3, <1>13, FieldIs
<1>15. Field(2, 0) = <<2, 0>> /\ Field(1, 0) = <<1, 0>>
  <2>1. 0 \in 0..(Modulus(2) - 1) /\ 0 \in 0..(Modulus(1) - 1)  BY ModulusIs, SMT
  <2> QED  BY <2>1, <1>13, FieldIs
<1>16. CASE n = 0
  <2>1. PutText(text) = <<<<1, 0>>>>  BY <1>2, <1>10, <1>15, <1>16
  <2>2. UnitCount(cs) = 0  BY <1>1, <1>16 DEF UnitCount
  <2>3. [i \in 1..UnitCount(cs) |-> <<2, UnitOf(cs)[i]>>] = <<>>  
    <3>1. 1..0 = {}  OBVIOUS
    <3> QED  BY <2>2, <3>1
  <2>4. <<<<1, 0>>>> \in Seq(FieldSet)  BY DEF FieldSet, Widths
  <2>5. <<<<1, 0>>>> \o <<>> = <<<<1, 0>>>>  BY <2>4, ConcatEmptySeq
  <2> QED  BY <2>1, <2>2, <2>3, <2>5 DEF text
<1>17. CASE n # 0
  <2>1. Field(1, n + 1) = <<1, n + 1>>
    <3>1. n + 1 \in 0..(Modulus(1) - 1)  BY <1>1, ModulusIs, SMT
    <3> QED  BY <3>1, <1>13, FieldIs
  <2> DEFINE head == <<<<1, n + 1>>>>
             mid == [i \in 1..n |-> <<2, cs[i]>>]
             end == <<<<2, 0>>>>
             tail == [i \in 1..(n + 1) |-> <<2, UnitOf(cs)[i]>>]
  <2>2. PutText(text) = head \o mid \o end
    <3>1. \A i \in 1..n : Field(2, UnitAt(b.bytes, at[i])) = <<2, cs[i]>>  BY <1>12, <1>14
    <3>2. [i \in 1..n |-> Field(2, UnitAt(b.bytes, at[i]))] = mid  BY <3>1
    <3> QED  BY <3>2, <1>2, <1>10, <1>15, <1>17, <2>1
  <2>3. UnitCount(cs) = n + 1 /\ \A i \in 1..(n + 1) : UnitOf(cs)[i] = IF i <= n THEN cs[i] ELSE 0
    BY <1>1, <1>17 DEF UnitCount, UnitOf
  <2>4. \A i \in 1..n : cs[i] \in Nat  BY <1>1, LenProperties
  <2>5. head \in Seq(FieldSet) /\ end \in Seq(FieldSet) /\ Len(end) = 1 /\ end[1] = <<2, 0>>  BY DEF FieldSet, Widths
  <2>6. mid \in Seq(FieldSet) /\ Len(mid) = n
    <3>1. mid \in [1..n -> FieldSet]  BY <2>4 DEF FieldSet, Widths
    <3>2. mid \in Seq(FieldSet)  BY <3>1, SeqDef
    <3> HIDE DEF mid
    <3> QED  BY <3>1, <3>2, LenProperties
  <2>7. tail \in Seq(FieldSet) /\ Len(tail) = n + 1
    <3>0. \A i \in 1..(n + 1) : UnitOf(cs)[i] \in Nat  BY <2>3, UnitsAre
    <3>1. tail \in [1..(n + 1) -> FieldSet]  BY <3>0 DEF FieldSet, Widths
    <3>2. tail \in Seq(FieldSet)  BY <3>1, SeqDef
    <3> HIDE DEF tail
    <3> QED  BY <3>1, <3>2, LenProperties
  <2>8. mid \o end = tail
    <3>1. /\ mid \o end \in Seq(FieldSet) /\ Len(mid \o end) = n + 1
          /\ \A i \in 1..(n + 1) : (mid \o end)[i] = IF i <= n THEN mid[i] ELSE end[i - n]
      <4> HIDE DEF mid, end
      <4> QED  BY <2>5, <2>6, ConcatProperties, SMTT(40)
    <3>2. ASSUME NEW i \in 1..(n + 1) PROVE (mid \o end)[i] = tail[i]
      <4>1. tail[i] = <<2, UnitOf(cs)[i]>>  OBVIOUS
      <4>2. CASE i <= n
        <5>1. i \in 1..n  BY <4>2
        <5>2. mid[i] = <<2, cs[i]>>  BY <5>1
        <5> HIDE DEF mid, end, tail
        <5> QED  BY <4>1, <4>2, <5>2, <2>3, <3>1
      <4>3. CASE ~(i <= n)
        <5>1. i - n = 1  BY <4>3
        <5> HIDE DEF mid, end, tail
        <5> QED  BY <4>1, <4>3, <5>1, <2>3, <2>5, <3>1
      <4> QED  BY <4>2, <4>3
    <3> HIDE DEF mid, end, tail
    <3> QED  BY <3>1, <3>2, <2>7, SeqEqual
  <2>9. head \o mid \o end = head \o (mid \o end)
    <3> HIDE DEF head, mid, end
    <3> QED  BY <2>5, <2>6, ConcatAssociative, SMTT(40)
  <2>10. head \o (mid \o end) = head \o tail
    <3> HIDE DEF head, mid, end, tail
    <3> QED  BY <2>8
  <2> QED  BY <2>2, <2>3, <2>9, <2>10 DEF text
<1> QED  BY <1>16, <1>17

-----------------------------------------------------------------------------
(* What is put is fields.                                                  *)

\* The fields a payload is made of.
Fields == {f \in FieldSet : f[2] < Modulus(f[1])}

\* A field that fits is a field.
LEMMA FieldsOnly == Fields \in SUBSET FieldSet /\ Seq(Fields) \in SUBSET Seq(FieldSet)
<1>1. \A f \in Fields : f \in FieldSet  BY DEF Fields
<1> QED  BY <1>1, SeqMonotonic

\* A field is put as many bytes as it has, whatever the number.
LEMMA FieldTyped ==
  ASSUME NEW w \in Widths, NEW v \in Int PROVE Field(w, v) \in Fields
<1>1. PICK d \in Nat : d = Modulus(w) /\ d > 0  BY ModulusIs DEF Widths
<1>2. v % d \in 0..(d - 1)  BY <1>1, SMT
<1>3. Field(w, v) = <<w, v % d>>  BY <1>1 DEF Field
<1>4. <<w, v % d>> \in FieldSet  BY <1>2 DEF FieldSet
<1>5. <<w, v % d>>[1] = w /\ <<w, v % d>>[2] = v % d  OBVIOUS
<1>6. v % d < Modulus(w)  BY <1>1, <1>2
<1> QED  BY <1>3, <1>4, <1>5, <1>6 DEF Fields

\* As many fields as there are places.
LEMMA FieldRow ==
  ASSUME NEW n \in Nat, NEW f, \A i \in 1..n : f[i] \in Fields
  PROVE  [i \in 1..n |-> f[i]] \in Seq(Fields) /\ Len([i \in 1..n |-> f[i]]) = n
<1> DEFINE g == [i \in 1..n |-> f[i]]
<1>1. g \in [1..n -> Fields]  OBVIOUS
<1>2. g \in Seq(Fields)  BY <1>1, SeqDef
<1> HIDE DEF g
<1>3. Len(g) = n  BY <1>1, <1>2, LenProperties
<1> QED  BY <1>2, <1>3 DEF g

\* A number is put as fields that fit.
LEMMA NumberTyped ==
  ASSUME NEW t \in DOMAIN Parts, NEW v \in Int PROVE PutNumber(t, v) \in Seq(Fields)
<1>1. PICK n \in Nat : n = Len(Parts[t]) /\ DOMAIN Parts[t] = 1..n  BY PartsType, LenProperties
<1>2. \A i \in 1..n : Parts[t][i] \in Widths  BY <1>1, PartsType, LenProperties
<1> DEFINE x(i) == CASE i = 1 -> v [] i = 2 -> v \div Long [] OTHER -> 0
           f == [i \in 1..n |-> Field(Parts[t][i], x(i))]
<1>3. v \div Long \in Int  
  <2>1. Long \in Nat /\ Long > 0  BY ModulusIs
  <2> QED  BY <2>1, SMT
<1>4. \A i \in 1..n : x(i) \in Int  BY <1>3
<1> HIDE DEF x
<1>5. \A i \in 1..n : f[i] \in Fields  BY <1>2, <1>4, FieldTyped
<1>6. PutNumber(t, v) = f  BY <1>1 DEF PutNumber, x
<1>7. f = [i \in 1..n |-> f[i]]  OBVIOUS
<1> HIDE DEF f
<1>8. [i \in 1..n |-> f[i]] \in Seq(Fields)  BY <1>5, FieldRow
<1> QED  BY <1>6, <1>7, <1>8

\* The numbers an array consists of.
LEMMA ElementIs ==
  /\ DOMAIN Element = {AUINT16, AUINT32} /\ Element[AUINT16] = UINT16 /\ Element[AUINT32] = UINT32
  /\ \A t \in DOMAIN Element : Parts[Element[t]] \in {<<2>>, <<4>>} /\ Parts[Element[t]][1] \in Widths
<1>1. DOMAIN Element = {AUINT16, AUINT32} /\ Element[AUINT16] = UINT16 /\ Element[AUINT32] = UINT32
  BY DEF Element, AUINT16, AUINT32
<1>2. <<2>>[1] \in Widths /\ <<4>>[1] \in Widths  BY DEF Widths
<1> QED  BY <1>1, <1>2, PartsAre

\* An array is put as fields that fit.
LEMMA ArrayTyped ==
  ASSUME NEW t \in DOMAIN Element, NEW v \in Seq(Int) PROVE PutArray(t, v) \in Seq(Fields)
<1>1. PICK n \in Nat : n = Len(v) /\ DOMAIN v = 1..n  BY LenProperties
<1>2. PICK w \in Widths : w = Parts[Element[t]][1]  BY ElementIs
<1>3. \A i \in 1..n : v[i] \in Int  BY <1>1, LenProperties
<1> DEFINE f == [i \in 1..n |-> Field(w, v[i])]
<1>4. \A i \in 1..n : f[i] \in Fields  BY <1>3, FieldTyped
<1>5. f = [i \in 1..n |-> f[i]]  OBVIOUS
<1>6. PutArray(t, v) = PutNumber(UINT32, n) \o f  BY <1>1, <1>2 DEF PutArray
<1> HIDE DEF f
<1>7. [i \in 1..n |-> f[i]] \in Seq(Fields)  BY <1>4, FieldRow
<1>8. PutNumber(UINT32, n) \in Seq(Fields)
  <2>1. UINT32 \in DOMAIN Parts  BY PartsAre
  <2> QED  BY <2>1, NumberTyped
<1>9. f \in Seq(Fields)  BY <1>5, <1>7
<1> DEFINE g == PutNumber(UINT32, n)
<1> HIDE DEF g
<1>10. g \o f \in Seq(Fields)  BY <1>8, <1>9, ConcatProperties DEF g
<1> QED  BY <1>6, <1>10 DEF g

\* A unit is the character at the pointer, or what is no character.
LEMMA UnitOrGarbage ==
  ASSUME NEW bytes, NEW p PROVE UnitAt(bytes, p) = ByteAt(bytes, p)[1] \/ UnitAt(bytes, p) = Garbage
<1> DEFINE c == ByteAt(bytes, p)[1]
           P == c < 65536 /\ \A k \in 1..Taken(ByteAt(bytes, p)) : ByteAt(bytes, p + k - 1) = <<c, k>>
<1>1. UnitAt(bytes, p) = IF P THEN c ELSE Garbage  BY DEF UnitAt
<1> HIDE DEF P, c
<1>2. UnitAt(bytes, p) = c \/ UnitAt(bytes, p) = Garbage  BY <1>1
<1> QED  BY <1>2 DEF c

\* Whatever bytes a text has, what MtpStringBuffer puts is fields.
LEMMA TextTyped ==
  ASSUME NEW text \in Seq(ByteSet) PROVE PutText(text) \in Seq(Fields)
<1> DEFINE b == BufferOf(text)
           At0(p) == ByteAt(b.bytes, p)
<1>1. b.bytes \in Seq(ByteSet)
  <2>1. Byte \in Nat /\ Byte > 2  BY ModulusIs
  <2>2. CASE Len(text) < 3 * Byte - 2  BY <2>2 DEF BufferOf
  <2>3. CASE ~(Len(text) < 3 * Byte - 2)
    <3>0. PICK m \in Nat : m = 3 * (Byte - 1)  BY <2>1
    <3>1. b.bytes = SubSeq(text, 1, m)  BY <2>3, <3>0 DEF BufferOf
    <3>2. PICK n \in Nat : n = Len(text) /\ \A i \in 1..n : text[i] \in ByteSet  BY LenProperties
    <3>3. m <= n  BY <2>3, <3>0, <3>2, <2>1
    <3>4. \A i \in 1..m : text[i] \in ByteSet  BY <3>2, <3>3
    <3>5. SubSeq(text, 1, m) \in Seq(ByteSet)  BY <3>4, SubSeqProperties
    <3> QED  BY <3>1, <3>5
  <2> QED  BY <2>2, <2>3
<1>2. PICK n \in Nat : n = b.count
  <2> DEFINE L == {i \in DOMAIN text : text[i][2] = 1 \/ Utf8Len(text[i][1]) = 4}
  <2>1. b.count = Cardinality(L)  BY DEF BufferOf
  <2>2. PICK m \in Nat : DOMAIN text = 1..m  BY LenProperties
  <2>3. IsFiniteSet(1..m)  BY FS_Interval
  <2>4. L \in SUBSET (1..m)  BY <2>2
  <2> HIDE DEF L
  <2>5. IsFiniteSet(L)  BY <2>3, <2>4, FS_Subset
  <2>6. Cardinality(L) \in Nat  BY <2>5, FS_CardinalityType
  <2> QED  BY <2>1, <2>6
<1>3. PICK bytes \in Seq(ByteSet) : bytes = b.bytes  BY <1>1
<1> HIDE DEF b
<1>4. ASSUME NEW p \in Nat, p >= 1
      PROVE  ByteAt(bytes, p) \in Int \X Nat /\ Taken(ByteAt(bytes, p)) \in 1..3 /\ UnitAt(bytes, p) \in Int
  <2>1. PICK m \in Nat : m = Len(bytes) /\ \A i \in 1..m : bytes[i] \in ByteSet  BY LenProperties
  <2>2. ByteAt(bytes, p) \in Int \X Nat
    <3>1. CASE p <= m
      <4>1. p \in 1..m  BY <3>1, <1>4
      <4>2. ByteAt(bytes, p) = bytes[p]  BY <3>1, <2>1 DEF ByteAt
      <4>3. bytes[p] \in Nat \X Nat  BY <4>1, <2>1 DEF ByteSet
      <4> QED  BY <4>2, <4>3
    <3>2. CASE ~(p <= m)
      <4>1. ByteAt(bytes, p) = NUL \/ ByteAt(bytes, p) = <<Garbage, 0>>  BY <3>2, <2>1 DEF ByteAt
      <4>2. NUL \in Int \X Nat /\ <<Garbage, 0>> \in Int \X Nat  BY DEF NUL, Garbage
      <4> QED  BY <4>1, <4>2
    <3> QED  BY <3>1, <3>2
  <2> DEFINE x == ByteAt(bytes, p)
  <2>3. Taken(x) \in 1..3
    <3> HIDE DEF x
    <3> QED  BY DEF Taken
  <2>4. UnitAt(bytes, p) = x[1] \/ UnitAt(bytes, p) = Garbage
    <3> QED  BY UnitOrGarbage
  <2>5. x[1] \in Int /\ Garbage \in Int
    <3>1. x[1] \in Int  BY <2>2
    <3> QED  BY <3>1 DEF Garbage
  <2> QED  BY <2>2, <2>3, <2>4, <2>5
<1> DEFINE Is(at) == at = [i \in 1..b.count |-> IF i = 1 THEN 1 ELSE at[i - 1] + Taken(ByteAt(b.bytes, at[i - 1]))]
           at == CHOOSE at : Is(at)
<1>5. PutText(text) =
        IF b.count = 0 THEN <<Field(1, 0)>>
        ELSE <<Field(1, b.count + 1)>> \o [i \in 1..b.count |-> Field(2, UnitAt(b.bytes, at[i]))] \o <<Field(2, 0)>>
  BY Zenon DEF PutText, b
<1>6. ASSUME NEW k \in {1, 2}, NEW v \in Int PROVE <<Field(k, v)>> \in Seq(Fields)
  <2>1. Field(k, v) \in Fields  BY FieldTyped DEF Widths
  <2> QED  BY <2>1
<1>7. CASE n = 0
  <2>1. PutText(text) = <<Field(1, 0)>>  BY <1>2, <1>5, <1>7
  <2> QED  BY <2>1, <1>6
<1>8. CASE n # 0
  <2> DEFINE V == {p \in Nat : p >= 1}
             step == [x \in (1..n) \X V |-> IF x[1] = 1 THEN 1 ELSE x[2] + Taken(ByteAt(bytes, x[2]))]
  <2>1. step \in [(1..n) \X V -> V]
    <3>1. ASSUME NEW i \in 1..n, NEW p \in V PROVE (IF i = 1 THEN 1 ELSE p + Taken(ByteAt(bytes, p))) \in V
      <4>1. Taken(ByteAt(bytes, p)) \in 1..3 /\ p \in Nat /\ p >= 1  BY <1>4
      <4> QED  BY <4>1
    <3> QED  BY <3>1
  <2>2. PICK f \in [0..n -> V] : Goes(f, n, 1, step)
    <3>1. 1 \in V  OBVIOUS
    <3> HIDE DEF V, step
    <3> QED  BY <2>1, <3>1, Recursion
  <2>3. \A i \in 1..n : f[i - 1] \in V /\ f[i] \in V /\ f[i] = step[<<i, f[i - 1]>>]
    <3>1. \A i \in 1..n : i - 1 \in 0..n /\ i \in 0..n  OBVIOUS
    <3> HIDE DEF V, step
    <3> QED  BY <3>1, <2>2 DEF Goes
  <2>4. ASSUME NEW i \in 1..n
        PROVE  f[i] = IF i = 1 THEN 1 ELSE f[i - 1] + Taken(ByteAt(bytes, f[i - 1]))
    <3> DEFINE q == f[i - 1]
    <3>1. q \in V /\ f[i] = step[<<i, q>>]  BY <2>3
    <3> HIDE DEF q
    <3>2. f[i] = IF i = 1 THEN 1 ELSE q + Taken(ByteAt(bytes, q))  BY <3>1
    <3> QED  BY <3>2 DEF q
  <2> DEFINE g == [i \in 1..n |-> f[i]]
             G(i) == IF i = 1 THEN 1 ELSE g[i - 1] + Taken(ByteAt(bytes, g[i - 1]))
  <2>5. \A i \in 1..n : g[i] = G(i)
    <3>1. \A i \in 1..n : i # 1 => i - 1 \in 1..n  OBVIOUS
    <3>2. \A i \in 1..n : i # 1 => g[i - 1] = f[i - 1]  BY <3>1
    <3>3. \A i \in 1..n : g[i] = f[i]  OBVIOUS
    <3> HIDE DEF g
    <3> QED  BY <2>4, <3>2, <3>3
  <2>6. g = [i \in 1..n |-> g[i]]  OBVIOUS
  <2>7. 1..b.count = 1..n /\ b.bytes = bytes  BY <1>2, <1>3
  <2>8. Is(g)
    <3> HIDE DEF g
    <3>1. g = [i \in 1..n |-> G(i)]
      <4> HIDE DEF G
      <4> QED  BY <2>5, <2>6, Zenon
    <3> QED  BY <3>1, <2>7, Zenon
  <2>9. Is(at)  BY <2>8, Zenon
  <2>10. \A i \in 1..n : at[i] = IF i = 1 THEN 1 ELSE at[i - 1] + Taken(ByteAt(bytes, at[i - 1]))
    <3> HIDE DEF at
    <3>1. at = [i \in 1..b.count |-> IF i = 1 THEN 1 ELSE at[i - 1] + Taken(ByteAt(b.bytes, at[i - 1]))]  BY <2>9
    <3> QED  BY <3>1, <2>7, Zenon
  <2> HIDE DEF at
  <2>11. \A i \in 1..n : at[i] \in V
    <3> DEFINE T == {k \in Nat : k \in 1..n => at[k] \in V}
    <3>1. 0 \in T  OBVIOUS
    <3>2. ASSUME NEW k \in Nat, k \in T PROVE k + 1 \in T
      <4> SUFFICES ASSUME k + 1 \in 1..n PROVE at[k + 1] \in V  OBVIOUS
      <4>1. CASE k = 0
        <5>1. at[k + 1] = 1  BY <4>1, <2>10
        <5> QED  BY <5>1
      <4>2. CASE k # 0
        <5>1. k \in 1..n /\ k + 1 # 1 /\ (k + 1) - 1 = k  BY <4>2
        <5>2. at[k] \in V  BY <5>1, <3>2
        <5>3. at[k + 1] = at[k] + Taken(ByteAt(bytes, at[k]))  BY <5>1, <2>10
        <5>4. Taken(ByteAt(bytes, at[k])) \in 1..3  BY <5>2, <1>4
        <5> QED  BY <5>2, <5>3, <5>4, SMTT(40)
      <4> QED  BY <4>1, <4>2
    <3>3. \A k \in Nat : k \in T
      <4> HIDE DEF T
      <4> QED  BY <3>1, <3>2, Induct
    <3> QED  BY <3>3
  <2> DEFINE h == [i \in 1..n |-> Field(2, UnitAt(bytes, at[i]))]
  <2>12. \A i \in 1..n : UnitAt(bytes, at[i]) \in Int  BY <2>11, <1>4
  <2>13. \A i \in 1..n : h[i] \in Fields  BY <2>12, FieldTyped DEF Widths
  <2>14. h = [i \in 1..n |-> h[i]]  OBVIOUS
  <2>15. PutText(text) = <<Field(1, n + 1)>> \o h \o <<Field(2, 0)>>  BY <1>2, <1>5, <1>8, <2>7
  <2> HIDE DEF h
  <2>16. [i \in 1..n |-> h[i]] \in Seq(Fields)  BY <2>13, FieldRow
  <2>17. h \in Seq(Fields)  BY <2>14, <2>16
  <2>18. <<Field(1, n + 1)>> \in Seq(Fields) /\ <<Field(2, 0)>> \in Seq(Fields)  BY <1>6
  <2> QED  BY <2>15, <2>17, <2>18, ConcatProperties
<1> QED  BY <1>7, <1>8

\* A text with no zero in it ends where its units have the zero.
LEMMA CStringIs ==
  ASSUME NEW cs \in Seq(Nat), \A i \in 1..Len(cs) : cs[i] # 0
  PROVE  CString(UnitOf(cs)) = Text(cs)
<1> DEFINE units == UnitOf(cs)
           EndsAt(n) == (\A i \in 1..n : units[i] # 0) /\ (n = Len(units) \/ units[n + 1] = 0)
           end == CHOOSE n \in 0..Len(units) : EndsAt(n)
<1>1. PICK n \in Nat : n = Len(cs) /\ \A i \in 1..n : cs[i] \in Nat  BY LenProperties
<1>2. PICK m \in Nat : m = UnitCount(cs) /\ m = IF n = 0 THEN 0 ELSE n + 1
  <2>1. UnitCount(cs) = IF n = 0 THEN 0 ELSE n + 1  BY <1>1 DEF UnitCount
  <2> QED  BY <2>1
<1>3. units \in Seq(Nat) /\ Len(units) = m  BY <1>2, UnitsAre
<1>4. \A i \in 1..m : units[i] = IF i <= n THEN cs[i] ELSE 0  BY <1>1, <1>2 DEF UnitOf
<1>5. CString(units) = Text(SubSeq(units, 1, end))  BY DEF CString
<1> HIDE DEF units
<1>6. n \in 0..Len(units) /\ EndsAt(n)
  <2>1. \A i \in 1..n : i \in 1..m /\ i <= n  BY <1>2
  <2>2. \A i \in 1..n : units[i] # 0  BY <2>1, <1>1, <1>4
  <2>3. n = m \/ (n + 1 \in 1..m /\ ~(n + 1 <= n))  BY <1>2
  <2>4. n = m \/ units[n + 1] = 0  BY <2>3, <1>4
  <2>5. n \in 0..m  BY <1>2
  <2> QED  BY <2>2, <2>4, <2>5, <1>3
<1>7. end \in 0..Len(units) /\ EndsAt(end)  BY <1>6, Zenon
<1>8. PICK k \in 0..m : k = end /\ EndsAt(k)  BY <1>3, <1>7
<1>9. k = n
  <2>1. ~(k < n)
    <3> SUFFICES ASSUME k < n PROVE FALSE  OBVIOUS
    <3>1. k + 1 \in 1..n /\ k + 1 \in 1..m /\ k # m /\ k + 1 <= n  BY <1>2
    <3>2. units[k + 1] = 0  BY <3>1, <1>3, <1>8
    <3> QED  BY <3>1, <3>2, <1>1, <1>4
  <2>2. ~(k > n)
    <3> SUFFICES ASSUME k > n PROVE FALSE  OBVIOUS
    <3>1. k \in 1..k /\ k \in 1..m /\ ~(k <= n)  OBVIOUS
    <3>2. units[k] # 0  BY <3>1, <1>8
    <3> QED  BY <3>1, <3>2, <1>4
  <2> QED  BY <2>1, <2>2
<1> DEFINE x == SubSeq(units, 1, n)
<1>10. x = cs
  <2>1. \A i \in 1..n : i \in 1..m  BY <1>2
  <2>2. \A i \in 1..n : units[i] \in Nat /\ units[i] = cs[i]  BY <2>1, <1>1, <1>4
  <2>3. x \in Seq(Nat) /\ (Len(x) = IF 1 <= n THEN n - 1 + 1 ELSE 0) /\ \A i \in 1..(n - 1 + 1) : x[i] = units[1 + i - 1]
    BY <2>2, SubSeqProperties
  <2>7. \A i \in 1..n : i \in 1..(n - 1 + 1) /\ 1 + i - 1 = i  OBVIOUS
  <2> HIDE DEF x
  <2>4. Len(x) = n  BY <2>3
  <2>5. \A i \in 1..n : x[i] = cs[i]  BY <2>2, <2>3, <2>7
  <2>6. Len(cs) = Len(x)  BY <2>4, <1>1
  <2> QED  BY <2>3, <2>4, <2>5, <2>6, SeqEqual
<1>11. SubSeq(units, 1, end) = x  BY <1>8, <1>9
<1> QED  BY <1>5, <1>10, <1>11 DEF units

-----------------------------------------------------------------------------
(* Any type.                                                               *)

Types == DOMAIN Parts \cup DOMAIN Element \cup {STR}

\* The texts MtpStringBuffer carries.
Texts == {Text(cs) : cs \in {x \in Seq(Nat) : Low(x) /\ Len(x) < Byte - 1 /\ \A i \in 1..Len(x) : x[i] # 0}}

ElementModulus(t) == Modulus(Parts[Element[t]][1])

\* The arrays a payload carries.
Arrays(t) == {a \in Seq(Nat) : Len(a) < Long /\ \A i \in 1..Len(a) : a[i] < ElementModulus(t)}

\* The values of a type that come back as they were put.
Values(t) == IF t = STR THEN Texts ELSE IF t \in DOMAIN Element THEN Arrays(t) ELSE Numbers(t)

\* The values that can be put at all.
Loose(t) == IF t = STR THEN Seq(ByteSet) ELSE IF t \in DOMAIN Element THEN Seq(Int) ELSE Int

\* A type is that of a number, of an array or of a text.
LEMMA TypesDiffer ==
  /\ STR \notin DOMAIN Element /\ STR \notin DOMAIN Parts /\ \A t \in DOMAIN Element : t \notin DOMAIN Parts
  /\ \A t \in DOMAIN Element : t # STR
  /\ \A t \in DOMAIN Parts : t # STR /\ t \notin DOMAIN Element
BY PartsAre, ElementIs DEF UINT8, UINT16, UINT32, UINT64, UINT128, STR, AUINT16, AUINT32

\* How a value of each type is put.
LEMMA PutIs ==
  ASSUME NEW v
  PROVE  /\ Put(STR, v) = PutText(v)
         /\ \A t \in DOMAIN Element : Put(t, v) = PutArray(t, v)
         /\ \A t \in DOMAIN Parts : Put(t, v) = PutNumber(t, v)
<1>1. Put(STR, v) = PutText(v)  BY TypesDiffer, SMT DEF Put
<1>2. \A t \in DOMAIN Element : Put(t, v) = PutArray(t, v)  BY TypesDiffer, SMT DEF Put
<1>3. \A t \in DOMAIN Parts : Put(t, v) = PutNumber(t, v)  BY TypesDiffer, SMT DEF Put
<1> QED  BY <1>1, <1>2, <1>3

\* How a value of each type is read.
LEMMA GetIs ==
  ASSUME NEW r
  PROVE  /\ Get(r, STR) = AsText(GetCounted(r, 1, 2))
         /\ \A t \in DOMAIN Element : Get(r, t) = GetCounted(r, 4, Parts[Element[t]][1])
         /\ \A t \in DOMAIN Parts : Get(r, t) = GetNumber(r, t)
<1>1. Get(r, STR) = AsText(GetCounted(r, 1, 2))  BY TypesDiffer, SMT DEF Get
<1>2. \A t \in DOMAIN Element : Get(r, t) = GetCounted(r, 4, Parts[Element[t]][1])  BY TypesDiffer, SMT DEF Get
<1>3. \A t \in DOMAIN Parts : Get(r, t) = GetNumber(r, t)  BY TypesDiffer, SMT DEF Get
<1> QED  BY <1>1, <1>2, <1>3

\* Whatever is put is put as fields that fit.
LEMMA PutTyped ==
  ASSUME NEW t \in Types, NEW v \in Loose(t) PROVE Put(t, v) \in Seq(Fields)
<1>1. CASE t = STR
  <2>1. v \in Seq(ByteSet)  BY <1>1 DEF Loose
  <2> QED  BY <1>1, <2>1, TextTyped, PutIs
<1>2. CASE t \in DOMAIN Element
  <2>1. v \in Seq(Int)  BY <1>2, TypesDiffer DEF Loose
  <2> QED  BY <1>2, <2>1, ArrayTyped, PutIs
<1>3. CASE t \in DOMAIN Parts
  <2>1. v \in Int  BY <1>3, TypesDiffer DEF Loose
  <2> QED  BY <1>3, <2>1, NumberTyped, PutIs
<1> QED  BY <1>1, <1>2, <1>3 DEF Types

\* A value that comes back is a value.
LEMMA ValuesLoose ==
  ASSUME NEW t \in Types, NEW v \in Values(t) PROVE v \in Loose(t)
<1>1. CASE t = STR
  <2>1. v \in Texts  BY <1>1 DEF Values
  <2>2. v \in Seq(ByteSet)  BY <2>1, SpeltExists DEF Texts
  <2> QED  BY <1>1, <2>2 DEF Loose
<1>2. CASE t \in DOMAIN Element
  <2>1. v \in Seq(Nat)  BY <1>2, TypesDiffer DEF Values, Arrays
  <2>2. v \in Seq(Int)
    <3>1. Nat \in SUBSET Int  OBVIOUS
    <3> QED  BY <2>1, <3>1, SeqMonotonic
  <2> QED  BY <1>2, <2>2, TypesDiffer DEF Loose
<1>3. CASE t \in DOMAIN Parts
  <2>1. v \in Numbers(t)  BY <1>3, TypesDiffer DEF Values
  <2>2. v \in Int
    <3>1. CASE t \in {UINT8, UINT16, UINT32}
      <4>1. v \in 0..(Modulus(Parts[t][1]) - 1)  BY <2>1, <3>1 DEF Numbers
      <4> QED  BY <4>1
    <3>2. CASE t \notin {UINT8, UINT16, UINT32}
      <4>1. v \in {x[1] + Long * x[2] : x \in (0..(Long - 1)) \X (0..(Long - 1))}  BY <2>1, <3>2, Zenon DEF Numbers
      <4>2. PICK a \in 0..(Long - 1), b \in 0..(Long - 1) : v = a + Long * b  BY <4>1
      <4> QED  BY <4>2, ModulusIs
    <3> QED  BY <3>1, <3>2
  <2> QED  BY <1>3, <2>2, TypesDiffer DEF Loose
<1> QED  BY <1>1, <1>2, <1>3 DEF Types

\* A count of four bytes.
LEMMA CountIs ==
  ASSUME NEW n \in 0..(Long - 1) PROVE PutNumber(UINT32, n) = <<<<4, n>>>>
<1>1. Parts[UINT32] = <<4>> /\ DOMAIN <<4>> = 1..1 /\ <<4>>[1] = 4  BY PartsAre
<1>2. Field(4, n) = <<4, n>>
  <2>1. 4 \in Widths /\ n \in 0..(Modulus(4) - 1)  BY ModulusIs DEF Widths
  <2> QED  BY <2>1, FieldIs
<1>3. \A i \in 1..1 : Field(Parts[UINT32][i], CASE i = 1 -> n [] i = 2 -> n \div Long [] OTHER -> 0) = <<4, n>>
  BY <1>1, <1>2
<1>4. PutNumber(UINT32, n) = [i \in 1..1 |-> <<4, n>>]  BY <1>1, <1>3 DEF PutNumber
<1> QED  BY <1>4

\* An array is read as it was put (putAUInt16, getAUInt16).
LEMMA TakesArray ==
  ASSUME NEW t \in DOMAIN Element, NEW v \in Arrays(t), NEW rest \in Seq(FieldSet), NEW V, NEW out \in Seq(V)
  PROVE  GetCounted(At(PutArray(t, v) \o rest, out), 4, Parts[Element[t]][1]) = At(rest, Append(out, v))
<1>1. v \in Seq(Nat) /\ Len(v) < Long /\ \A i \in 1..Len(v) : v[i] < ElementModulus(t)  BY DEF Arrays
<1>2. PICK n \in Nat : n = Len(v) /\ DOMAIN v = 1..n /\ \A i \in 1..n : v[i] \in Nat  BY <1>1, LenProperties
<1>3. PICK w \in Widths : w = Parts[Element[t]][1]  BY ElementIs
<1>4. \A i \in 1..n : Field(w, v[i]) = <<w, v[i]>>
  <2>1. Modulus(w) \in Nat  BY ModulusIs DEF Widths
  <2>2. \A i \in 1..n : v[i] \in 0..(Modulus(w) - 1)  BY <1>1, <1>2, <1>3, <2>1 DEF ElementModulus
  <2> QED  BY <2>2, FieldIs
<1>5. PutNumber(UINT32, n) = <<<<4, n>>>>
  <2>1. n \in 0..(Long - 1)  BY <1>1, <1>2, ModulusIs
  <2> QED  BY <2>1, CountIs
<1>6. PutArray(t, v) = <<<<4, n>>>> \o Row(w, n, v)
  <2>1. PutArray(t, v) = PutNumber(UINT32, n) \o [i \in 1..n |-> Field(w, v[i])]  BY <1>2, <1>3 DEF PutArray
  <2>2. [i \in 1..n |-> Field(w, v[i])] = Row(w, n, v)  BY <1>4 DEF Row
  <2> QED  BY <2>1, <2>2, <1>5
<1>7. v = Numbered(n, v)  BY <1>1, <1>2 DEF Numbered
<1>8. 4 \in Widths  BY DEF Widths
<1>10. Counts(4, w, PutArray(t, v), v)  BY <1>2, <1>6, <1>7 DEF Counts
<1>9. GetCounted(At(PutArray(t, v) \o rest, out), 4, w) = At(rest, Append(out, v))
  BY <1>8, <1>10, TakesCounted
<1> QED  BY <1>3, <1>9

\* A text is read as it was put (MtpStringBuffer::writeToPacket, readFromPacket).
LEMMA TakesText ==
  ASSUME NEW v \in Texts, NEW rest \in Seq(FieldSet), NEW V, NEW out \in Seq(V)
  PROVE  AsText(GetCounted(At(PutText(v) \o rest, out), 1, 2)) = At(rest, Append(out, v))
<1>1. PICK cs \in Seq(Nat) : v = Text(cs) /\ Low(cs) /\ Len(cs) < Byte - 1 /\ \A i \in 1..Len(cs) : cs[i] # 0
  BY DEF Texts
<1>2. PICK m \in Nat : m = UnitCount(cs) /\ \A i \in 1..m : UnitOf(cs)[i] \in Nat  BY UnitsAre
<1>3. PutText(v) = <<<<1, m>>>> \o Row(2, m, UnitOf(cs))  BY <1>1, <1>2, PutTextIs DEF Row
<1> DEFINE x == UnitOf(cs)
           r == At(rest, Append(out, x))
<1>5. x = Numbered(m, x)  BY <1>2 DEF UnitOf, Numbered
<1>4. GetCounted(At(PutText(v) \o rest, out), 1, 2) = r
  <2>1. 1 \in Widths /\ 2 \in Widths  BY DEF Widths
  <2>2. Counts(1, 2, PutText(v), x)  BY <1>2, <1>3, <1>5 DEF Counts
  <2> QED  BY <2>1, <2>2, TakesCounted
<1>6. CString(x) = v  BY <1>1, CStringIs
<1> HIDE DEF x
<1>7. Front(Append(out, x)) = out /\ Last(Append(out, x)) = x  BY FrontLast
<1> DEFINE y == Append(out, x)
<1>8. AsText(r) = At(rest, Append(out, v))
  <2>1. AsText(r) = Having(r, Append(Front(r.out), CString(Last(r.out))))  BY DEF AsText
  <2>2. r.out = y  BY AtIs, ZenonT(60)
  <2>3. Append(Front(y), CString(Last(y))) = Append(out, v)  BY <1>6, <1>7
  <2> HIDE DEF y
  <2> QED  BY <2>1, <2>2, <2>3, AtHaving
<1> QED  BY <1>4, <1>8

\* A value that is carried comes back, and what is behind it is left.
LEMMA TakesAny ==
  ASSUME NEW t \in Types, NEW v \in Values(t), NEW rest \in Seq(FieldSet), NEW V, NEW out \in Seq(V)
  PROVE  Get(At(Put(t, v) \o rest, out), t) = At(rest, Append(out, v))
<1> DEFINE r == At(Put(t, v) \o rest, out)
           Goal == Get(r, t) = At(rest, Append(out, v))
<1>1. ASSUME t = STR PROVE Goal
  <2>1. v \in Texts  BY <1>1 DEF Values
  <2>2. Put(t, v) = PutText(v)  BY <1>1, PutIs
  <2>3. AsText(GetCounted(r, 1, 2)) = At(rest, Append(out, v))  BY <2>1, <2>2, TakesText
  <2> HIDE DEF r
  <2>4. Get(r, t) = AsText(GetCounted(r, 1, 2))  BY <1>1, GetIs
  <2> QED  BY <2>3, <2>4
<1>2. ASSUME t \in DOMAIN Element PROVE Goal
  <2>1. v \in Arrays(t)  BY <1>2, TypesDiffer DEF Values
  <2>2. Put(t, v) = PutArray(t, v)  BY <1>2, PutIs
  <2>3. GetCounted(r, 4, Parts[Element[t]][1]) = At(rest, Append(out, v))  BY <1>2, <2>1, <2>2, TakesArray
  <2> HIDE DEF r
  <2>4. Get(r, t) = GetCounted(r, 4, Parts[Element[t]][1])  BY <1>2, GetIs
  <2> QED  BY <2>3, <2>4
<1>3. ASSUME t \in DOMAIN Parts PROVE Goal
  <2>1. v \in Numbers(t)  BY <1>3, TypesDiffer DEF Values
  <2>2. Put(t, v) = PutNumber(t, v)  BY <1>3, PutIs
  <2>3. GetNumber(r, t) = At(rest, Append(out, v))  BY <1>3, <2>1, <2>2, TakesNumber
  <2> HIDE DEF r
  <2>4. Get(r, t) = GetNumber(r, t)  BY <1>3, GetIs
  <2> QED  BY <2>3, <2>4
<1> QED  BY <1>1, <1>2, <1>3 DEF Types

-----------------------------------------------------------------------------
(* Datasets come back as they were written.                                *)

\* The reader goes through f.
Reads(f, layout, payload) ==
  f[0] = Reader(payload) /\ \A i \in 1..Len(layout) : f[i] = Get(f[i - 1], layout[i])

\* What Read returns is where the reader gets to.
LEMMA ReadIs ==
  ASSUME NEW layout, NEW payload, NEW f, NEW n \in Nat, n = Len(layout), Reads(f, layout, payload)
  PROVE  Read(layout, payload) = f[n]
<1> DEFINE Is(r) == r = [i \in 0..Len(layout) |-> IF i = 0 THEN Reader(payload) ELSE Get(r[i - 1], layout[i])]
           r == CHOOSE r : Is(r)
           g == [i \in 0..n |-> f[i]]
           G(i) == IF i = 0 THEN Reader(payload) ELSE Get(g[i - 1], layout[i])
<1>1. Read(layout, payload) = r[n]  BY Zenon DEF Read
<1>2. Is(g)
  <2>1. \A i \in 0..n : g[i] = f[i] /\ (i # 0 => i \in 1..n /\ i - 1 \in 0..n)  OBVIOUS
  <2>2. \A i \in 1..n : f[i] = Get(f[i - 1], layout[i]) BY DEF Reads
  <2>3. f[0] = Reader(payload)  BY DEF Reads
  <2>4. g = [i \in 0..n |-> g[i]]  OBVIOUS
  <2> HIDE DEF g
  <2>5. \A i \in 0..n : g[i] = G(i)  BY <2>1, <2>2, <2>3
  <2>6. g = [i \in 0..n |-> G(i)]
    <3> HIDE DEF G
    <3> QED  BY <2>4, <2>5, Zenon
  <2> QED  BY <2>6, Zenon
<1>3. Is(r)  BY <1>2, Zenon
<1>4. \A i \in 0..n : r[i] = IF i = 0 THEN Reader(payload) ELSE Get(r[i - 1], layout[i])
  <2> HIDE DEF r
  <2>1. r = [i \in 0..Len(layout) |-> IF i = 0 THEN Reader(payload) ELSE Get(r[i - 1], layout[i])]  BY <1>3
  <2> QED  BY <2>1, Zenon
<1> HIDE DEF r, g
<1>5. r[n] = f[n]
  <2> DEFINE T == {k \in Nat : k \in 0..n => r[k] = f[k]}
  <2>1. 0 \in T
    <3>1. r[0] = Reader(payload)  BY <1>4
    <3> QED  BY <3>1 DEF Reads
  <2>2. ASSUME NEW k \in Nat, k \in T PROVE k + 1 \in T
    <3> SUFFICES ASSUME k + 1 \in 0..n PROVE r[k + 1] = f[k + 1]  OBVIOUS
    <3>1. k \in 0..n /\ k + 1 # 0 /\ (k + 1) - 1 = k /\ k + 1 \in 1..n  OBVIOUS
    <3>2. r[k + 1] = Get(r[k], layout[k + 1])  BY <3>1, <1>4
    <3>3. f[k + 1] = Get(f[k], layout[k + 1])  BY <3>1 DEF Reads
    <3> QED  BY <3>1, <3>2, <3>3, <2>2
  <2>3. n \in T
    <3> HIDE DEF T
    <3> QED  BY <2>1, <2>2, Induct
  <2> QED  BY <2>3
<1> QED  BY <1>1, <1>5

\* n items, each a value of its type.
Items(items, n) ==
  /\ n \in Nat /\ DOMAIN items = 1..n /\ Len(items) = n
  /\ \A i \in 1..n : items[i][1] \in Types /\ items[i][2] \in Values(items[i][1])

\* What is left of the payload when i items have been read: each item is taken from what the one
\* before it leaves.
Leaves(items, n, left) ==
  /\ left[0] = Write(items) /\ left[n] = <<>>
  /\ \A i \in 0..n : left[i] \in Seq(FieldSet)
  /\ \A i \in 1..n : left[i - 1] = Put(items[i][1], items[i][2]) \o left[i]

\* What is left behind each item.
LEMMA LeavesExist ==
  ASSUME NEW items, NEW n, Items(items, n)
  PROVE  \E left : Leaves(items, n, left)
<1> DEFINE ss == [i \in 1..n |-> Put(items[i][1], items[i][2])]
<1>1. n \in Nat /\ DOMAIN items = 1..n  BY DEF Items
<1>2. ss \in Seq(Seq(FieldSet)) /\ Len(ss) = n
  <2>1. \A i \in 1..n : items[i][1] \in Types /\ items[i][2] \in Loose(items[i][1])  BY ValuesLoose DEF Items
  <2>2. \A i \in 1..n : Put(items[i][1], items[i][2]) \in Seq(Fields)  BY <2>1, PutTyped
  <2>3. ss \in [1..n -> Seq(FieldSet)]  BY <2>2, FieldsOnly
  <2>4. ss \in Seq(Seq(FieldSet))  BY <1>1, <2>3, SeqDef
  <2> HIDE DEF ss
  <2> QED  BY <1>1, <2>3, <2>4, LenProperties
<1>3. Write(items) = FlattenSeq(ss)  BY <1>1 DEF Write
<1>4. \A i \in 1..n : ss[i] = Put(items[i][1], items[i][2])  OBVIOUS
<1> HIDE DEF ss
<1>5. PICK e : Ends(ss, e)  BY <1>2, EndsExist
<1> DEFINE flat == FlattenSeq(ss)
<1>6. flat \in Seq(FieldSet) /\ Lies(flat, ss, e)  BY <1>2, <1>5, FlattenLies
<1> HIDE DEF flat
<1>7. PICK m \in Nat : m = Len(flat) /\ m = e[n]
  <2>1. Len(flat) \in Nat  BY <1>6, LenProperties
  <2> QED  BY <2>1, <1>2, <1>6 DEF Lies
<1>8. e[0] = 0  BY <1>5 DEF Ends
<1>13. \A i \in 1..Len(ss) : Rest(flat, e, i - 1) = ss[i] \o Rest(flat, e, i)
  <2>1. ss \in Seq(Seq(FieldSet)) /\ flat \in Seq(FieldSet) /\ Ends(ss, e) /\ Lies(flat, ss, e)  BY <1>2, <1>5, <1>6
  <2> QED  BY ONLY <2>1, FlattenRest
<1> DEFINE left == [i \in 0..n |-> Rest(flat, e, i)]
<1>9. left[0] = Write(items)
  <2>1. 0 \in 0..n  BY <1>1
  <2>2. left[0] = SubSeq(flat, 1, m)  BY <2>1, <1>7, <1>8 DEF Rest
  <2>3. SubSeq(flat, 1, m) = flat
    <3> DEFINE x == SubSeq(flat, 1, m)
    <3>1. \A i \in 1..m : flat[i] \in FieldSet  BY <1>6, <1>7, LenProperties
    <3>2. x \in Seq(FieldSet) /\ (Len(x) = IF 1 <= m THEN m - 1 + 1 ELSE 0) /\ \A i \in 1..(m - 1 + 1) : x[i] = flat[1 + i - 1]
      BY <3>1, SubSeqProperties
    <3>3. \A i \in 1..m : i \in 1..(m - 1 + 1) /\ 1 + i - 1 = i  OBVIOUS
    <3> HIDE DEF x
    <3>4. Len(x) = m  BY <3>2
    <3>5. \A i \in 1..m : x[i] = flat[i]  BY <3>2, <3>3
    <3> QED  BY <3>2, <3>4, <3>5, <1>6, <1>7, SeqEqual DEF x
  <2> QED  BY <2>2, <2>3, <1>3 DEF flat
<1>10. left[n] = <<>>
  <2>1. n \in 0..n  BY <1>1
  <2>2. left[n] = SubSeq(flat, m + 1, m)  BY <2>1, <1>7 DEF Rest
  <2>3. SubSeq(flat, m + 1, m) = <<>>  BY <1>6, <1>7, SubSeqEmpty
  <2> QED  BY <2>2, <2>3
<1>11. \A i \in 0..n : left[i] \in Seq(FieldSet)
  <2>1. \A i \in 1..n : Rest(flat, e, i) \in Seq(FieldSet)
    BY <1>2, <1>5, <1>6, FlattenRest
  <2>2. left[0] \in Seq(FieldSet)  BY <1>3, <1>6, <1>9 DEF flat
  <2>3. \A i \in 0..n : i = 0 \/ i \in 1..n  BY <1>1
  <2> QED  BY <2>1, <2>2, <2>3
<1>12. \A i \in 1..n : left[i - 1] = Put(items[i][1], items[i][2]) \o left[i]
  <2> SUFFICES ASSUME NEW i \in 1..n PROVE left[i - 1] = ss[i] \o left[i]  BY <1>4
  <2>1. i - 1 \in 0..n /\ i \in 0..n  BY <1>1
  <2>3. i \in 1..Len(ss)  BY <1>2
  <2>2. Rest(flat, e, i - 1) = ss[i] \o Rest(flat, e, i)  BY <1>13, <2>3
  <2> QED  BY <2>1, <2>2
<1> HIDE DEF left
<1> QED  BY <1>9, <1>10, <1>11, <1>12 DEF Leaves

\* Whatever was read before, the next item is read.
LEMMA LeavesTaken ==
  ASSUME NEW items, NEW n, Items(items, n), NEW left, Leaves(items, n, left), NEW i \in 1..n,
         NEW V, NEW out \in Seq(V)
  PROVE  Get(At(left[i - 1], out), items[i][1]) = At(left[i], Append(out, items[i][2]))
<1>1. left[i] \in Seq(FieldSet)
  <2>1. i \in 0..n  BY DEF Items
  <2> QED  BY <2>1 DEF Leaves
<1>2. left[i - 1] = Put(items[i][1], items[i][2]) \o left[i]  BY DEF Leaves
<1>3. items[i][1] \in Types /\ items[i][2] \in Values(items[i][1])  BY DEF Items
<1> QED  BY <1>1, <1>2, <1>3, TakesAny

\* The types and the values of the first k items.
TypesOf(items, k) == [i \in 1..k |-> items[i][1]]
ValuesOf(items, k) == [i \in 1..k |-> items[i][2]]

\* A reader that takes the types of the first items gets their values, and the rest is left.
LEMMA ReadsBack ==
  ASSUME NEW items, NEW n, Items(items, n), NEW left, Leaves(items, n, left), NEW k \in 0..n,
         NEW layout, layout = TypesOf(items, k)
  PROVE  Read(layout, Write(items)) = At(left[k], ValuesOf(items, k))
<1>1. n \in Nat /\ k \in Nat /\ k <= n  BY DEF Items
<1>2. DOMAIN layout = 1..k /\ Len(layout) = k /\ \A i \in 1..k : layout[i] = items[i][1]
  <2>1. layout = [i \in 1..k |-> items[i][1]]  BY DEF TypesOf
  <2>2. layout \in [1..k -> Types]
    <3>1. \A i \in 1..k : i \in 1..n  BY <1>1
    <3> QED  BY <2>1, <3>1 DEF Items
  <2>3. layout \in Seq(Types)  BY <1>1, <2>2, SeqDef
  <2>4. Len(layout) = k  BY <1>1, <2>2, <2>3, LenProperties
  <2> QED  BY <2>1, <2>4
<1> DEFINE f == [i \in 0..k |-> At(left[i], ValuesOf(items, i))]
<1>3. f[0] = Reader(Write(items))
  <2>1. f[0] = At(left[0], ValuesOf(items, 0))  BY <1>1
  <2>2. ValuesOf(items, 0) = <<>>
    <3>1. 1..0 = {}  OBVIOUS
    <3> QED  BY <3>1 DEF ValuesOf
  <2>3. left[0] = Write(items)  BY DEF Leaves
  <2> HIDE DEF f
  <2> QED  BY <2>1, <2>2, <2>3 DEF At, Reader
<1>4. ASSUME NEW i \in 1..k PROVE f[i] = Get(f[i - 1], layout[i])
  <2>1. i \in 1..n /\ i - 1 \in 0..k /\ i \in 0..k /\ i - 1 \in Nat  BY <1>1
  <2> DEFINE V == {items[j][2] : j \in 1..(i - 1)}
             out == ValuesOf(items, i - 1)
             v == items[i][2]
  <2>2. out \in Seq(V) /\ Len(out) = i - 1
    <3>1. out \in [1..(i - 1) -> V]  BY DEF ValuesOf
    <3>2. out \in Seq(V)  BY <2>1, <3>1, SeqDef
    <3> HIDE DEF out, V
    <3>3. Len(out) = i - 1  BY <2>1, <3>1, <3>2, LenProperties
    <3> QED  BY <3>2, <3>3
  <2>3. \A j \in 1..(i - 1) : out[j] = items[j][2]  BY DEF ValuesOf
  <2> HIDE DEF out, V
  <2>4. Get(At(left[i - 1], out), items[i][1]) = At(left[i], Append(out, v))  BY <2>1, <2>2, LeavesTaken
  <2>5. Append(out, v) = ValuesOf(items, i)
    <3> DEFINE W == V \cup {v}
    <3>1. out \in Seq(W) /\ v \in W  BY <2>2, SeqMonotonic
    <3> HIDE DEF W
    <3> DEFINE a == Append(out, v)
               b == ValuesOf(items, i)
    <3>2. a \in Seq(W) /\ Len(a) = (i - 1) + 1 /\ (\A j \in 1..(i - 1) : a[j] = out[j]) /\ a[(i - 1) + 1] = v
      BY <2>2, <3>1, AppendProperties
    <3>3. \A j \in 1..i : b[j] = items[j][2]  BY DEF ValuesOf
    <3>4. \A j \in 1..i : j \in 1..(i - 1) \/ j = (i - 1) + 1  BY <2>1
    <3>5. DOMAIN b = 1..i /\ b = [j \in 1..i |-> b[j]]  BY DEF ValuesOf
    <3> HIDE DEF a, b
    <3>6. DOMAIN a = 1..i /\ a = [j \in 1..i |-> a[j]]
      <4>1. DOMAIN a = 1..Len(a) /\ a = [j \in 1..Len(a) |-> a[j]]  BY <3>2, LenProperties
      <4>2. Len(a) = i  BY <3>2, <2>1
      <4> QED  BY <4>1, <4>2
    <3>7. \A j \in 1..i : a[j] = b[j]
      <4> TAKE j \in 1..i
      <4>1. CASE j \in 1..(i - 1)  BY <4>1, <2>3, <3>2, <3>3
      <4>2. CASE j = (i - 1) + 1
        <5>1. j = i  BY <4>2, <2>1
        <5> QED  BY <4>2, <5>1, <3>2, <3>3
      <4> QED  BY <3>4, <4>1, <4>2
    <3>8. a = b  BY <3>5, <3>6, <3>7, Zenon
    <3> QED  BY <3>8 DEF a, b
  <2>6. f[i] = At(left[i], ValuesOf(items, i)) /\ f[i - 1] = At(left[i - 1], out)  BY <2>1 DEF out
  <2> HIDE DEF f
  <2> QED  BY <2>4, <2>5, <2>6, <1>2
<1>5. Read(layout, Write(items)) = f[k]
  <2>1. Reads(f, layout, Write(items))
    <3> HIDE DEF f
    <3> QED  BY <1>2, <1>3, <1>4 DEF Reads
  <2> HIDE DEF f
  <2>2. k \in Nat /\ k = Len(layout)  BY <1>1, <1>2
  <2> DEFINE p == Write(items)
  <2> HIDE DEF p
  <2>3. Reads(f, layout, p)  BY <2>1 DEF p
  <2>4. Read(layout, p) = f[k]  BY <2>2, <2>3, ReadIs
  <2> QED  BY <2>4 DEF p
<1> QED  BY <1>1, <1>5

\* The whole dataset is read.
LEMMA ReadsAllBack ==
  ASSUME NEW items, NEW n, Items(items, n), NEW layout, layout = TypesOf(items, n)
  PROVE  Read(layout, Write(items)) = At(<<>>, ValuesOf(items, n))
<1>1. PICK left : Leaves(items, n, left)  BY LeavesExist
<1>2. n \in 0..n  BY DEF Items
<1>3. Read(layout, Write(items)) = At(left[n], ValuesOf(items, n))  BY <1>1, <1>2, ReadsBack
<1> QED  BY <1>1, <1>3 DEF Leaves

-----------------------------------------------------------------------------
(* What is read from any fields.                                           *)

\* A reader that is sound has fields before it.
Ready(r) == r.ok => r.in \in Seq(Fields) /\ \E V : r.out \in Seq(V)

\* If g is sound, so was r, and g has read a value of X more.
Gets(r, g, X) == g.ok => /\ r.ok /\ g.in \in Seq(Fields)
                         /\ \E V : r.out \in Seq(V)
                         /\ \E x \in X : g.out = Append(r.out, x)

\* The numbers in fields of the widths ws.
Rows(ws) == {x \in Seq(Nat) : Len(x) = Len(ws) /\ \A i \in 1..Len(ws) : x[i] < Modulus(ws[i])}

\* A field that is one of its width.
LEMMA FieldsAre ==
  ASSUME NEW f \in Fields PROVE f[1] \in Widths /\ f[2] \in Nat /\ f[2] < Modulus(f[1])
BY DEF Fields, FieldSet

\* The next fields are of the widths ws.
Before(r, ws) == \A i \in 1..Len(ws) : r.in[i][1] = ws[i]

\* When fields were read, they were there.
LEMMA GetFieldsSound ==
  ASSUME NEW r, NEW ws, GetFields(r, ws).ok
  PROVE  /\ r.ok /\ Len(ws) <= Len(r.in) /\ Before(r, ws)
         /\ GetFields(r, ws) = At(SubSeq(r.in, Len(ws) + 1, Len(r.in)),
                                  Append(r.out, [i \in 1..Len(ws) |-> r.in[i][2]]))
<1> DEFINE n == Len(ws)
           c == r.ok /\ n <= Len(r.in) /\ \A i \in 1..n : r.in[i][1] = ws[i]
           a == [in |-> SubSeq(r.in, n + 1, Len(r.in)), out |-> Append(r.out, [i \in 1..n |-> r.in[i][2]]), ok |-> TRUE]
           b == [in |-> r.in, out |-> Append(r.out, [i \in 1..n |-> Garbage]), ok |-> FALSE]
           g == GetFields(r, ws)
<1>1. g = IF c THEN a ELSE b  BY Zenon DEF GetFields
<1>2. b.ok = FALSE  OBVIOUS
<1>3. g.ok  OBVIOUS
<1>4. a = At(SubSeq(r.in, n + 1, Len(r.in)), Append(r.out, [i \in 1..n |-> r.in[i][2]]))  BY Zenon DEF At
<1> HIDE DEF a, b, g
<1>5. c
  <2> HIDE DEF c
  <2> QED  BY <1>1, <1>2, <1>3
<1>6. g = a
  <2> HIDE DEF c
  <2> QED  BY <1>1, <1>5
<1>7. r.ok /\ n <= Len(r.in) /\ Before(r, ws)  BY <1>5 DEF Before
<1> QED  BY <1>4, <1>6, <1>7 DEF g

\* The fields that are read fit.
LEMMA FieldsGot ==
  ASSUME NEW r, Ready(r), NEW ws \in Seq(Widths)
  PROVE  Gets(r, GetFields(r, ws), Rows(ws))
<1> DEFINE g == GetFields(r, ws)
           n == Len(ws)
           x == [i \in 1..n |-> r.in[i][2]]
<1> SUFFICES ASSUME g.ok
             PROVE  /\ r.ok /\ g.in \in Seq(Fields) /\ \E V : r.out \in Seq(V)
                    /\ \E y \in Rows(ws) : g.out = Append(r.out, y)
  BY Zenon DEF Gets
<1>11. r.ok  BY GetFieldsSound, Zenon
<1>12. n <= Len(r.in)  BY GetFieldsSound, Zenon
<1>13. \A i \in 1..n : r.in[i][1] = ws[i]
  <2>1. Before(r, ws)  BY GetFieldsSound, Zenon
  <2> QED  BY <2>1 DEF Before
<1>1. r.ok /\ n <= Len(r.in) /\ \A i \in 1..n : r.in[i][1] = ws[i]  BY <1>11, <1>12, <1>13, Zenon
<1>2. g = At(SubSeq(r.in, n + 1, Len(r.in)), Append(r.out, x))  BY GetFieldsSound, Zenon
<1>3. r.in \in Seq(Fields) /\ \E V : r.out \in Seq(V)  BY <1>1 DEF Ready
<1>4. PICK m \in Nat : m = Len(r.in) /\ \A i \in 1..m : r.in[i] \in Fields  BY <1>3, LenProperties
<1>5. PICK k \in Nat : k = n /\ k <= m
  <2>1. n \in Nat  BY LenProperties
  <2> QED  BY <2>1, <1>1, <1>4
<1>6. \A i \in 1..k : r.in[i] \in Fields  BY <1>4, <1>5
<1>7. \A i \in 1..k : r.in[i][2] \in Nat /\ r.in[i][2] < Modulus(ws[i])  BY <1>1, <1>5, <1>6, FieldsAre
<1>8. SubSeq(r.in, n + 1, Len(r.in)) \in Seq(Fields)
  <2>1. \A i \in (k + 1)..m : r.in[i] \in Fields  BY <1>4
  <2>2. SubSeq(r.in, k + 1, m) \in Seq(Fields)  BY <2>1, SubSeqProperties
  <2> QED  BY <2>2, <1>4, <1>5
<1>9. x \in Rows(ws)
  <2>1. x = [i \in 1..k |-> r.in[i][2]]  BY <1>5
  <2>2. x \in [1..k -> Nat]  BY <2>1, <1>7
  <2>3. x \in Seq(Nat)  BY <2>2, SeqDef
  <2>4. \A i \in 1..k : x[i] = r.in[i][2]  BY <2>1
  <2> HIDE DEF x
  <2>5. Len(x) = k  BY <2>2, <2>3, LenProperties
  <2>6. \A i \in 1..k : x[i] < Modulus(ws[i])  BY <2>4, <1>7
  <2> QED  BY <2>3, <2>5, <2>6, <1>5 DEF Rows
<1> DEFINE y == Append(r.out, x)
           z == SubSeq(r.in, n + 1, Len(r.in))
<1>10. g.in = z /\ g.out = y
  <2>1. g = At(z, y)  BY <1>2
  <2> HIDE DEF g, z, y
  <2> QED  BY <2>1, AtIs
<1> HIDE DEF g, x
<1> QED  BY <1>1, <1>3, <1>8, <1>9, <1>10

\* The units of a text as they are read, and as they may be in it.
Unit == {u \in Nat : u < Modulus(2)}
Chars == {u \in Nat : u # 0 /\ u < Modulus(2)}

\* The C string of any units is a text of characters of two bytes.
LEMMA CStringTyped ==
  ASSUME NEW units \in Seq(Unit)
  PROVE  \E cs \in Seq(Chars) : CString(units) = Text(cs)
<1> DEFINE EndsAt(n) == (\A i \in 1..n : units[i] # 0) /\ (n = Len(units) \/ units[n + 1] = 0)
           end == CHOOSE n \in 0..Len(units) : EndsAt(n)
<1>1. PICK m \in Nat : m = Len(units) /\ \A i \in 1..m : units[i] \in Unit  BY LenProperties
<1>2. \E n \in 0..Len(units) : EndsAt(n)
  <2> DEFINE T == {n \in Nat : n <= m /\ (n = m \/ units[n + 1] = 0)}
  <2>1. m \in T  OBVIOUS
  <2>2. PICK n \in T : \A k \in T : n <= k
    <3>1. T \in SUBSET Nat /\ T # {}  BY <2>1
    <3> HIDE DEF T
    <3> QED  BY <3>1, Least
  <2>3. ASSUME NEW i \in 1..n, units[i] = 0 PROVE FALSE
    <3>1. i - 1 \in Nat /\ i - 1 <= m /\ (i - 1) + 1 = i /\ ~(n <= i - 1)  OBVIOUS
    <3>2. i - 1 \in T  BY <3>1, <2>3
    <3> HIDE DEF T
    <3> QED  BY <3>1, <3>2, <2>2
  <2>4. n \in 0..Len(units) /\ EndsAt(n)  BY <2>2, <2>3, <1>1
  <2> QED  BY <2>4, Zenon
<1>3. end \in 0..Len(units) /\ EndsAt(end)  BY <1>2, Zenon
<1>4. CString(units) = Text(SubSeq(units, 1, end))  BY DEF CString
<1> HIDE DEF end
<1>5. PICK n \in Nat : n = end /\ n <= m /\ \A i \in 1..n : units[i] # 0  BY <1>1, <1>3
<1>6. \A i \in 1..n : units[i] \in Chars  BY <1>1, <1>5 DEF Unit, Chars
<1>7. SubSeq(units, 1, n) \in Seq(Chars)  BY <1>6, SubSeqProperties
<1> QED  BY <1>4, <1>5, <1>7

\* What a value of a type can be, as it is read.
Got(t) == IF t = STR THEN {Text(cs) : cs \in Seq(Chars)} ELSE Numbers(t)

\* A number that is read is one of its type.
LEMMA NumberGot ==
  ASSUME NEW r, Ready(r), NEW t \in {UINT16, UINT32} PROVE Gets(r, GetNumber(r, t), Numbers(t))
<1>1. PICK w \in Widths : Parts[t] = <<w>>  BY PartsAre DEF Widths
<1> DEFINE ws == Parts[t]
           f == GetFields(r, ws)
           g == GetNumber(r, t)
<1>2. ws \in Seq(Widths) /\ Len(ws) = 1 /\ ws[1] = w  BY <1>1
<1>3. Gets(r, f, Rows(ws))  BY <1>2, FieldsGot
<1>4. g = Having(f, Append(Front(f.out), NumberOf(Last(f.out))))  BY Zenon DEF GetNumber, AsNumber
<1> HIDE DEF f, g, ws
<1>5. g.in = f.in /\ g.out = Append(Front(f.out), NumberOf(Last(f.out))) /\ g.ok = f.ok  BY <1>4, Zenon DEF Having
<1> SUFFICES ASSUME g.ok
             PROVE  /\ r.ok /\ g.in \in Seq(Fields) /\ \E V : r.out \in Seq(V)
                    /\ \E y \in Numbers(t) : g.out = Append(r.out, y)
  BY Zenon DEF Gets, g
<1>6. f.ok  BY <1>5, Zenon
<1>7. /\ r.ok /\ f.in \in Seq(Fields) /\ \E V : r.out \in Seq(V)
      /\ \E x \in Rows(ws) : f.out = Append(r.out, x)
  BY <1>3, <1>6, Zenon DEF Gets
<1>8. PICK x \in Rows(ws) : f.out = Append(r.out, x)  BY <1>7
<1>9. Front(f.out) = r.out /\ Last(f.out) = x  BY <1>7, <1>8, FrontLast
<1>12. x \in Seq(Nat) /\ Len(x) = 1 /\ \A i \in 1..1 : x[i] < Modulus(ws[i])  BY <1>2, <1>8 DEF Rows
<1>10. NumberOf(x) = x[1] /\ x[1] \in Nat /\ x[1] < Modulus(w)
  <2>1. 1 \in 1..1  OBVIOUS
  <2>2. NumberOf(x) = x[1]  BY <1>12 DEF NumberOf
  <2>3. x[1] \in Nat  BY <1>12, <2>1, LenProperties
  <2>4. x[1] < Modulus(ws[1])  BY <1>12, <2>1
  <2> QED  BY <2>2, <2>3, <2>4, <1>2
<1>11. x[1] \in Numbers(t)
  <2>1. Numbers(t) = 0..(Modulus(w) - 1)  BY <1>1 DEF Numbers
  <2>2. Modulus(w) \in Nat  BY ModulusIs DEF Widths
  <2> QED  BY <2>1, <2>2, <1>10
<1> QED  BY <1>5, <1>7, <1>9, <1>10, <1>11

\* A text that is read is one of characters of at most three bytes.
LEMMA TextGot ==
  ASSUME NEW r, Ready(r) PROVE Gets(r, AsText(GetCounted(r, 1, 2)), Got(STR))
<1> DEFINE f == GetFields(r, <<1>>)
           count == IF f.ok THEN Last(f.out)[1] ELSE 0
           h == Having(f, r.out)
           ws == [i \in 1..count |-> 2]
           k == GetFields(h, ws)
           g == AsText(GetCounted(r, 1, 2))
<1>1. GetCounted(r, 1, 2) = k  BY Zenon DEF GetCounted
<1>2. g = Having(k, Append(Front(k.out), CString(Last(k.out))))  BY <1>1, Zenon DEF AsText
<1>3. <<1>> \in Seq(Widths) /\ 2 \in Widths /\ Len(<<1>>) = 1  BY DEF Widths
<1>4. Gets(r, f, Rows(<<1>>))  BY <1>3, FieldsGot
<1>5. count \in Nat
  <2>1. CASE ~f.ok  BY <2>1
  <2>2. CASE f.ok
    <3>1. (\E V : r.out \in Seq(V)) /\ \E x \in Rows(<<1>>) : f.out = Append(r.out, x)
      <4> HIDE DEF f
      <4> QED  BY <1>4, <2>2, Zenon DEF Gets
    <3>2. PICK x \in Rows(<<1>>) : f.out = Append(r.out, x)  BY <3>1
    <3>3. Last(f.out) = x  BY <3>1, <3>2, FrontLast
    <3>4. x[1] \in Nat  BY <3>2, <1>3 DEF Rows
    <3> QED  BY <2>2, <3>3, <3>4
  <2> QED  BY <2>1, <2>2
<1>6. h.in = f.in /\ h.out = r.out /\ h.ok = f.ok  BY Zenon DEF Having
<1>7. ws \in Seq(Widths) /\ Len(ws) = count /\ \A i \in 1..count : ws[i] = 2
  <2> HIDE DEF count
  <2>1. ws \in [1..count -> Widths]  BY <1>3
  <2>2. ws \in Seq(Widths)  BY <1>5, <2>1, SeqDef
  <2>3. \A i \in 1..count : ws[i] = 2  OBVIOUS
  <2> HIDE DEF ws
  <2> QED  BY <1>5, <2>1, <2>2, <2>3, LenProperties
<1> HIDE DEF f, count, h
<1>8. Ready(h)
  <2> SUFFICES ASSUME h.ok PROVE h.in \in Seq(Fields) /\ \E V : h.out \in Seq(V)  BY Zenon DEF Ready
  <2>1. f.ok  BY <1>6, Zenon
  <2>2. f.in \in Seq(Fields) /\ \E V : r.out \in Seq(V)  BY <2>1, <1>4, Zenon DEF Gets
  <2> QED  BY <2>2, <1>6
<1> HIDE DEF ws
<1>9. Gets(h, k, Rows(ws))  BY <1>7, <1>8, FieldsGot
<1> HIDE DEF k, g
<1>10. g.in = k.in /\ g.out = Append(Front(k.out), CString(Last(k.out))) /\ g.ok = k.ok  BY <1>2, Zenon DEF Having
<1> SUFFICES ASSUME g.ok
             PROVE  /\ r.ok /\ g.in \in Seq(Fields) /\ \E V : r.out \in Seq(V)
                    /\ \E y \in Got(STR) : g.out = Append(r.out, y)
  BY Zenon DEF Gets, g
<1>11. k.ok  BY <1>10, Zenon
<1>12. /\ h.ok /\ k.in \in Seq(Fields) /\ \E V : h.out \in Seq(V)
       /\ \E x \in Rows(ws) : k.out = Append(h.out, x)
  BY <1>9, <1>11, Zenon DEF Gets
<1>13. PICK x \in Rows(ws) : k.out = Append(h.out, x)  BY <1>12
<1>14. Front(k.out) = h.out /\ Last(k.out) = x  BY <1>12, <1>13, FrontLast
<1>15. x \in Seq(Unit)
  <2>1. x \in Seq(Nat) /\ Len(x) = count /\ \A i \in 1..count : x[i] < Modulus(2)  BY <1>7, <1>13 DEF Rows
  <2>2. \A i \in 1..count : x[i] \in Nat  BY <2>1, LenProperties
  <2>3. \A i \in 1..count : x[i] \in Unit  BY <2>1, <2>2 DEF Unit
  <2>4. DOMAIN x = 1..count /\ x = [i \in 1..count |-> x[i]]  BY <2>1, LenProperties
  <2>5. x \in [1..count -> Unit]  BY <2>3, <2>4
  <2> QED  BY <1>5, <2>5, SeqDef
<1>16. PICK cs \in Seq(Chars) : CString(x) = Text(cs)  BY <1>15, CStringTyped
<1>17. CString(x) \in Got(STR)  BY <1>16 DEF Got
<1>18. r.ok
  <2>1. f.ok  BY <1>6, <1>12, Zenon
  <2> QED  BY <2>1, <1>4, Zenon DEF Gets
<1> QED  BY <1>6, <1>10, <1>12, <1>14, <1>17, <1>18

\* What is read is a value of its type.
LEMMA AnyGot ==
  ASSUME NEW r, Ready(r), NEW t \in {UINT16, UINT32, STR} PROVE Gets(r, Get(r, t), Got(t))
<1>1. CASE t = STR
  <2>1. Get(r, t) = AsText(GetCounted(r, 1, 2))  BY <1>1, GetIs
  <2> QED  BY <1>1, <2>1, TextGot
<1>2. CASE t \in {UINT16, UINT32}
  <2>1. t \in DOMAIN Parts  BY <1>2, PartsAre
  <2>2. Get(r, t) = GetNumber(r, t)  BY <2>1, GetIs
  <2>3. Got(t) = Numbers(t)  BY <2>1, TypesDiffer DEF Got
  <2> QED  BY <1>2, <2>2, <2>3, NumberGot
<1> QED  BY <1>1, <1>2

\* The reader goes through something, whatever the payload is.
LEMMA ReadsExist ==
  ASSUME NEW layout, NEW n \in Nat, n = Len(layout), NEW payload
  PROVE  \E f : Reads(f, layout, payload)
<1> DEFINE Is(f, k) == f[0] = Reader(payload) /\ \A i \in 1..k : f[i] = Get(f[i - 1], layout[i])
           T == {k \in Nat : \E f : Is(f, k)}
<1>1. 0 \in T
  <2>1. Is([i \in 0..0 |-> Reader(payload)], 0)  OBVIOUS
  <2>2. \E f : Is(f, 0)  BY <2>1
  <2> QED  BY <2>2
<1>2. ASSUME NEW k \in Nat, k \in T PROVE k + 1 \in T
  <2>1. PICK f : Is(f, k)  BY <1>2
  <2> DEFINE v == Get(f[k], layout[k + 1])
             g == [i \in 0..(k + 1) |-> IF i = k + 1 THEN v ELSE f[i]]
  <2>2. g[0] = f[0] /\ g[k + 1] = v /\ \A i \in 0..k : g[i] = f[i]
    <3> HIDE DEF v
    <3> QED  OBVIOUS
  <2>3. \A i \in 1..k : i - 1 \in 0..k /\ i \in 0..k  OBVIOUS
  <2> HIDE DEF g
  <2>4. \A i \in 1..k : g[i] = Get(g[i - 1], layout[i])  BY <2>1, <2>2, <2>3
  <2>5. g[k + 1] = Get(g[(k + 1) - 1], layout[k + 1])
    <3>1. (k + 1) - 1 = k /\ k \in 0..k  OBVIOUS
    <3> QED  BY <3>1, <2>2
  <2>6. \A i \in 1..(k + 1) : i \in 1..k \/ i = k + 1  OBVIOUS
  <2>7. Is(g, k + 1)  BY <2>1, <2>2, <2>4, <2>5, <2>6
  <2>8. \E f1 : Is(f1, k + 1)  BY <2>7
  <2> QED  BY <2>8
<1>3. n \in T
  <2> HIDE DEF T
  <2> QED  BY <1>1, <1>2, Induct
<1> QED  BY <1>3 DEF Reads

\* If a payload can be read as a layout of texts and small numbers, it gives texts and small numbers.
LEMMA ReadGot ==
  ASSUME NEW layout, NEW n \in Nat, n = Len(layout), NEW payload \in Seq(Fields),
         \A i \in 1..n : layout[i] \in {UINT16, UINT32, STR}, Read(layout, payload).ok
  PROVE  \A i \in 1..n : Read(layout, payload).out[i] \in Got(layout[i])
<1>1. PICK f : Reads(f, layout, payload)  BY ReadsExist
<1>2. Read(layout, payload) = f[n]
  <2>1. n \in Nat /\ n = Len(layout)  OBVIOUS
  <2> QED  BY ONLY <1>1, <2>1, ReadIs
<1> DEFINE Have(k) == /\ f[k].in \in Seq(Fields)
                      /\ \E V : f[k].out \in Seq(V)
                      /\ Len(f[k].out) = k /\ \A i \in 1..k : f[k].out[i] \in Got(layout[i])
           T == {k \in Nat : k <= n /\ f[k].ok => Have(k)}
<1>3. 0 \in T
  <2>1. f[0].in = payload /\ f[0].out = <<>>
    <3>1. f[0] = Reader(payload)  BY <1>1 DEF Reads
    <3> QED  BY <3>1 DEF Reader
  <2>2. <<>> \in Seq(Nat) /\ Len(<<>>) = 0  OBVIOUS
  <2>3. Have(0)  BY <2>1, <2>2
  <2> QED  BY <2>3
<1>4. ASSUME NEW k \in Nat, k \in T PROVE k + 1 \in T
  <2> SUFFICES ASSUME k + 1 <= n, f[k + 1].ok PROVE Have(k + 1)  OBVIOUS
  <2>1. k + 1 \in 1..n /\ (k + 1) - 1 = k /\ k <= n  OBVIOUS
  <2>2. f[k + 1] = Get(f[k], layout[k + 1])  BY <1>1, <2>1 DEF Reads
  <2> DEFINE r == f[k]
             g == f[k + 1]
             t == layout[k + 1]
  <2>3. Ready(r)
    <3> SUFFICES ASSUME r.ok PROVE r.in \in Seq(Fields) /\ \E V : r.out \in Seq(V)  BY Zenon DEF Ready
    <3>1. Have(k)  BY <1>4, <2>1
    <3> QED  BY <3>1
  <2>4. Gets(r, g, Got(t))
    <3>1. t \in {UINT16, UINT32, STR}  BY <2>1
    <3> HIDE DEF r, t
    <3> QED  BY <2>2, <2>3, <3>1, AnyGot DEF r, t
  <2>5. r.ok /\ g.in \in Seq(Fields) /\ (\E V : r.out \in Seq(V)) /\ \E x \in Got(t) : g.out = Append(r.out, x)
    <3> HIDE DEF r, t, g
    <3>1. g.ok  BY DEF g
    <3> QED  BY <2>4, <3>1, Zenon DEF Gets
  <2>6. Have(k)  BY <1>4, <2>1, <2>5
  <2>7. PICK x \in Got(t) : g.out = Append(r.out, x)  BY <2>5
  <2>8. PICK V : r.out \in Seq(V)  BY <2>5
  <2> DEFINE W == V \cup {x}
             p == r.out
             q == g.out
  <2>9. p \in Seq(W) /\ x \in W  BY <2>8, SeqMonotonic
  <2>10. q = Append(p, x) /\ Len(p) = k /\ \A i \in 1..k : p[i] \in Got(layout[i])  BY <2>6, <2>7
  <2> HIDE DEF p, q, W, r, g
  <2>11. q \in Seq(W) /\ Len(q) = k + 1 /\ (\A i \in 1..k : q[i] = p[i]) /\ q[k + 1] = x
    BY <2>9, <2>10, AppendProperties
  <2>12. \A i \in 1..(k + 1) : q[i] \in Got(layout[i])
    <3> TAKE i \in 1..(k + 1)
    <3>1. CASE i = k + 1  BY <3>1, <2>7, <2>11
    <3>2. CASE i # k + 1
      <4>1. i \in 1..k  BY <3>2
      <4> QED  BY <4>1, <2>10, <2>11
    <3> QED  BY <3>1, <3>2
  <2>13. (\E V1 : q \in Seq(V1)) /\ Len(q) = k + 1  BY <2>11
  <2> QED  BY <2>5, <2>12, <2>13 DEF q, g
<1>5. n \in T
  <2> HIDE DEF T
  <2> QED  BY <1>3, <1>4, Induct
<1>6. f[n].ok  BY <1>2, Zenon
<1>7. Have(n)  BY <1>5, <1>6
<1> QED  BY <1>2, <1>7

-----------------------------------------------------------------------------
(* Items.                                                                  *)

\* Items that can be put, and items that come back.
LooseItems == UNION {{t} \X Loose(t) : t \in Types}
SoundItems == UNION {{t} \X Values(t) : t \in Types}

\* A value of a type is an item of a dataset.
LEMMA LooseItemIs ==
  ASSUME NEW t \in Types, NEW v \in Loose(t) PROVE <<t, v>> \in LooseItems
<1>1. <<t, v>> \in {t} \X Loose(t)  OBVIOUS
<1> QED  BY <1>1, Zenon DEF LooseItems

\* A value that comes back is an item that does.
LEMMA SoundItemIs ==
  ASSUME NEW t \in Types, NEW v \in Values(t) PROVE <<t, v>> \in SoundItems
<1>1. <<t, v>> \in {t} \X Values(t)  OBVIOUS
<1> QED  BY <1>1, Zenon DEF SoundItems

\* What an item is.
LEMMA LooseItemHas ==
  ASSUME NEW x \in LooseItems PROVE x[1] \in Types /\ x[2] \in Loose(x[1])
<1>1. PICK t \in Types : x \in {t} \X Loose(t)  BY Zenon DEF LooseItems
<1>2. x[1] = t /\ x[2] \in Loose(t)  BY <1>1
<1> QED  BY <1>2

\* What an item that comes back is.
LEMMA SoundItemHas ==
  ASSUME NEW x \in SoundItems PROVE x[1] \in Types /\ x[2] \in Values(x[1])
<1>1. PICK t \in Types : x \in {t} \X Values(t)  BY Zenon DEF SoundItems
<1>2. x[1] = t /\ x[2] \in Values(t)  BY <1>1
<1> QED  BY <1>2

\* A dataset of items that come back comes back.
LEMMA ItemsSound ==
  ASSUME NEW items \in Seq(SoundItems), NEW n, n = Len(items) PROVE Items(items, n)
<1>1. n \in Nat /\ DOMAIN items = 1..n /\ \A i \in 1..n : items[i] \in SoundItems  BY LenProperties
<1> QED  BY <1>1, SoundItemHas DEF Items

\* Items that come back are items that can be put.
LEMMA SoundLoose == Seq(SoundItems) \in SUBSET Seq(LooseItems)
<1>1. ASSUME NEW x \in SoundItems PROVE x \in LooseItems
  <2>1. PICK t \in Types : x \in {t} \X Values(t)  BY Zenon DEF SoundItems
  <2>2. x = <<t, x[2]>> /\ x[2] \in Values(t)  BY <2>1
  <2>3. x[2] \in Loose(t)  BY <2>2, ValuesLoose
  <2>4. <<t, x[2]>> \in LooseItems  BY <2>3, LooseItemIs
  <2> QED  BY <2>2, <2>4
<1> QED  BY <1>1, SeqMonotonic

\* A payload is fields.
LEMMA WriteTyped ==
  ASSUME NEW items \in Seq(LooseItems) PROVE Write(items) \in Seq(Fields)
<1>1. PICK n \in Nat : n = Len(items) /\ DOMAIN items = 1..n /\ \A i \in 1..n : items[i] \in LooseItems  BY LenProperties
<1> DEFINE ss == [i \in 1..n |-> Put(items[i][1], items[i][2])]
<1>2. Write(items) = FlattenSeq(ss)  BY <1>1 DEF Write
<1>3. \A i \in 1..n : items[i][1] \in Types /\ items[i][2] \in Loose(items[i][1])  BY <1>1, LooseItemHas
<1>4. \A i \in 1..n : Put(items[i][1], items[i][2]) \in Seq(Fields)  BY <1>3, PutTyped
<1>5. ss \in [1..n -> Seq(Fields)]  BY <1>4
<1>6. ss \in Seq(Seq(Fields))  BY <1>5, SeqDef
<1> HIDE DEF ss
<1>7. PICK e : Ends(ss, e)  BY <1>6, EndsExist
<1> QED  BY <1>2, <1>6, <1>7, FlattenLies

\* Sequences that are joined.
LEMMA FlattenTyped ==
  ASSUME NEW S, NEW ss \in Seq(Seq(S)) PROVE FlattenSeq(ss) \in Seq(S)
<1>1. PICK e : Ends(ss, e)  BY EndsExist
<1> QED  BY <1>1, FlattenLies

-----------------------------------------------------------------------------
(* Handles in order.                                                       *)

Rises(s, n) == \A i, j \in 1..n : i < j => s[i] < s[j]

\* Handles can be put in order.
LEMMA OrderExists ==
  ASSUME NEW k \in Nat, NEW S \in SUBSET (1..k)
  PROVE  IsFiniteSet(S) /\ Cardinality(S) \in Nat /\ \E s \in [1..Cardinality(S) -> S] : Rises(s, Cardinality(S))
<1> DEFINE Good(U) == /\ IsFiniteSet(U) /\ Cardinality(U) \in Nat
                      /\ \E s \in [1..Cardinality(U) -> U] : Rises(s, Cardinality(U))
           T == {m \in Nat : \A U \in SUBSET (1..m) : Good(U)}
<1>1. 0 \in T
  <2>1. \A U \in SUBSET (1..0) : U = {}  OBVIOUS
  <2>2. Good({})
    <3>1. IsFiniteSet({}) /\ Cardinality({}) = 0  BY FS_EmptySet
    <3>2. \E s \in [1..0 -> {}] : Rises(s, 0)
      <4>1. [i \in 1..0 |-> i] \in [1..0 -> {}] /\ Rises([i \in 1..0 |-> i], 0)  BY DEF Rises
      <4> QED  BY <4>1, Zenon
    <3>3. Cardinality({}) \in Nat  BY <3>1
    <3> QED  BY <3>1, <3>2, <3>3, Zenon
  <2> QED  BY <2>1, <2>2
<1>2. ASSUME NEW m \in Nat, m \in T PROVE m + 1 \in T
  <2> SUFFICES ASSUME NEW U \in SUBSET (1..(m + 1)) PROVE Good(U)  OBVIOUS
  <2>1. CASE m + 1 \notin U
    <3>1. U \in SUBSET (1..m)  BY <2>1
    <3> QED  BY <3>1, <1>2
  <2>2. CASE m + 1 \in U
    <3> DEFINE U0 == U \ {m + 1}
    <3>1. U0 \in SUBSET (1..m) /\ m + 1 \notin U0 /\ U = U0 \cup {m + 1}  BY <2>2
    <3> HIDE DEF U0
    <3>2. Good(U0)  BY <3>1, <1>2
    <3>3. PICK n \in Nat : n = Cardinality(U0)  BY <3>2
    <3>4. PICK s0 \in [1..n -> U0] : Rises(s0, n)  BY <3>2, <3>3
    <3>5. IsFiniteSet(U) /\ Cardinality(U) = n + 1  BY <3>1, <3>2, <3>3, FS_AddElement
    <3> DEFINE s == [i \in 1..(n + 1) |-> IF i = n + 1 THEN m + 1 ELSE s0[i]]
    <3>6. s \in [1..(n + 1) -> U]
      <4>1. ASSUME NEW i \in 1..(n + 1) PROVE (IF i = n + 1 THEN m + 1 ELSE s0[i]) \in U
        <5>1. i # n + 1 => i \in 1..n  OBVIOUS
        <5> QED  BY <5>1, <3>1, <3>4
      <4> QED  BY <4>1
    <3>7. Rises(s, n + 1)
      <4> SUFFICES ASSUME NEW i \in 1..(n + 1), NEW j \in 1..(n + 1), i < j PROVE s[i] < s[j]  BY DEF Rises
      <4>1. i \in 1..n /\ s[i] = s0[i] /\ s0[i] \in U0  BY <3>4
      <4>2. CASE j = n + 1
        <5>1. s[j] = m + 1 /\ s0[i] \in 1..m  BY <4>1, <4>2, <3>1
        <5> HIDE DEF s
        <5> QED  BY <4>1, <5>1
      <4>3. CASE j # n + 1
        <5>1. j \in 1..n /\ s[j] = s0[j]  BY <4>3
        <5> HIDE DEF s
        <5> QED  BY <4>1, <5>1, <3>4 DEF Rises
      <4> QED  BY <4>2, <4>3
    <3> HIDE DEF s
    <3> QED  BY <3>5, <3>6, <3>7
  <2> QED  BY <2>1, <2>2
<1>3. k \in T
  <2> HIDE DEF T
  <2> QED  BY <1>1, <1>2, Induct
<1> QED  BY <1>3

\* InOrder has each member of a set, once.
LEMMA InOrderIs ==
  ASSUME NEW k \in Nat, NEW S \in SUBSET (1..k)
  PROVE  /\ Cardinality(S) \in Nat /\ Cardinality(S) <= k
         /\ InOrder(S) \in Seq(S) /\ Len(InOrder(S)) = Cardinality(S)
         /\ \A x \in S : \E i \in 1..Cardinality(S) : InOrder(S)[i] = x
         /\ \A i \in 1..Cardinality(S) : InOrder(S)[i] \in S
<1>1. IsFiniteSet(S) /\ Cardinality(S) \in Nat /\ \E s \in [1..Cardinality(S) -> S] : Rises(s, Cardinality(S))
  BY OrderExists
<1>2. PICK n \in Nat : n = Cardinality(S)  BY <1>1
<1> DEFINE s == InOrder(S)
<1>3. s \in [1..n -> S] /\ Rises(s, n)
  <2> DEFINE P(f) == \A i, j \in 1..Cardinality(S) : i < j => f[i] < f[j]
  <2>1. \E f \in [1..Cardinality(S) -> S] : P(f)  BY <1>1 DEF Rises
  <2>2. InOrder(S) = CHOOSE f \in [1..Cardinality(S) -> S] : P(f)  BY Zenon DEF InOrder
  <2> HIDE DEF P
  <2>3. InOrder(S) \in [1..Cardinality(S) -> S] /\ P(InOrder(S))  BY <2>1, <2>2, Zenon
  <2> QED  BY <2>3, <1>2 DEF P, Rises
<1> HIDE DEF s
<1>4. s \in Injection(1..n, S)
  <2>0. S \in SUBSET Nat  OBVIOUS
  <2>1. \A i \in 1..n : s[i] \in Nat  BY <1>3, <2>0
  <2>2. \A i, j \in 1..n : s[i] = s[j] => i = j  BY <1>3, <2>1 DEF Rises
  <2> QED  BY <1>3, <2>2 DEF Injection, IsInjective
<1>5. IsFiniteSet(1..n) /\ Cardinality(1..n) = n
  <2>1. 1 \in Int /\ n \in Int  OBVIOUS
  <2>2. IsFiniteSet(1..n) /\ Cardinality(1..n) = IF 1 > n THEN 0 ELSE n - 1 + 1  BY <2>1, FS_Interval
  <2> QED  BY <2>2
<1>6. s \in Surjection(1..n, S)  BY <1>1, <1>2, <1>4, <1>5, FS_Injection
<1>7. \A x \in S : \E i \in 1..n : s[i] = x  BY <1>6 DEF Surjection
<1>8. s \in Seq(S) /\ Len(s) = n
  <2>1. s \in Seq(S)  BY <1>3, SeqDef
  <2> QED  BY <1>3, <2>1, LenProperties
<1>9. n <= k
  <2>1. IsFiniteSet(1..k) /\ Cardinality(1..k) = k
    <3>1. 1 \in Int /\ k \in Int  OBVIOUS
    <3>2. IsFiniteSet(1..k) /\ Cardinality(1..k) = IF 1 > k THEN 0 ELSE k - 1 + 1  BY <3>1, FS_Interval
    <3> QED  BY <3>2
  <2> QED  BY <2>1, <1>2, FS_Subset, ZenonT(60)
<1> QED  BY <1>2, <1>3, <1>7, <1>8, <1>9 DEF s

-----------------------------------------------------------------------------
(* Names.                                                                  *)

\* The names an object may have: any text of characters, and no NUL in it.
Names == {Text(cs) : cs \in {x \in Seq(Nat) : \A i \in 1..Len(x) : x[i] # 0}}

\* A text of one character is its bytes.
LEMMA TextOne == ASSUME NEW c \in Nat PROVE Text(<<c>>) = Char(c)
<1> DEFINE cs == <<c>>
<1>1. cs \in Seq(Nat) /\ Len(cs) = 1 /\ cs[1] = c  OBVIOUS
<1> HIDE DEF cs
<1>2. Text(cs) \in Seq(ByteSet)  BY <1>1, SpeltExists
<1>3. PICK e : Spelt(cs, e)  BY <1>1, SpeltExists
<1>4. 1 \in 1..Len(cs)  BY <1>1
<1>5. /\ e[1] = e[1 - 1] + Utf8Len(c) /\ Len(Text(cs)) = e[1] /\ Utf8Len(c) \in 1..4
      /\ \A k \in 1..Utf8Len(c) : Text(cs)[e[1 - 1] + k] = <<c, k>>
  BY <1>1, <1>3, <1>4, SpeltAt
<1>6. e[0] = 0  BY <1>3 DEF Spelt, Spells
<1>7. PICK n \in Nat : n = Utf8Len(c)  BY <1>5
<1>8. Len(Text(cs)) = n /\ \A k \in 1..n : Text(cs)[k] = <<c, k>>
  <2>1. 1 - 1 = 0 /\ \A k \in 1..n : 0 + k = k  OBVIOUS
  <2>2. Len(Text(cs)) = n  BY <1>5, <1>6, <1>7, <2>1
  <2>3. \A k \in 1..n : Text(cs)[0 + k] = <<c, k>>  BY <1>5, <1>6, <1>7, <2>1
  <2> QED  BY <2>1, <2>2, <2>3
<1>9. Char(c) \in Seq(ByteSet) /\ Len(Char(c)) = n /\ \A k \in 1..n : Char(c)[k] = <<c, k>>  BY <1>7, CharIs
<1>10. Text(cs) = Char(c)
  <2> DEFINE a == Text(cs)
             b == Char(c)
  <2>1. a \in Seq(ByteSet) /\ b \in Seq(ByteSet) /\ Len(a) = n /\ Len(b) = n /\ \A k \in 1..n : a[k] = b[k]
    BY <1>2, <1>8, <1>9
  <2> HIDE DEF a, b
  <2>2. a = b  BY <2>1, SeqEqual
  <2> QED  BY <2>2 DEF a, b
<1> QED  BY <1>10 DEF cs

\* One character other than NUL is a name.
LEMMA CharName == ASSUME NEW c \in Nat, c # 0 PROVE Char(c) \in Names
<1>1. <<c>> \in Seq(Nat) /\ \A i \in 1..Len(<<c>>) : <<c>>[i] # 0  OBVIOUS
<1>2. Text(<<c>>) \in Names  BY <1>1 DEF Names
<1> QED  BY <1>2, TextOne

\* Whatever text is read is a name.
LEMMA GotName == ASSUME NEW v \in Got(STR) PROVE v \in Names
<1>1. PICK cs \in Seq(Chars) : v = Text(cs)  BY DEF Got
<1>2. cs \in Seq(Nat)
  <2>1. Chars \in SUBSET Nat  BY DEF Chars
  <2> QED  BY <1>1, <2>1, SeqMonotonic
<1>3. \A i \in 1..Len(cs) : cs[i] # 0
  <2>1. \A i \in 1..Len(cs) : cs[i] \in Chars  BY LenProperties
  <2> QED  BY <2>1 DEF Chars
<1> QED  BY <1>1, <1>2, <1>3 DEF Names

\* A name is a text.
LEMMA NameBytes == ASSUME NEW v \in Names PROVE v \in Seq(ByteSet)
<1>1. PICK cs \in Seq(Nat) : v = Text(cs)  BY DEF Names
<1> QED  BY <1>1, SpeltExists

-----------------------------------------------------------------------------
(* What a host sends.                                                      *)

\* The parameters the descriptions are looked up by are all there.
Enough(op, par) ==
  /\ op \in {"GetObjectInfo", "GetObjectPropDesc"} => Len(par) >= 1
  /\ op = "GetObjectPropValue" => Len(par) >= 2
  /\ op = "GetObjectPropList" => Len(par) = 5 /\ par[3] \in {0, FileName, Modified, NonConsumed, All}

\* A request as a host makes it, with the payload that follows it.
Asked(op, par, payload) ==
  /\ Enough(op, par)
  /\ op \in Operations /\ par \in Seq(Int) /\ Len(par) <= 5 /\ payload \in Seq(Fields)
  /\ op = "OpenSession" => par = <<1>>
  /\ op = "SendObjectInfo" => /\ Len(par) = 2 /\ par[1] \in {Storage, Storage + 1}
                              /\ Len(payload) > 0 /\ payload[1] = <<4, Storage>>

\* What is put behind leaves the first where it is.
LEMMA FirstKept ==
  ASSUME NEW S, NEW s \in Seq(S), NEW t \in Seq(S), Len(s) > 0
  PROVE  s \o t \in Seq(S) /\ Len(s \o t) > 0 /\ (s \o t)[1] = s[1]
BY ConcatProperties, LenProperties

\* A text of a host is of fields that fit.
LEMMA HostTextTyped ==
  ASSUME NEW units \in Seq(Int) PROVE HostText(units) \in Seq(Fields)
<1>1. PICK n \in Nat : n = Len(units) /\ DOMAIN units = 1..n /\ \A i \in 1..n : units[i] \in Int  BY LenProperties
<1> DEFINE f == [i \in 1..n |-> Field(2, units[i])]
           a == <<Field(1, Len(units) + 1)>>
           z == <<Field(2, 0)>>
<1>2. 1 \in Widths /\ 2 \in Widths  BY DEF Widths
<1>3. a \in Seq(Fields) /\ z \in Seq(Fields)
  <2>1. Field(1, Len(units) + 1) \in Fields /\ Field(2, 0) \in Fields  BY <1>1, <1>2, FieldTyped
  <2> QED  BY <2>1
<1>4. f \in Seq(Fields)
  <2>1. \A i \in 1..n : f[i] \in Fields  BY <1>1, <1>2, FieldTyped
  <2>2. f = [i \in 1..n |-> f[i]]  OBVIOUS
  <2> HIDE DEF f
  <2>3. [i \in 1..n |-> f[i]] \in Seq(Fields)  BY <2>1, FieldRow
  <2> QED  BY <2>2, <2>3
<1>5. HostText(units) = a \o f \o z  BY <1>1 DEF HostText
<1> HIDE DEF a, f, z
<1>6. a \o f \in Seq(Fields)  BY <1>3, <1>4, ConcatProperties
<1>7. (a \o f) \o z \in Seq(Fields)  BY <1>3, <1>6, ConcatProperties
<1> QED  BY <1>5, <1>7

Layout15 == \A i \in 1..15 : ObjectLayout[i] \in {UINT16, UINT32}

\* The numbers at the head of a dataset of an object.
LEMMA LayoutStart == Layout15 /\ ObjectLayout[1] = UINT32 /\ ObjectLayout[2] = UINT16 /\ ObjectLayout[4] = UINT32
<1>1. \A i \in 1..15 : i \in {1, 2, 3, 4, 5, 6, 7, 8, 9, 10, 11, 12, 13, 14, 15}  OBVIOUS
<1> DEFINE L == ObjectLayout
<1>2. /\ L[1] = UINT32 /\ L[2] = UINT16 /\ L[3] = UINT16 /\ L[4] = UINT32 /\ L[5] = UINT16 /\ L[6] = UINT32
      /\ L[7] = UINT32 /\ L[8] = UINT32 /\ L[9] = UINT32 /\ L[10] = UINT32 /\ L[11] = UINT32 /\ L[12] = UINT32
      /\ L[13] = UINT16 /\ L[14] = UINT32 /\ L[15] = UINT32
  BY DEF ObjectLayout
<1> HIDE DEF L
<1>3. \A i \in 1..15 : L[i] \in {UINT16, UINT32}  BY <1>1, <1>2
<1> QED  BY <1>2, <1>3 DEF L, Layout15

\* The dataset of a new object starts with its storage.
LEMMA ObjectInfoSentTyped ==
  ASSUME NEW format \in {File, Folder}, NEW size \in {0, 1, All}, NEW units \in Seq(Int), NEW modified \in Nat
  PROVE  LET p == ObjectInfoSent(format, size, units, modified) IN
         p \in Seq(Fields) /\ Len(p) > 0 /\ p[1] = <<4, Storage>>
<1> DEFINE value(i) == CASE i = 1 -> Storage [] i = 2 -> format [] i = 4 -> size [] OTHER -> 0
           items == [i \in 1..15 |-> <<ObjectLayout[i], value(i)>>]
           w == Write(items)
           a == HostText(units)
           b == <<Field(1, 0)>>
           c == HostText(<<48 + modified>>)
<1>1. \A i \in 1..15 : value(i) \in Values(ObjectLayout[i]) /\ ObjectLayout[i] \in Types
  <2>1. \A i \in 1..15 : ObjectLayout[i] \in {UINT16, UINT32}  BY LayoutStart DEF Layout15
  <2>2. UINT16 \in DOMAIN Parts /\ UINT32 \in DOMAIN Parts  BY PartsAre
  <2>3. Values(UINT16) = 0..(Modulus(2) - 1) /\ Values(UINT32) = 0..(Long - 1)
    <3>1. Values(UINT16) = Numbers(UINT16) /\ Values(UINT32) = Numbers(UINT32)  BY <2>2, TypesDiffer DEF Values
    <3>2. Numbers(UINT16) = 0..(Modulus(2) - 1) /\ Numbers(UINT32) = 0..(Modulus(4) - 1)  BY PartsAre DEF Numbers
    <3> QED  BY <3>1, <3>2, ModulusIs
  <2>4. Storage \in Values(UINT32) /\ format \in Values(UINT16) /\ size \in Values(UINT32)
        /\ 0 \in Values(UINT16) /\ 0 \in Values(UINT32)
    <3>1. Modulus(2) = 65536 /\ Long \in Nat /\ Long > 65536  BY ModulusIs
    <3> QED  BY <2>3, <3>1, SMT DEF Storage, File, Folder, All
  <2>5. \A i \in 1..15 : ObjectLayout[i] \in Types  BY <2>1, <2>2 DEF Types
  <2>6. \A i \in 1..15 : value(i) \in Values(ObjectLayout[i])  BY <2>1, <2>4, LayoutStart
  <2> QED  BY <2>5, <2>6
<1>2. \A i \in 1..15 : items[i] = <<ObjectLayout[i], value(i)>>  OBVIOUS
<1> HIDE DEF value
<1>3. items \in Seq(SoundItems)
  <2>1. \A i \in 1..15 : items[i] \in SoundItems  BY <1>1, SoundItemIs
  <2>2. items \in [1..15 -> SoundItems]  BY <2>1
  <2>3. PICK m \in Nat : m = 15  OBVIOUS
  <2> HIDE DEF items
  <2>4. items \in [1..m -> SoundItems]  BY <2>2, <2>3
  <2> QED  BY <2>4, SeqDef
<1>4. Len(items) = 15
  <2>1. DOMAIN items = 1..15  OBVIOUS
  <2> HIDE DEF items
  <2> QED  BY <1>3, <2>1, LenProperties
<1>5. items[1] = <<UINT32, Storage>>
  <2>1. value(1) = Storage  BY DEF value
  <2> QED  BY <1>2, <2>1, LayoutStart
<1>6. ObjectInfoSent(format, size, units, modified) = w \o a \o b \o c \o b  BY DEF ObjectInfoSent, value
<1> HIDE DEF items
<1>7. w \in Seq(Fields)
  <2>1. items \in Seq(LooseItems)  BY <1>3, SoundLoose
  <2> QED  BY <2>1, WriteTyped
<1>8. Len(w) > 0 /\ w[1] = <<4, Storage>>
  <2>1. Items(items, 15)  BY <1>3, <1>4, ItemsSound
  <2>2. PICK left : Leaves(items, 15, left)  BY <2>1, LeavesExist
  <2>3. w = Put(items[1][1], items[1][2]) \o left[1] /\ left[1] \in Seq(FieldSet)
    <3>1. 1 \in 1..15 /\ 1 - 1 = 0 /\ 1 \in 0..15  OBVIOUS
    <3>2. left[1 - 1] = Put(items[1][1], items[1][2]) \o left[1]  BY <2>2, <3>1 DEF Leaves
    <3>3. left[0] = w  BY <2>2 DEF Leaves
    <3>4. left[1] \in Seq(FieldSet)  BY <2>2, <3>1 DEF Leaves
    <3> QED  BY <3>1, <3>2, <3>3, <3>4
  <2>4. Put(UINT32, Storage) = <<<<4, Storage>>>>
    <3>1. Storage \in 0..(Long - 1)  BY ModulusIs DEF Storage
    <3>2. UINT32 \in DOMAIN Parts  BY PartsAre
    <3> QED  BY <3>1, <3>2, CountIs, PutIs
  <2>5. items[1][1] = UINT32 /\ items[1][2] = Storage  BY <1>5
  <2>6. w = <<<<4, Storage>>>> \o left[1]  BY <2>3, <2>4, <2>5
  <2>7. <<<<4, Storage>>>> \in Seq(FieldSet)  BY DEF FieldSet, Widths, Storage
  <2> DEFINE x == <<<<4, Storage>>>>
  <2>8. Len(x) > 0 /\ x[1] = <<4, Storage>>  OBVIOUS
  <2> HIDE DEF x
  <2>9. Len(x \o left[1]) > 0 /\ (x \o left[1])[1] = x[1]  BY <2>3, <2>7, <2>8, FirstKept DEF x
  <2> QED  BY <2>6, <2>8, <2>9 DEF x
<1>9. a \in Seq(Fields) /\ b \in Seq(Fields) /\ c \in Seq(Fields)
  <2>1. <<48 + modified>> \in Seq(Int)  OBVIOUS
  <2>2. Field(1, 0) \in Fields  BY FieldTyped DEF Widths
  <2>3. b \in Seq(Fields)  BY <2>2
  <2>4. a \in Seq(Fields)  BY HostTextTyped
  <2>5. c \in Seq(Fields)  BY <2>1, HostTextTyped
  <2> QED  BY <2>3, <2>4, <2>5
<1> HIDE DEF w, a, b, c
<1>10. w \o a \in Seq(Fields) /\ Len(w \o a) > 0 /\ (w \o a)[1] = w[1]  BY <1>7, <1>8, <1>9, FirstKept
<1> DEFINE w1 == w \o a
<1> HIDE DEF w1
<1>11. w1 \o b \in Seq(Fields) /\ Len(w1 \o b) > 0 /\ (w1 \o b)[1] = w1[1]  BY <1>9, <1>10, FirstKept DEF w1
<1> DEFINE w2 == w1 \o b
<1> HIDE DEF w2
<1>12. w2 \o c \in Seq(Fields) /\ Len(w2 \o c) > 0 /\ (w2 \o c)[1] = w2[1]  BY <1>9, <1>11, FirstKept DEF w2
<1> DEFINE w3 == w2 \o c
<1> HIDE DEF w3
<1>13. w3 \o b \in Seq(Fields) /\ Len(w3 \o b) > 0 /\ (w3 \o b)[1] = w3[1]  BY <1>9, <1>12, FirstKept DEF w3
<1>14. ObjectInfoSent(format, size, units, modified) = w3 \o b  BY <1>6 DEF w1, w2, w3
<1>15. (w3 \o b)[1] = <<4, Storage>>  BY <1>8, <1>10, <1>11, <1>12, <1>13 DEF w1, w2, w3
<1> QED  BY <1>13, <1>14, <1>15

\* Most requests need only be of their type.
LEMMA PlainAsked ==
  ASSUME NEW op \in Operations, NEW par \in Seq(Int), NEW payload \in Seq(Fields), Len(par) <= 5,
         op \notin {"OpenSession", "SendObjectInfo"}, Enough(op, par),
         NEW r, r.op = op, r.par = par, r.payload = payload
  PROVE  Asked(r.op, r.par, r.payload)
BY DEF Asked

\* A request with one parameter.
LEMMA OneAsked ==
  ASSUME NEW op \in Operations, NEW S \in SUBSET Int, NEW r \in Ask1(op, S), op \notin {"OpenSession", "SendObjectInfo"},
         op \notin {"GetObjectPropValue", "GetObjectPropList"}
  PROVE  Asked(r.op, r.par, r.payload)
<1>1. PICK x \in S : r = [op |-> op, par |-> <<x>>, payload |-> <<>>]  BY Zenon DEF Ask1
<1>2. <<x>> \in Seq(Int) /\ Len(<<x>>) <= 5  BY <1>1
<1>3. <<>> \in Seq(Fields)  OBVIOUS
<1>4. r.op = op /\ r.par = <<x>> /\ r.payload = <<>>  BY <1>1
<1>5. Enough(op, <<x>>)
  <2>1. Len(<<x>>) >= 1  OBVIOUS
  <2> QED  BY <2>1 DEF Enough
<1> QED  BY <1>2, <1>3, <1>4, <1>5, PlainAsked

\* What is asked for is told by numbers.
LEMMA AskedNumbers ==
  /\ HandlesAsked \in SUBSET Int /\ Properties \in SUBSET Int /\ Range(ObjectProperties) \in SUBSET Int
  /\ {0, Storage, Storage + 1} \in SUBSET Int /\ {Friendly, FileName} \in SUBSET Int
  /\ {Partner, FileName} \in SUBSET Int /\ All \in Int /\ File \in Int /\ Folder \in Int /\ Parent \in Int
  /\ FileName \in Int /\ Friendly \in Int /\ Modified \in Int /\ NonConsumed \in Int /\ MaxHandle \in Nat
  /\ Storage \in Int
<1>1. /\ All \in Int /\ File \in Int /\ Folder \in Int /\ Parent \in Int /\ FileName \in Int /\ Friendly \in Int
      /\ Modified \in Int /\ NonConsumed \in Int /\ Storage \in Int /\ Partner \in Int /\ Width \in Int
  BY ModulusIs DEF All, File, Folder, Parent, FileName, Friendly, Modified, NonConsumed, Storage, Partner, Width
<1>2. MaxHandle \in Nat  BY PacketsAssumption, ModulusIs
<1>3. HandlesAsked \in SUBSET Int
  <2>1. \A x \in HandlesAsked : x = 0 \/ x = All \/ x \in 2..(MaxHandle + 1)  BY DEF HandlesAsked
  <2> QED  BY <2>1, <1>1
<1>4. Range(ObjectProperties) \in SUBSET Int
  <2>1. /\ StorageID \in Int /\ Format \in Int /\ Size \in Int /\ DisplayName \in Int /\ UID \in Int
        /\ AssocType \in Int /\ AssocDesc \in Int /\ Protection \in Int /\ Created \in Int /\ Hidden \in Int
    BY DEF StorageID, Format, Size, DisplayName, UID, AssocType, AssocDesc, Protection, Created, Hidden
  <2>2. ObjectProperties \in Seq(Int)  BY <2>1, <1>1 DEF ObjectProperties
  <2> DEFINE op == ObjectProperties
  <2> HIDE DEF op
  <2>3. \A i \in DOMAIN op : op[i] \in Int  BY <2>2, LenProperties DEF op
  <2>4. Range(op) \in SUBSET Int  BY <2>3 DEF Range
  <2> QED  BY <2>4 DEF op
<1>5. Properties \in SUBSET Int  BY <1>1, <1>4 DEF Properties
<1> QED  BY <1>1, <1>2, <1>3, <1>4, <1>5

\* What each request is (the requests a host makes).
LEMMA RequestIs ==
  ASSUME NEW r \in Requests PROVE Asked(r.op, r.par, r.payload)
<1> DEFINE
     Goal == Asked(r.op, r.par, r.payload)
     R0 == {[op |-> op, par |-> <<>>, payload |-> <<>>] :
              op \in {"GetDeviceInfo", "CloseSession", "GetStorageIDs", "Skip"}}
     R1 == {[op |-> "GetObjectPropDesc", par |-> <<p, File>>, payload |-> <<>>] : p \in Properties \cup {Friendly}}
     R2 == {[op |-> op, par |-> <<s, f, h>>, payload |-> <<>>] :
             op \in {"GetObjectHandles", "GetNumObjects"}, s \in {Storage, Storage + 1, All},
             f \in {0, Folder}, h \in {0, 2, All}}
     R3 == {[op |-> "GetObjectPropValue", par |-> <<h, p>>, payload |-> <<>>] :
             h \in HandlesAsked, p \in Properties}
     R4 == {[op |-> "GetObjectPropList", par |-> <<h, 0, p, g, d>>, payload |-> <<>>] :
             h \in {0, 2, 3, All}, p \in {0, FileName, Modified, NonConsumed, All},
             g \in {0}, d \in {0, 1, 2, All}}
     R5 == {[op |-> "GetObjectPropList", par |-> <<2, 0, All, 1, 0>>, payload |-> <<>>]}
     R6 == {[op |-> "SetDevicePropValue", par |-> <<Friendly>>, payload |-> HostText(<<97>>)],
            [op |-> "SetObjectReferences", par |-> <<2>>, payload |-> Put(AUINT32, <<3, 4>>)]}
     R7 == {[op |-> "SetObjectPropValue", par |-> <<h, FileName>>, payload |-> HostText(n)] :
             h \in {2, 4}, n \in HostNames}
     R8 == {[op |-> "SetObjectPropValue", par |-> <<h, FileName>>, payload |-> HostText(<<97>>)] :
             h \in {0, MaxHandle + 1}}
     R9 == {[op |-> "SetObjectPropValue", par |-> <<2, Parent>>, payload |-> Put(UINT32, 0)]}
     Xs == {<<Storage, 2, File, 1, n>> : n \in HostNames}
                 \cup {<<Storage, h, File, 1, <<97>>>> : h \in {0, 3, MaxHandle + 1}}
                 \cup {<<Storage + 1, All, File, 1, <<97>>>>, <<Storage, All, Folder, 0, <<97>>>>,
                       <<Storage, All, File, All, <<97>>>>}
     R10 == {[op |-> "SendObjectInfo", par |-> <<x[1], x[2]>>,
              payload |-> ObjectInfoSent(x[3], x[4], x[5], 5)] : x \in Xs}
     A0 == Ask1("OpenSession", {1})
     A1 == Ask1("GetStorageInfo", {0, Storage, Storage + 1})
     A2 == Ask1("GetObjectPropsSupported", {File})
     A3 == Ask1("GetObjectReferences", HandlesAsked)
     A4 == Ask1("GetObjectInfo", HandlesAsked)
     A5 == Ask1("GetThumb", {3})
     A6 == Ask1("GetObjectHandles", {Storage})
     A7 == Ask1("GetNumObjects", {Storage})
     A8 == Ask1("GetDevicePropValue", {Friendly, FileName})
     A9 == Ask1("GetDevicePropDesc", {Partner, FileName})
     A10 == Ask1("ResetDevicePropValue", {Friendly})
<1>1. Requests = R0 \cup A0 \cup A1 \cup A2 \cup A3 \cup A4 \cup A5 \cup A6 \cup A7 \cup A8 \cup A9 \cup A10
                 \cup R1 \cup R2 \cup R3 \cup R4 \cup R5 \cup R6 \cup R7 \cup R8 \cup R9 \cup R10
  BY DEF Requests
<1>2. \/ r \in R0 \/ r \in A0 \/ r \in A1 \/ r \in A2 \/ r \in A3 \/ r \in A4 \/ r \in A5 \/ r \in A6 \/ r \in A7
      \/ r \in A8 \/ r \in A9 \/ r \in A10 \/ r \in R1 \/ r \in R2 \/ r \in R3 \/ r \in R4 \/ r \in R5 \/ r \in R6
      \/ r \in R7 \/ r \in R8 \/ r \in R9 \/ r \in R10
  <2> HIDE DEF R0, A0, A1, A2, A3, A4, A5, A6, A7, A8, A9, A10, R1, R2, R3, R4, R5, R6, R7, R8, R9, R10
  <2> QED  BY <1>1
<1> HIDE DEF R0, A0, A1, A2, A3, A4, A5, A6, A7, A8, A9, A10, R1, R2, R3, R4, R5, R6, R7, R8, R9, R10, Xs, Goal
<1>3. <<>> \in Seq(Fields)  OBVIOUS
<1>4. ASSUME r \in R0 PROVE Goal
  <2>1. PICK op \in {"GetDeviceInfo", "CloseSession", "GetStorageIDs", "Skip"} :
          r = [op |-> op, par |-> <<>>, payload |-> <<>>]
    BY <1>4, SMT DEF R0
  <2>2. \A o \in {"GetDeviceInfo", "CloseSession", "GetStorageIDs", "Skip"} :
          o \in Operations /\ o \notin {"OpenSession", "SendObjectInfo"} /\ Enough(o, <<>>)
    BY DEF Operations, Enough
  <2>3. op \in Operations /\ op \notin {"OpenSession", "SendObjectInfo"} /\ Enough(op, <<>>)  BY ONLY <2>1, <2>2, Zenon
  <2>4. <<>> \in Seq(Int) /\ Len(<<>>) <= 5  OBVIOUS
  <2>5. r.op = op /\ r.par = <<>> /\ r.payload = <<>>  BY ONLY <2>1, Zenon
  <2> QED  BY ONLY <2>3, <2>4, <2>5, <1>3, PlainAsked DEF Goal
<1>5. ASSUME r \in A0 PROVE Goal
  <2>1. r = [op |-> "OpenSession", par |-> <<1>>, payload |-> <<>>]  BY <1>5 DEF Ask1, A0
  <2>2. r.op = "OpenSession" /\ r.par = <<1>> /\ r.payload = <<>>  BY <2>1
  <2>3. <<1>> \in Seq(Int) /\ Len(<<1>>) <= 5  OBVIOUS
  <2>4. Enough(r.op, r.par)  BY <2>2 DEF Enough
  <2> QED  BY <2>2, <2>3, <2>4, <1>3 DEF Asked, Goal, Operations
<1>6. ASSUME r \in A1 PROVE Goal  BY <1>6, AskedNumbers, OneAsked DEF Operations, A1, Goal
<1>7. ASSUME r \in A2 PROVE Goal
  <2>1. {File} \in SUBSET Int  BY AskedNumbers
  <2> QED  BY <1>7, <2>1, OneAsked DEF Operations, A2, Goal
<1>8. ASSUME r \in A3 PROVE Goal  BY <1>8, AskedNumbers, OneAsked DEF Operations, A3, Goal
<1>9. ASSUME r \in A4 PROVE Goal  BY <1>9, AskedNumbers, OneAsked DEF Operations, A4, Goal
<1>10. ASSUME r \in A5 PROVE Goal
  <2>1. {3} \in SUBSET Int  OBVIOUS
  <2> QED  BY <1>10, <2>1, OneAsked DEF Operations, A5, Goal
<1>11. ASSUME r \in A6 PROVE Goal
  <2>1. {Storage} \in SUBSET Int  BY AskedNumbers
  <2> QED  BY <1>11, <2>1, OneAsked DEF Operations, A6, Goal
<1>12. ASSUME r \in A7 PROVE Goal
  <2>1. {Storage} \in SUBSET Int  BY AskedNumbers
  <2> QED  BY <1>12, <2>1, OneAsked DEF Operations, A7, Goal
<1>13. ASSUME r \in A8 PROVE Goal  BY <1>13, AskedNumbers, OneAsked DEF Operations, A8, Goal
<1>14. ASSUME r \in A9 PROVE Goal  BY <1>14, AskedNumbers, OneAsked DEF Operations, A9, Goal
<1>15. ASSUME r \in A10 PROVE Goal
  <2>1. {Friendly} \in SUBSET Int  BY AskedNumbers
  <2> QED  BY <1>15, <2>1, OneAsked DEF Operations, A10, Goal
<1>16. ASSUME r \in R1 PROVE Goal
  <2>1. PICK p \in Properties \cup {Friendly} :
          r = [op |-> "GetObjectPropDesc", par |-> <<p, File>>, payload |-> <<>>]
    BY <1>16, SMT DEF R1
  <2>2. p \in Int /\ File \in Int  BY <2>1, AskedNumbers
  <2>3. <<p, File>> \in Seq(Int) /\ Len(<<p, File>>) <= 5  BY <2>2
  <2>9. r.op = "GetObjectPropDesc" /\ r.par = <<p, File>> /\ r.payload = <<>>  BY ONLY <2>1, Zenon
  <2>10. Enough("GetObjectPropDesc", <<p, File>>)
    <3>1. Len(<<p, File>>) >= 1  OBVIOUS
    <3> QED  BY <3>1 DEF Enough
  <2> QED  BY ONLY <2>9, <2>10, <2>3, <1>3, PlainAsked DEF Goal, Operations
<1>17. ASSUME r \in R2 PROVE Goal
  <2>1. PICK op \in {"GetObjectHandles", "GetNumObjects"}, s \in {Storage, Storage + 1, All},
             f \in {0, Folder}, h \in {0, 2, All} :
          r = [op |-> op, par |-> <<s, f, h>>, payload |-> <<>>]
    BY <1>17, SMT DEF R2
  <2>2. s \in Int /\ f \in Int /\ h \in Int  BY <2>1, AskedNumbers
  <2>3. <<s, f, h>> \in Seq(Int) /\ Len(<<s, f, h>>) <= 5  BY <2>2
  <2>5. \A o \in {"GetObjectHandles", "GetNumObjects"} :
          o \in Operations /\ o \notin {"OpenSession", "SendObjectInfo"} /\ Enough(o, <<s, f, h>>)
    BY DEF Operations, Enough
  <2>4. op \in Operations /\ op \notin {"OpenSession", "SendObjectInfo"} /\ Enough(op, <<s, f, h>>)
    BY ONLY <2>1, <2>5, Zenon
  <2>6. r.op = op /\ r.par = <<s, f, h>> /\ r.payload = <<>>  BY ONLY <2>1, Zenon
  <2> QED  BY ONLY <2>3, <2>4, <2>6, <1>3, PlainAsked DEF Goal
<1>18. ASSUME r \in R3 PROVE Goal
  <2>1. PICK h \in HandlesAsked, p \in Properties :
          r = [op |-> "GetObjectPropValue", par |-> <<h, p>>, payload |-> <<>>]
    BY <1>18, SMT DEF R3
  <2>2. p \in Int /\ h \in Int  BY <2>1, AskedNumbers
  <2>3. <<h, p>> \in Seq(Int) /\ Len(<<h, p>>) <= 5  BY <2>2
  <2>9. r.op = "GetObjectPropValue" /\ r.par = <<h, p>> /\ r.payload = <<>>  BY ONLY <2>1, Zenon
  <2>10. Enough("GetObjectPropValue", <<h, p>>)
    <3>1. Len(<<h, p>>) >= 2  OBVIOUS
    <3> QED  BY <3>1 DEF Enough
  <2> QED  BY ONLY <2>9, <2>10, <2>3, <1>3, PlainAsked DEF Goal, Operations
<1>19. ASSUME r \in R4 PROVE Goal
  <2>1. PICK h \in {0, 2, 3, All}, p \in {0, FileName, Modified, NonConsumed, All},
             g \in {0}, d \in {0, 1, 2, All} :
          r = [op |-> "GetObjectPropList", par |-> <<h, 0, p, g, d>>, payload |-> <<>>]
    BY <1>19, SMT DEF R4
  <2>2. h \in Int /\ p \in Int /\ g \in Int /\ d \in Int  BY <2>1, AskedNumbers
  <2>3. <<h, 0, p, g, d>> \in Seq(Int) /\ Len(<<h, 0, p, g, d>>) <= 5  BY <2>2
  <2>9. r.op = "GetObjectPropList" /\ r.par = <<h, 0, p, g, d>> /\ r.payload = <<>>  BY ONLY <2>1, Zenon
  <2>10. Enough("GetObjectPropList", <<h, 0, p, g, d>>)
    <3> DEFINE q == <<h, 0, p, g, d>>
    <3>1. Len(q) = 5 /\ q[3] = p  OBVIOUS
    <3> HIDE DEF q
    <3> QED  BY <3>1, <2>1 DEF Enough
  <2> QED  BY ONLY <2>9, <2>10, <2>3, <1>3, PlainAsked DEF Goal, Operations
<1>20. ASSUME r \in R5 PROVE Goal
  <2>1. r = [op |-> "GetObjectPropList", par |-> <<2, 0, All, 1, 0>>, payload |-> <<>>]  BY <1>20, SMT DEF R5
  <2>2. All \in Int  BY AskedNumbers
  <2>3. <<2, 0, All, 1, 0>> \in Seq(Int) /\ Len(<<2, 0, All, 1, 0>>) <= 5  BY <2>2
  <2>9. r.op = "GetObjectPropList" /\ r.par = <<2, 0, All, 1, 0>> /\ r.payload = <<>>  BY ONLY <2>1, Zenon
  <2>10. Enough("GetObjectPropList", <<2, 0, All, 1, 0>>)
    <3> DEFINE q == <<2, 0, All, 1, 0>>
    <3>1. Len(q) = 5 /\ q[3] = All  OBVIOUS
    <3> HIDE DEF q
    <3> QED  BY <3>1, <2>2 DEF Enough
  <2> QED  BY ONLY <2>9, <2>10, <2>3, <1>3, PlainAsked DEF Goal, Operations
<1>21. <<97>> \in Seq(Int) /\ HostNames \in SUBSET Seq(Int)
  <2>1. Utf16 \in SUBSET Int  BY SMT DEF Utf16
  <2>2. Seq(Utf16) \in SUBSET Seq(Int)  BY <2>1, SeqMonotonic
  <2> QED  BY <2>2, PacketsAssumption
<1>22. HostText(<<97>>) \in Seq(Fields) /\ \A n \in HostNames : HostText(n) \in Seq(Fields)  BY <1>21, HostTextTyped
<1>23. ASSUME r \in R6 PROVE Goal
  <2>1. CASE r = [op |-> "SetDevicePropValue", par |-> <<Friendly>>, payload |-> HostText(<<97>>)]
    <3>1. Friendly \in Int  BY AskedNumbers
    <3>2. <<Friendly>> \in Seq(Int) /\ Len(<<Friendly>>) <= 5  BY <3>1
    <3>9. r.op = "SetDevicePropValue" /\ r.par = <<Friendly>> /\ r.payload = HostText(<<97>>)  BY ONLY <2>1, Zenon
    <3>10. Enough("SetDevicePropValue", <<Friendly>>)  BY DEF Enough
    <3> QED  BY ONLY <3>9, <3>10, <3>2, <1>22, PlainAsked, ZenonT(60) DEF Goal, Operations
  <2>2. CASE r = [op |-> "SetObjectReferences", par |-> <<2>>, payload |-> Put(AUINT32, <<3, 4>>)]
    <3>1. Put(AUINT32, <<3, 4>>) \in Seq(Fields)
      <4>1. AUINT32 \in DOMAIN Element  BY ElementIs
      <4>2. <<3, 4>> \in Seq(Int)  OBVIOUS
      <4> QED  BY <4>1, <4>2, PutIs, ArrayTyped
    <3>2. <<2>> \in Seq(Int) /\ Len(<<2>>) <= 5  OBVIOUS
    <3>9. r.op = "SetObjectReferences" /\ r.par = <<2>> /\ r.payload = Put(AUINT32, <<3, 4>>)  BY ONLY <2>2, Zenon
    <3>10. Enough("SetObjectReferences", <<2>>)  BY DEF Enough
    <3> QED  BY ONLY <3>9, <3>10, <3>1, <3>2, PlainAsked DEF Goal, Operations
  <2> QED  BY <1>23, <2>1, <2>2 DEF R6
<1>24. ASSUME r \in R7 PROVE Goal
  <2>1. PICK h \in {2, 4}, n \in HostNames :
          r = [op |-> "SetObjectPropValue", par |-> <<h, FileName>>, payload |-> HostText(n)]
    BY <1>24, SMT DEF R7
  <2>2. h \in Int /\ FileName \in Int  BY <2>1, AskedNumbers
  <2>3. <<h, FileName>> \in Seq(Int) /\ Len(<<h, FileName>>) <= 5  BY <2>2
  <2>9. r.op = "SetObjectPropValue" /\ r.par = <<h, FileName>> /\ r.payload = HostText(n)  BY ONLY <2>1, Zenon
  <2>10. Enough("SetObjectPropValue", <<h, FileName>>)  BY DEF Enough
  <2> QED  BY ONLY <2>9, <2>10, <2>3, <1>22, PlainAsked DEF Goal, Operations
<1>25. ASSUME r \in R8 PROVE Goal
  <2>1. PICK h \in {0, MaxHandle + 1} :
          r = [op |-> "SetObjectPropValue", par |-> <<h, FileName>>, payload |-> HostText(<<97>>)]
    BY <1>25, SMT DEF R8
  <2>2. h \in Int /\ FileName \in Int  BY <2>1, AskedNumbers
  <2>3. <<h, FileName>> \in Seq(Int) /\ Len(<<h, FileName>>) <= 5  BY <2>2
  <2>9. r.op = "SetObjectPropValue" /\ r.par = <<h, FileName>> /\ r.payload = HostText(<<97>>)  BY ONLY <2>1, Zenon
  <2>10. Enough("SetObjectPropValue", <<h, FileName>>)  BY DEF Enough
  <2> QED  BY ONLY <2>9, <2>10, <2>3, <1>22, PlainAsked, ZenonT(60) DEF Goal, Operations
<1>26. ASSUME r \in R9 PROVE Goal
  <2>1. r = [op |-> "SetObjectPropValue", par |-> <<2, Parent>>, payload |-> Put(UINT32, 0)]  BY <1>26, SMT DEF R9
  <2>2. Parent \in Int  BY AskedNumbers
  <2>3. <<2, Parent>> \in Seq(Int) /\ Len(<<2, Parent>>) <= 5  BY <2>2
  <2>4. Put(UINT32, 0) \in Seq(Fields)
    <3>1. UINT32 \in DOMAIN Parts  BY PartsAre
    <3>2. 0 \in Int  OBVIOUS
    <3> QED  BY <3>1, <3>2, PutIs, NumberTyped
  <2>9. r.op = "SetObjectPropValue" /\ r.par = <<2, Parent>> /\ r.payload = Put(UINT32, 0)  BY ONLY <2>1, Zenon
  <2>10. Enough("SetObjectPropValue", <<2, Parent>>)  BY DEF Enough
  <2> QED  BY ONLY <2>9, <2>10, <2>3, <2>4, PlainAsked DEF Goal, Operations
<1>27. ASSUME r \in R10 PROVE Goal
  <2>1. PICK x \in Xs : r = [op |-> "SendObjectInfo", par |-> <<x[1], x[2]>>,
                             payload |-> ObjectInfoSent(x[3], x[4], x[5], 5)]
    BY <1>27, SMT DEF R10
  <2>2. /\ x[1] \in {Storage, Storage + 1} /\ x[2] \in Int /\ x[3] \in {File, Folder} /\ x[4] \in {0, 1, All}
        /\ x[5] \in Seq(Int)
    <3>1. CASE x \in {<<Storage, 2, File, 1, n>> : n \in HostNames}
      BY <3>1, <1>21
    <3>2. CASE x \in {<<Storage, h, File, 1, <<97>>>> : h \in {0, 3, MaxHandle + 1}}
      <4>1. PICK h \in {0, 3, MaxHandle + 1} : x = <<Storage, h, File, 1, <<97>>>>  BY <3>2
      <4>2. x[1] = Storage /\ x[2] = h /\ x[3] = File /\ x[4] = 1 /\ x[5] = <<97>>  BY <4>1
      <4> QED  BY <4>2, <1>21, AskedNumbers
    <3>3. CASE x = <<Storage + 1, All, File, 1, <<97>>>>
      BY <3>3, <1>21, AskedNumbers
    <3>4. CASE x = <<Storage, All, Folder, 0, <<97>>>>
      BY <3>4, <1>21, AskedNumbers
    <3>5. CASE x = <<Storage, All, File, All, <<97>>>>
      BY <3>5, <1>21, AskedNumbers
    <3>6. \/ x \in {<<Storage, 2, File, 1, n>> : n \in HostNames}
          \/ x \in {<<Storage, h, File, 1, <<97>>>> : h \in {0, 3, MaxHandle + 1}}
          \/ x = <<Storage + 1, All, File, 1, <<97>>>> \/ x = <<Storage, All, Folder, 0, <<97>>>>
          \/ x = <<Storage, All, File, All, <<97>>>>
      BY ONLY <2>1, Zenon DEF Xs
    <3> QED  BY ONLY <3>1, <3>2, <3>3, <3>4, <3>5, <3>6, Zenon
  <2> DEFINE q == <<x[1], x[2]>>
             p == ObjectInfoSent(x[3], x[4], x[5], 5)
  <2>3. p \in Seq(Fields) /\ Len(p) > 0 /\ p[1] = <<4, Storage>>
    <3>1. 5 \in Nat  OBVIOUS
    <3> QED  BY <2>2, <3>1, ObjectInfoSentTyped, SMTT(40)
  <2>4. x[1] \in Int  BY <2>2, AskedNumbers
  <2>5. q \in Seq(Int) /\ Len(q) = 2 /\ q[1] = x[1]  BY <2>2, <2>4
  <2>6. r.op = "SendObjectInfo" /\ r.par = q /\ r.payload = p  BY <2>1
  <2> HIDE DEF p, q
  <2>7. "SendObjectInfo" \in Operations /\ q[1] \in {Storage, Storage + 1}  BY <2>2, <2>5 DEF Operations
  <2>9. Enough("SendObjectInfo", q)  BY DEF Enough
  <2>8. Asked("SendObjectInfo", q, p)  BY <2>3, <2>5, <2>7, <2>9 DEF Asked
  <2> QED  BY ONLY <2>6, <2>8, Zenon DEF Goal
<1>28. Goal
  BY <1>2, <1>4, <1>5, <1>6, <1>7, <1>8, <1>9, <1>10, <1>11, <1>12, <1>13, <1>14, <1>15, <1>16, <1>17, <1>18, <1>19,
     <1>20, <1>23, <1>24, <1>25, <1>26, <1>27
<1> QED  BY <1>28 DEF Goal

-----------------------------------------------------------------------------
(* The tables.                                                             *)

ObjectCodes ==
  {StorageID, Parent, Format, Size, FileName, DisplayName, UID, AssocType, AssocDesc, Protection,
   Created, Modified, Hidden, NonConsumed}

\* The three tables have the same properties.
LEMMA CodesAre ==
  /\ Range(ObjectProperties) = ObjectCodes /\ DOMAIN TypeOf = ObjectCodes
  /\ Range(ListOrder) = ObjectCodes
<1>1. \A s : s = ObjectProperties => DOMAIN s = 1..14 /\ Range(s) = ObjectCodes
  <2> TAKE s
  <2> HAVE s = ObjectProperties
  <2>1. DOMAIN s = 1..14  BY DEF ObjectProperties
  <2>2. /\ s[1] = StorageID /\ s[2] = Parent /\ s[3] = Format /\ s[4] = Size /\ s[5] = FileName
        /\ s[6] = DisplayName /\ s[7] = UID /\ s[8] = AssocType /\ s[9] = AssocDesc /\ s[10] = Protection
        /\ s[11] = Created /\ s[12] = Modified /\ s[13] = Hidden /\ s[14] = NonConsumed
    BY DEF ObjectProperties
  <2>3. \A i \in 1..14 : i \in {1, 2, 3, 4, 5, 6, 7, 8, 9, 10, 11, 12, 13, 14}  OBVIOUS
  <2>4. {1, 2, 3, 4, 5, 6, 7, 8, 9, 10, 11, 12, 13, 14} \in SUBSET (1..14)  OBVIOUS
  <2>5. Range(s) \in SUBSET ObjectCodes  BY ONLY <2>1, <2>2, <2>3 DEF Range, ObjectCodes
  <2>6. ObjectCodes \in SUBSET Range(s)  BY ONLY <2>1, <2>2, <2>4 DEF Range, ObjectCodes
  <2> QED  BY <2>1, <2>5, <2>6
<1>2. \A s : s = ListOrder => Range(s) = ObjectCodes
  <2> TAKE s
  <2> HAVE s = ListOrder
  <2>1. DOMAIN s = 1..14  BY DEF ListOrder
  <2>2. /\ s[1] = UID /\ s[2] = StorageID /\ s[3] = Parent /\ s[4] = Format /\ s[5] = Size
        /\ s[6] = FileName /\ s[7] = DisplayName /\ s[8] = AssocType /\ s[9] = AssocDesc /\ s[10] = Protection
        /\ s[11] = Created /\ s[12] = Modified /\ s[13] = Hidden /\ s[14] = NonConsumed
    BY DEF ListOrder
  <2>3. \A i \in 1..14 : i \in {1, 2, 3, 4, 5, 6, 7, 8, 9, 10, 11, 12, 13, 14}  OBVIOUS
  <2>4. {1, 2, 3, 4, 5, 6, 7, 8, 9, 10, 11, 12, 13, 14} \in SUBSET (1..14)  OBVIOUS
  <2>5. Range(s) \in SUBSET ObjectCodes  BY ONLY <2>1, <2>2, <2>3 DEF Range, ObjectCodes
  <2>6. ObjectCodes \in SUBSET Range(s)  BY ONLY <2>1, <2>2, <2>4 DEF Range, ObjectCodes
  <2> QED  BY <2>5, <2>6
<1> QED  BY <1>1, <1>2 DEF TypeOf

\* The types the properties are sent with.
LEMMA TypesAre ==
  /\ TypeOf[FileName] = STR /\ TypeOf[DisplayName] = STR /\ TypeOf[Created] = STR /\ TypeOf[Modified] = STR
  /\ TypeOf[UID] = UINT128
  /\ TypeOf[StorageID] = UINT32 /\ TypeOf[Parent] = UINT32 /\ TypeOf[Size] = UINT32 /\ TypeOf[AssocDesc] = UINT32
  /\ TypeOf[Format] = UINT16 /\ TypeOf[AssocType] = UINT16 /\ TypeOf[Protection] = UINT16
  /\ TypeOf[Hidden] = UINT16 /\ TypeOf[NonConsumed] = UINT16
<1>1. \A p \in ObjectCodes : TypeOf[p] = CASE p \in {FileName, DisplayName, Created, Modified} -> STR
                                           [] p = UID -> UINT128
                                           [] p \in {StorageID, Parent, Size, AssocDesc} -> UINT32
                                           [] p \in {Format, AssocType, Protection, Hidden, NonConsumed} -> UINT16
  BY CodesAre DEF TypeOf
<1>2. /\ FileName \in ObjectCodes /\ DisplayName \in ObjectCodes /\ Created \in ObjectCodes
      /\ Modified \in ObjectCodes /\ UID \in ObjectCodes /\ StorageID \in ObjectCodes /\ Parent \in ObjectCodes
      /\ Size \in ObjectCodes /\ AssocDesc \in ObjectCodes /\ Format \in ObjectCodes /\ AssocType \in ObjectCodes
      /\ Protection \in ObjectCodes /\ Hidden \in ObjectCodes /\ NonConsumed \in ObjectCodes
  BY DEF ObjectCodes
<1>3. \A p \in ObjectCodes :
        /\ p \in {FileName, DisplayName, Created, Modified} => TypeOf[p] = STR
        /\ p = UID => TypeOf[p] = UINT128
        /\ p \in {StorageID, Parent, Size, AssocDesc} => TypeOf[p] = UINT32
        /\ p \in {Format, AssocType, Protection, Hidden, NonConsumed} => TypeOf[p] = UINT16
  BY ONLY <1>1, SMT DEF StorageID, Parent, Format, Size, FileName, DisplayName, UID, AssocType, AssocDesc,
     Protection, Created, Modified, Hidden, NonConsumed
<1> QED  BY ONLY <1>2, <1>3, SMT

Codes16 == 0..65535

\* The code of a property is of two bytes.
LEMMA CodeNumbers == ObjectCodes \in SUBSET Codes16
BY SMT DEF ObjectCodes, Codes16, StorageID, Parent, Format, Size, FileName, DisplayName, UID, AssocType, AssocDesc,
       Protection, Created, Modified, Hidden, NonConsumed

\* The types of values.
LEMMA ValuesAre ==
  /\ Values(UINT8) = 0..(Byte - 1) /\ Values(UINT16) = 0..(Modulus(2) - 1) /\ Values(UINT32) = 0..(Long - 1)
  /\ Values(STR) = Texts /\ \A v \in 0..(Long - 1) : v \in Values(UINT128) /\ v \in Values(UINT64)
  /\ Loose(STR) = Seq(ByteSet) /\ Loose(UINT8) = Int /\ Loose(UINT16) = Int /\ Loose(UINT32) = Int
  /\ Loose(UINT128) = Int /\ UINT8 \in Types /\ UINT16 \in Types /\ UINT32 \in Types /\ UINT64 \in Types
  /\ UINT128 \in Types /\ STR \in Types /\ AUINT16 \in Types /\ AUINT32 \in Types
<1>1. /\ UINT8 \in DOMAIN Parts /\ UINT16 \in DOMAIN Parts /\ UINT32 \in DOMAIN Parts /\ UINT64 \in DOMAIN Parts
      /\ UINT128 \in DOMAIN Parts /\ AUINT16 \in DOMAIN Element /\ AUINT32 \in DOMAIN Element
  BY PartsAre, ElementIs
<1>2. \A t \in DOMAIN Parts : Values(t) = Numbers(t) /\ Loose(t) = Int  BY TypesDiffer DEF Values, Loose
<1>3. Numbers(UINT8) = 0..(Modulus(1) - 1) /\ Numbers(UINT16) = 0..(Modulus(2) - 1) /\ Numbers(UINT32) = 0..(Modulus(4) - 1)
  BY PartsAre DEF Numbers
<1>4. \A t \in {UINT64, UINT128} : \A v \in 0..(Long - 1) : v \in Numbers(t)
  <2> TAKE t \in {UINT64, UINT128}
  <2>1. t \notin {UINT8, UINT16, UINT32}  BY DEF UINT8, UINT16, UINT32, UINT64, UINT128
  <2>2. Numbers(t) = {x[1] + Long * x[2] : x \in (0..(Long - 1)) \X (0..(Long - 1))}  BY <2>1, Zenon DEF Numbers
  <2> TAKE v \in 0..(Long - 1)
  <2>3. Long \in Nat /\ Long > 0  BY ModulusIs
  <2> DEFINE x == <<v, 0>>
  <2>4. x \in (0..(Long - 1)) \X (0..(Long - 1)) /\ x[1] + Long * x[2] = v  BY <2>3
  <2> QED  BY <2>2, <2>4
<1>5. Values(STR) = Texts /\ Loose(STR) = Seq(ByteSet)  BY DEF Values, Loose
<1>6. /\ Values(UINT8) = 0..(Byte - 1) /\ Values(UINT16) = 0..(Modulus(2) - 1) /\ Values(UINT32) = 0..(Long - 1)
      /\ \A v \in 0..(Long - 1) : v \in Values(UINT128) /\ v \in Values(UINT64)
      /\ Loose(UINT8) = Int /\ Loose(UINT16) = Int /\ Loose(UINT32) = Int /\ Loose(UINT128) = Int
  BY <1>1, <1>2, <1>3, <1>4, ModulusIs
<1> QED  BY <1>1, <1>5, <1>6 DEF Types

-----------------------------------------------------------------------------
(* Texts that are carried.                                                 *)

\* One character of two bytes, and none.
LEMMA CharCarried == ASSUME NEW c \in Chars PROVE Char(c) \in Texts
<1>1. c \in Nat /\ c # 0 /\ c < 65536 /\ Byte - 1 > 1
  <2>1. c < Modulus(2) /\ c \in Nat /\ c # 0  BY DEF Chars
  <2> QED  BY <2>1, ModulusIs
<1> DEFINE cs == <<c>>
<1>2. cs \in Seq(Nat) /\ Len(cs) = 1 /\ cs[1] = c  BY <1>1
<1>3. Utf8Len(c) < 4  BY ONLY <1>1, SMT DEF Utf8Len
<1> HIDE DEF cs
<1>4. Low(cs) /\ Len(cs) < Byte - 1 /\ \A i \in 1..Len(cs) : cs[i] # 0  BY <1>1, <1>2, <1>3 DEF Low
<1>5. Text(cs) \in Texts  BY <1>2, <1>4 DEF Texts
<1> QED  BY <1>1, <1>5, TextOne DEF cs

\* No text is a text.
LEMMA NoText == <<>> \in Texts /\ <<>> \in Names
<1> DEFINE cs == <<>>
<1>1. cs \in Seq(Nat) /\ Len(cs) = 0  OBVIOUS
<1> HIDE DEF cs
<1>2. PICK e : Spelt(cs, e)  BY <1>1, SpeltExists
<1>3. Len(Text(cs)) = 0  BY <1>1, <1>2 DEF Spelt, Spells
<1>4. Text(cs) = <<>>  BY <1>1, <1>3, SpeltExists, EmptySeq
<1>5. Low(cs) /\ Len(cs) < Byte - 1 /\ \A i \in 1..Len(cs) : cs[i] # 0  BY <1>1, ModulusIs DEF Low
<1> QED  BY <1>1, <1>4, <1>5 DEF Texts, Names

\* What the model calls carried is carried.
LEMMA CarriedName == ASSUME NEW name \in Names, Carried(name) PROVE name \in Texts
<1>1. PICK cs \in Seq(Nat) : name = Text(cs) /\ \A i \in 1..Len(cs) : cs[i] # 0  BY DEF Names
<1>2. PICK e : Spelt(cs, e)  BY SpeltExists
<1>3. Low(cs)
  <2> SUFFICES ASSUME NEW i \in 1..Len(cs) PROVE Utf8Len(cs[i]) < 4  BY DEF Low
  <2>1. /\ Utf8Len(cs[i]) \in 1..4 /\ e[i - 1] \in Nat /\ e[i] = e[i - 1] + Utf8Len(cs[i]) /\ e[i] <= e[Len(cs)]
        /\ Len(Text(cs)) = e[Len(cs)] /\ e[Len(cs)] \in Nat
        /\ \A k \in 1..Utf8Len(cs[i]) : Text(cs)[e[i - 1] + k] = <<cs[i], k>>
    BY <1>2, SpeltAt
  <2>2. PICK p \in Nat : p = e[i - 1] + 1  BY <2>1
  <2>3. p \in 1..Len(name) /\ 1 \in 1..Utf8Len(cs[i])  BY <2>1, <2>2, <1>1, SMTT(40)
  <2>4. name[p] = <<cs[i], 1>>  BY <2>1, <2>2, <2>3, <1>1
  <2>5. p \in DOMAIN name
    <3>1. name \in Seq(ByteSet)  BY <1>1, SpeltExists
    <3> QED  BY <2>3, <3>1, LenProperties
  <2>6. Utf8Len(name[p][1]) < 4  BY <2>5 DEF Carried
  <2> QED  BY <2>4, <2>6
<1>4. Len(cs) < Byte - 1  BY <1>1, <1>3, TextCount DEF Carried
<1> QED  BY <1>1, <1>3, <1>4 DEF Texts

-----------------------------------------------------------------------------
(* What is known of an object.                                             *)

EntryOK(e) ==
  /\ DOMAIN e = {"storage", "parent", "format", "size", "name", "modified"}
  /\ e.storage = Storage /\ e.parent \in 0..MaxHandle /\ e.format \in Values(UINT16) /\ e.size \in Nat
  /\ e.name \in Names /\ e.modified \in Int /\ 48 + e.modified \in Chars

\* The value of each property.
LEMMA ValueOfIs ==
  ASSUME NEW h, NEW e
  PROVE  /\ ValueOf(StorageID, h, e) = e.storage /\ ValueOf(Parent, h, e) = e.parent
         /\ ValueOf(Format, h, e) = e.format /\ ValueOf(Size, h, e) = e.size
         /\ ValueOf(FileName, h, e) = e.name /\ ValueOf(DisplayName, h, e) = e.name
         /\ ValueOf(UID, h, e) = h /\ ValueOf(AssocType, h, e) = AssociationType(e)
         /\ ValueOf(Created, h, e) = Date(0) /\ ValueOf(Modified, h, e) = Date(e.modified)
         /\ ValueOf(NonConsumed, h, e) = (IF e.format = Folder THEN 0 ELSE 1)
         /\ ValueOf(AssocDesc, h, e) = 0 /\ ValueOf(Protection, h, e) = 0 /\ ValueOf(Hidden, h, e) = 0
BY SMT DEF ValueOf, StorageID, Parent, Format, Size, FileName, DisplayName, UID, AssocType, AssocDesc, Protection,
   Created, Modified, Hidden, NonConsumed

\* A date is read as it was written (formatDateTime, parseDateTime).
LEMMA DateIs ==
  /\ Date(0) \in Texts
  /\ \A t \in Int : 48 + t \in Chars => Date(t) \in Texts /\ Date(t) # <<>> /\ TimeOf(Date(t), Nothing) = t
<1>1. 48 + 0 \in Chars  BY ModulusIs DEF Chars
<1>2. ASSUME NEW t \in Int, 48 + t \in Chars PROVE Date(t) \in Texts /\ Date(t) # <<>> /\ TimeOf(Date(t), Nothing) = t
  <2> DEFINE c == 48 + t
  <2>1. c \in Chars /\ c \in Nat  BY <1>2 DEF Chars
  <2>2. Date(t) = Char(c)  BY DEF Date
  <2>3. Char(c) \in Texts  BY <2>1, CharCarried
  <2>4. PICK n \in 1..4 : n = Utf8Len(c) /\ Len(Char(c)) = n /\ Char(c) \in Seq(ByteSet) /\ Char(c)[1] = <<c, 1>>
    <3>1. Utf8Len(c) \in 1..4  BY <2>1, Utf8LenNat
    <3>2. 1 \in 1..Utf8Len(c)  BY <3>1
    <3> HIDE DEF c
    <3> QED  BY <2>1, <3>1, <3>2, CharIs
  <2> DEFINE x == Char(c)
  <2>5. x # <<>> /\ Head(x) = <<c, 1>>
    <3>1. x \in Seq(ByteSet) /\ Len(x) \in 1..4 /\ x[1] = <<c, 1>>  BY <2>4
    <3>2. Len(<<>>) = 0  OBVIOUS
    <3>3. x # <<>>  BY <3>1, <3>2
    <3> HIDE DEF x
    <3>4. Head(x) = x[1]  BY <3>1, <3>3, HeadTailProperties
    <3> QED  BY <3>1, <3>3, <3>4
  <2>6. TimeOf(x, Nothing) = c - 48
    <3>1. Head(x)[1] = c  BY <2>5
    <3> HIDE DEF x
    <3> QED  BY <2>5, <3>1, Zenon DEF TimeOf
  <2>7. c - 48 = t  OBVIOUS
  <2> QED  BY <2>2, <2>3, <2>5, <2>6, <2>7
<1>3. Date(0) \in Texts  BY <1>1, <1>2
<1> QED  BY <1>2, <1>3

\* An association is a folder or none.
LEMMA AssociationIs == ASSUME NEW e PROVE AssociationType(e) \in {0, 1}
BY DEF AssociationType

\* The values of the properties of an object: any can be put, and what the codec carries comes back.
LEMMA ValueItem ==
  ASSUME NEW e, EntryOK(e), NEW p \in ObjectCodes, NEW h \in Int
  PROVE  /\ <<TypeOf[p], ValueOf(p, h, e)>> \in LooseItems /\ TypeOf[p] \in {UINT16, UINT32, UINT128, STR}
         /\ Fits(e) /\ h \in 0..(Long - 1) =>
              <<TypeOf[p], ValueOf(p, h, e)>> \in SoundItems /\ ValueOf(p, h, e) \in Values(TypeOf[p])
<1> DEFINE v == ValueOf(p, h, e)
           Right(t) == t \in {UINT16, UINT32, UINT128, STR} /\ v \in Loose(t)
                       /\ (Fits(e) /\ h \in 0..(Long - 1) => v \in Values(t))
<1>1. /\ e.storage = Storage /\ e.parent \in 0..MaxHandle /\ e.format \in Values(UINT16) /\ e.size \in Nat
      /\ e.name \in Names /\ e.modified \in Int /\ 48 + e.modified \in Chars
  BY DEF EntryOK
<1>2. Date(0) \in Texts /\ Date(e.modified) \in Texts /\ \A x \in Texts : x \in Seq(ByteSet)
  <2>1. STR \in Types  BY ValuesAre
  <2>2. \A x \in Values(STR) : x \in Loose(STR)  BY <2>1, ValuesLoose
  <2> QED  BY <1>1, <2>2, DateIs, ValuesAre
<1>3. e.name \in Seq(ByteSet) /\ (Fits(e) => e.name \in Texts)
  BY <1>1, NameBytes, CarriedName DEF Fits
<1>4. Fits(e) => e.size \in 0..(Long - 1)  BY <1>1, ModulusIs DEF Fits
<1>5. /\ Storage \in 0..(Long - 1) /\ 0..MaxHandle \in SUBSET (0..(Long - 1)) /\ 0 \in Values(UINT16)
      /\ 1 \in Values(UINT16) /\ 0 \in Values(UINT32)
  <2>1. Long \in Nat /\ Long > 65536 /\ MaxHandle \in 4..(Long - 2) /\ Modulus(2) = 65536  BY ModulusIs, PacketsAssumption
  <2> QED  BY <2>1, ValuesAre, SMT DEF Storage
<1>6. CASE p \in {FileName, DisplayName}
  <2>1. v = e.name /\ TypeOf[p] = STR  BY <1>6, ValueOfIs, TypesAre
  <2>2. Right(STR)  BY <2>1, <1>3, ValuesAre
  <2> QED  BY <2>1, <2>2, LooseItemIs, SoundItemIs, ValuesAre
<1>7. CASE p \in {Created, Modified}
  <2>1. v \in {Date(0), Date(e.modified)} /\ TypeOf[p] = STR  BY <1>7, ValueOfIs, TypesAre
  <2>2. Right(STR)  BY <2>1, <1>2, ValuesAre
  <2> QED  BY <2>1, <2>2, LooseItemIs, SoundItemIs, ValuesAre
<1>8. CASE p = UID
  <2>1. v = h /\ TypeOf[p] = UINT128  BY <1>8, ValueOfIs, TypesAre
  <2>2. Right(UINT128)  BY <2>1, ValuesAre
  <2> QED  BY <2>1, <2>2, LooseItemIs, SoundItemIs, ValuesAre
<1>9. CASE p \in {StorageID, Parent, Size, AssocDesc}
  <2>1. v \in {e.storage, e.parent, e.size, 0} /\ TypeOf[p] = UINT32  BY <1>9, ValueOfIs, TypesAre
  <2>2. v \in Int /\ (Fits(e) => v \in 0..(Long - 1))
    <3> DEFINE Good(x) == x \in Int /\ (Fits(e) => x \in 0..(Long - 1))
    <3>1. Good(e.storage)  BY <1>1, <1>5
    <3>2. Good(e.parent)  BY <1>1, <1>5
    <3>3. Good(e.size)  BY <1>1, <1>4
    <3>4. Good(0)  BY ModulusIs
    <3> HIDE DEF Good, v
    <3>5. Good(v)  BY <2>1, <3>1, <3>2, <3>3, <3>4
    <3> QED  BY <3>5 DEF Good
  <2>3. Right(UINT32)  BY <2>2, ValuesAre
  <2> QED  BY <2>1, <2>3, LooseItemIs, SoundItemIs, ValuesAre
<1>10. CASE p \in {Format, AssocType, Protection, Hidden, NonConsumed}
  <2>1. v \in {e.format, AssociationType(e), 0, 1} /\ TypeOf[p] = UINT16  BY <1>10, ValueOfIs, TypesAre
  <2>2. v \in Values(UINT16)  BY <2>1, <1>1, <1>5, AssociationIs
  <2>3. Right(UINT16)  BY <2>2, ValuesAre, ValuesLoose, SMTT(40)
  <2> QED  BY <2>1, <2>3, LooseItemIs, SoundItemIs, ValuesAre
<1> QED  BY <1>6, <1>7, <1>8, <1>9, <1>10 DEF ObjectCodes

-----------------------------------------------------------------------------
(* The descriptions as items.                                              *)

\* A code is a number of two bytes.
LEMMA CodeRange == \A v \in Codes16 : v \in 0..(Modulus(2) - 1) /\ v \in 0..(Long - 1)
<1>1. /\ Modulus(2) = 65536 /\ Long \in Nat /\ Long > 65536 /\ Byte \in Nat /\ Byte > 2
      /\ Modulus(1) = Byte
  BY ModulusIs
<1> QED  BY ONLY <1>1, SMTT(40) DEF Codes16

\* Small numbers and constant texts come back.
LEMMA SmallItems ==
  /\ \A v \in Codes16 : <<UINT16, v>> \in SoundItems /\ <<UINT32, v>> \in SoundItems
  /\ \A v \in 0..(Long - 1) : <<UINT32, v>> \in SoundItems
  /\ \A c \in Chars : <<STR, Char(c)>> \in SoundItems
  /\ <<STR, <<>>>> \in SoundItems /\ <<UINT8, 0>> \in SoundItems /\ <<UINT8, 1>> \in SoundItems
<1>1. /\ \A v \in Codes16 : v \in Values(UINT16) /\ v \in Values(UINT32)
      /\ 0 \in Values(UINT8) /\ 1 \in Values(UINT8)
  <2>1. /\ Modulus(2) = 65536 /\ Long \in Nat /\ Long > 65536 /\ Byte \in Nat /\ Byte > 2
        /\ Modulus(1) = Byte
    BY ModulusIs
  <2>2. \A v \in Codes16 : v \in 0..(Modulus(2) - 1) /\ v \in 0..(Long - 1)
    BY ONLY <2>1, SMTT(40) DEF Codes16
  <2>3. 0 \in 0..(Byte - 1) /\ 1 \in 0..(Byte - 1)  BY ONLY <2>1, SMT
  <2>4. /\ Values(UINT16) = 0..(Modulus(2) - 1) /\ Values(UINT32) = 0..(Long - 1)
        /\ Values(UINT8) = 0..(Byte - 1)
    BY ValuesAre
  <2> QED  BY ONLY <2>2, <2>3, <2>4, Zenon
<1>2. /\ \A c \in Chars : Char(c) \in Values(STR)
      /\ <<>> \in Values(STR)
  BY ValuesAre, CharCarried, NoText
<1>3. \A v \in Codes16 : <<UINT16, v>> \in SoundItems /\ <<UINT32, v>> \in SoundItems
  BY <1>1, SoundItemIs, ValuesAre
<1>4. \A v \in 0..(Long - 1) : <<UINT32, v>> \in SoundItems
  BY SoundItemIs, ValuesAre
<1>5. \A c \in Chars : <<STR, Char(c)>> \in SoundItems
  BY <1>2, SoundItemIs, ValuesAre
<1>6. <<STR, <<>>>> \in SoundItems /\ <<UINT8, 0>> \in SoundItems /\ <<UINT8, 1>> \in SoundItems
  BY <1>1, <1>2, SoundItemIs, ValuesAre
<1> QED  BY <1>3, <1>4, <1>5, <1>6

\* A short array of codes.
LEMMA CodeArray ==
  ASSUME NEW a \in Seq(Codes16), Len(a) <= 65536
  PROVE  <<AUINT16, a>> \in SoundItems
<1>1. AUINT16 \in DOMAIN Element /\ Parts[Element[AUINT16]] = <<2>>  BY PartsAre, ElementIs
<1>2. ElementModulus(AUINT16) = Modulus(2)  BY <1>1 DEF ElementModulus
<1>3. a \in Seq(Nat)
  <2>1. Codes16 \in SUBSET Nat  BY ONLY SMT DEF Codes16
  <2>2. Seq(Codes16) \in SUBSET Seq(Nat)  BY ONLY <2>1, SeqMonotonic, Zenon
  <2> QED  BY ONLY <2>2, a \in Seq(Codes16), ZenonT(60)
<1>4. \A i \in 1..Len(a) : a[i] < Modulus(2)
  <2>1. \A i \in 1..Len(a) : a[i] \in Codes16
    <3> SUFFICES ASSUME NEW i \in 1..Len(a) PROVE a[i] \in Codes16  OBVIOUS
    <3> QED  BY LenProperties
  <2>2. Modulus(2) = 65536  BY ModulusIs
  <2>3. \A v \in Codes16 : v < Modulus(2)
    <3>1. \A v \in Codes16 : v \in 0..(Modulus(2) - 1)  BY CodeRange
    <3>2. Modulus(2) \in Nat  BY <2>2
    <3> QED  BY ONLY <3>1, <3>2, SMT
  <2> QED  BY ONLY <2>1, <2>3, Zenon
<1>5. Len(a) < Long
  <2>1. Len(a) \in Nat  BY LenProperties
  <2> QED  BY <2>1, ModulusIs, SMT
<1>6. a \in Arrays(AUINT16)  BY <1>2, <1>3, <1>4, <1>5 DEF Arrays
<1>7. a \in Values(AUINT16) /\ AUINT16 \in Types  BY <1>1, <1>6, TypesDiffer, ValuesAre DEF Values
<1> QED  BY <1>7, SoundItemIs

\* The lists of codes come back.
LEMMA CodeLists ==
  /\ <<AUINT16, OperationCodes>> \in SoundItems /\ <<AUINT16, EventCodes>> \in SoundItems
  /\ <<AUINT16, DeviceProperties>> \in SoundItems /\ <<AUINT16, CaptureFormats>> \in SoundItems
  /\ <<AUINT16, PlaybackFormats>> \in SoundItems /\ <<AUINT16, ObjectProperties>> \in SoundItems
<1>1. OperationCodes \in Seq(Codes16) /\ Len(OperationCodes) <= 65536
  <2>1. OperationCodes \in Seq(Codes16)  BY ONLY SMTT(40) DEF OperationCodes, Codes16
  <2>2. Len(OperationCodes) = 31  BY ONLY SMT DEF OperationCodes
  <2> QED  BY <2>1, <2>2, SMTT(40)
<1>2. EventCodes \in Seq(Codes16) /\ Len(EventCodes) <= 65536
  <2>1. EventCodes \in Seq(Codes16)  BY ONLY SMT DEF EventCodes, Codes16
  <2>2. Len(EventCodes) = 6  BY ONLY SMT DEF EventCodes
  <2> QED  BY <2>1, <2>2
<1>3. DeviceProperties \in Seq(Codes16) /\ Len(DeviceProperties) <= 65536
  <2>1. DeviceProperties \in Seq(Codes16)  BY ONLY SMT DEF DeviceProperties, Codes16, Friendly, Partner
  <2>2. Len(DeviceProperties) = 2  BY ONLY SMT DEF DeviceProperties
  <2> QED  BY <2>1, <2>2
<1>4. CaptureFormats \in Seq(Codes16) /\ Len(CaptureFormats) <= 65536
  <2>1. CaptureFormats \in Seq(Codes16)  BY ONLY SMT DEF CaptureFormats, Codes16, Folder
  <2>2. Len(CaptureFormats) = 2  BY ONLY SMT DEF CaptureFormats
  <2> QED  BY <2>1, <2>2
<1>5. PlaybackFormats \in Seq(Codes16) /\ Len(PlaybackFormats) <= 65536
  <2>1. PlaybackFormats \in Seq(Codes16)  BY ONLY SMT DEF PlaybackFormats, Codes16, File, Folder
  <2>2. Len(PlaybackFormats) = 23  BY ONLY SMT DEF PlaybackFormats
  <2> QED  BY <2>1, <2>2, SMTT(40)
<1>6. ObjectProperties \in Seq(Codes16) /\ Len(ObjectProperties) <= 65536
  <2>1. ObjectProperties \in Seq(Codes16)
    BY ONLY SMT DEF ObjectProperties, Codes16, StorageID, Parent, Format, Size, FileName, DisplayName, UID, AssocType,
                    AssocDesc, Protection, Created, Modified, Hidden, NonConsumed
  <2>2. Len(ObjectProperties) = 14  BY ONLY SMT DEF ObjectProperties
  <2> QED  BY <2>1, <2>2, SMTT(40)
<1> QED  BY <1>1, <1>2, <1>3, <1>4, <1>5, <1>6, CodeArray

\* The constant texts.
LEMMA WordItems ==
  /\ <<STR, Switch>> \in SoundItems /\ <<STR, SdCard>> \in SoundItems
  /\ <<STR, Words[1]>> \in SoundItems /\ <<STR, Words[2]>> \in SoundItems /\ <<STR, Words[3]>> \in SoundItems
  /\ <<STR, Words[4]>> \in SoundItems /\ <<STR, Words[5]>> \in SoundItems
<1>1. 83 \in Chars /\ 68 \in Chars /\ 109 \in Chars /\ 78 \in Chars /\ 49 \in Chars /\ 63 \in Chars
  BY ModulusIs DEF Chars
<1>2. /\ Words[1] = Char(109) /\ Words[2] = Char(78) /\ Words[3] = Char(83) /\ Words[4] = Char(49)
      /\ Words[5] = Char(63)
  <2> DEFINE a == Char(109)
             b == Char(78)
             c == Char(83)
             d == Char(49)
             e == Char(63)
  <2>1. Words = <<a, b, c, d, e>>  BY DEF Words
  <2> HIDE DEF a, b, c, d, e
  <2>2. Words[1] = a /\ Words[2] = b /\ Words[3] = c /\ Words[4] = d /\ Words[5] = e  BY <2>1
  <2> QED  BY <2>2 DEF a, b, c, d, e
<1> QED  BY <1>1, <1>2, SmallItems DEF Switch, SdCard

\* Fourteen items.
LEMMA DeviceItems ==
  DeviceInfo \in Seq(SoundItems) /\ Len(DeviceInfo) = 14 /\ DOMAIN DeviceInfo = 1..14
<1> DEFINE x1 == <<UINT16, 100>>
           x2 == <<UINT32, 6>>
           x4 == <<STR, Words[1]>>
           x5 == <<UINT16, 0>>
           x6 == <<AUINT16, OperationCodes>>
           x7 == <<AUINT16, EventCodes>>
           x8 == <<AUINT16, DeviceProperties>>
           x9 == <<AUINT16, CaptureFormats>>
           x10 == <<AUINT16, PlaybackFormats>>
           x11 == <<STR, Words[2]>>
           x12 == <<STR, Words[3]>>
           x13 == <<STR, Words[4]>>
           x14 == <<STR, Words[5]>>
<1>1. 100 \in Codes16 /\ 6 \in Codes16 /\ 0 \in Codes16  BY ONLY SMT DEF Codes16
<1>2. DeviceInfo = <<x1, x2, x1, x4, x5, x6, x7, x8, x9, x10, x11, x12, x13, x14>>  BY DEF DeviceInfo
<1>3. /\ x1 \in SoundItems /\ x2 \in SoundItems /\ x4 \in SoundItems /\ x5 \in SoundItems /\ x6 \in SoundItems
      /\ x7 \in SoundItems /\ x8 \in SoundItems /\ x9 \in SoundItems /\ x10 \in SoundItems /\ x11 \in SoundItems
      /\ x12 \in SoundItems /\ x13 \in SoundItems /\ x14 \in SoundItems
  BY <1>1, SmallItems, WordItems, CodeLists
<1> HIDE DEF x1, x2, x4, x5, x6, x7, x8, x9, x10, x11, x12, x13, x14
<1> QED  BY ONLY <1>2, <1>3, SMT

\* Eight items; the sizes are numbers of eight bytes.
LEMMA StorageItems ==
  StorageInfo \in Seq(SoundItems) /\ Len(StorageInfo) = 8 /\ DOMAIN StorageInfo = 1..8
<1> DEFINE kib == 1024
           x1 == <<UINT16, 3>>
           x2 == <<UINT16, 2>>
           x3 == <<UINT16, 0>>
           x4 == <<UINT64, Blocks[1]>>
           x5 == <<UINT64, Blocks[2]>>
           x6 == <<UINT32, kib>>
           x7 == <<STR, SdCard>>
           x8 == <<STR, <<>>>>
<1>1. 3 \in Codes16 /\ 2 \in Codes16 /\ 0 \in Codes16 /\ kib \in Codes16  BY ONLY SMT DEF Codes16
<1>2. StorageInfo = <<x1, x2, x3, x4, x5, x6, x7, x8>>  BY DEF StorageInfo
<1>3. Blocks[1] \in Values(UINT64) /\ Blocks[2] \in Values(UINT64) /\ UINT64 \in Types
  <2>1. \A t \in {UINT64, UINT128} : \A m \in 0..(Long - 1) : m * Long \in Numbers(t)
    <3> TAKE t \in {UINT64, UINT128}
    <3>1. t \notin {UINT8, UINT16, UINT32}  BY DEF UINT8, UINT16, UINT32, UINT64, UINT128
    <3>2. Numbers(t) = {x[1] + Long * x[2] : x \in (0..(Long - 1)) \X (0..(Long - 1))}  BY <3>1, Zenon DEF Numbers
    <3> TAKE m \in 0..(Long - 1)
    <3>3. Long \in Nat /\ Long > 0  BY ModulusIs
    <3> DEFINE x == <<0, m>>
    <3>4. x \in (0..(Long - 1)) \X (0..(Long - 1)) /\ x[1] = 0 /\ x[2] = m  BY <3>3
    <3>5. x[1] + Long * x[2] = m * Long  BY <3>3, <3>4
    <3> QED  BY <3>2, <3>4, <3>5
  <2>2. Values(UINT64) = Numbers(UINT64) /\ UINT64 \in Types
    <3>1. UINT64 \in DOMAIN Parts  BY PartsAre
    <3> QED  BY <3>1, TypesDiffer DEF Values, Types
  <2>3. 3 \in 0..(Long - 1) /\ 2 \in 0..(Long - 1)  BY ModulusIs
  <2>4. Blocks[1] = 3 * Long /\ Blocks[2] = 2 * Long  BY DEF Blocks
  <2> QED  BY <2>1, <2>2, <2>3, <2>4
<1>4. /\ x1 \in SoundItems /\ x2 \in SoundItems /\ x3 \in SoundItems /\ x4 \in SoundItems /\ x5 \in SoundItems
      /\ x6 \in SoundItems /\ x7 \in SoundItems /\ x8 \in SoundItems
  <2>1. x4 \in SoundItems /\ x5 \in SoundItems  BY <1>3, SoundItemIs
  <2>4. \A v \in Codes16 : <<UINT16, v>> \in SoundItems /\ <<UINT32, v>> \in SoundItems  BY SmallItems
  <2>2. x1 \in SoundItems /\ x2 \in SoundItems /\ x3 \in SoundItems /\ x6 \in SoundItems
    <3> HIDE DEF kib
    <3>1. x1 \in SoundItems  BY ONLY <1>1, <2>4, Zenon
    <3>2. x2 \in SoundItems  BY ONLY <1>1, <2>4, Zenon
    <3>3. x3 \in SoundItems  BY ONLY <1>1, <2>4, Zenon
    <3>4. x6 \in SoundItems  BY ONLY <1>1, <2>4, Zenon
    <3> QED  BY <3>1, <3>2, <3>3, <3>4
  <2>3. x7 \in SoundItems /\ x8 \in SoundItems  BY SmallItems, WordItems
  <2> QED  BY <2>1, <2>2, <2>3
<1> HIDE DEF x1, x2, x3, x4, x5, x6, x7, x8
<1> QED  BY ONLY <1>2, <1>4, SMT

\* One element behind a sequence.
LEMMA PutBehind ==
  ASSUME NEW S, NEW s \in Seq(S), NEW t \in Seq(S), NEW e \in S, NEW n \in Nat, Len(s) = n, Len(t) = n + 1,
         \A i \in 1..n : t[i] = s[i], t[n + 1] = e
  PROVE  s \o <<e>> = t
<1> DEFINE u == Append(s, e)
<1>1. u \in Seq(S) /\ Len(u) = n + 1 /\ u[n + 1] = e /\ \A i \in 1..n : u[i] = s[i]  BY AppendProperties
<1>2. u = s \o <<e>>  BY AppendIsConcat
<1> HIDE DEF u
<1>3. \A i \in 1..(n + 1) : u[i] = t[i]  BY <1>1
<1>4. u = t  BY <1>1, <1>3, SeqEqual
<1> QED  BY <1>2, <1>4

\* The parts of a description are joined.
LEMMA SixJoined ==
  ASSUME NEW S, NEW a \in S, NEW b \in S, NEW c \in S, NEW d \in S, NEW e \in S, NEW f \in S
  PROVE  <<a, b, c, d>> \o <<e>> = <<a, b, c, d, e>> /\ <<a, b, c, d, e>> \o <<f>> = <<a, b, c, d, e, f>>
<1> DEFINE s == <<a, b, c, d>>
           t == <<a, b, c, d, e>>
           u == <<a, b, c, d, e, f>>
<1>1. s \in Seq(S) /\ Len(s) = 4 /\ s[1] = a /\ s[2] = b /\ s[3] = c /\ s[4] = d  OBVIOUS
<1>2. t \in Seq(S) /\ Len(t) = 5 /\ t[1] = a /\ t[2] = b /\ t[3] = c /\ t[4] = d /\ t[5] = e  OBVIOUS
<1>3. u \in Seq(S) /\ Len(u) = 6 /\ u[1] = a /\ u[2] = b /\ u[3] = c /\ u[4] = d /\ u[5] = e /\ u[6] = f  OBVIOUS
<1> HIDE DEF s, t, u
<1> DEFINE Goal(x, y, z) == x \o <<z>> = y
<1>4. ASSUME NEW x \in Seq(S), NEW y \in Seq(S), NEW z \in S, NEW n \in Nat, Len(x) = n, Len(y) = n + 1,
             \A i \in 1..n : y[i] = x[i], y[n + 1] = z
      PROVE  Goal(x, y, z)
  BY <1>4, PutBehind
<1> HIDE DEF Goal
<1>5. PICK n \in Nat : n = 4  OBVIOUS
<1>6. Len(s) = n /\ Len(t) = n + 1 /\ (\A i \in 1..n : t[i] = s[i]) /\ t[n + 1] = e
  BY ONLY <1>1, <1>2, <1>5, SMT
<1>7. Len(t) = n + 1 /\ Len(u) = n + 2 /\ (\A i \in 1..(n + 1) : u[i] = t[i]) /\ u[n + 2] = f
  BY ONLY <1>2, <1>3, <1>5, SMT
<1>8. Goal(s, t, e)  BY <1>1, <1>2, <1>4, <1>6
<1>9. Goal(t, u, f)
  <2>1. PICK m \in Nat : m = n + 1  BY <1>5
  <2>2. Len(t) = m /\ Len(u) = m + 1 /\ (\A i \in 1..m : u[i] = t[i]) /\ u[m + 1] = f  BY ONLY <1>7, <2>1, SMT
  <2> QED  BY <1>2, <1>3, <1>4, <2>2
<1> QED  BY <1>8, <1>9, Zenon DEF s, t, u, Goal

\* A description of a property: its parts by the class of its code.
LEMMA PropertyItemsAre ==
  ASSUME NEW code \in Codes16, NEW t \in {UINT16, UINT32, UINT128, STR}, NEW w
  PROVE  LET v == DefaultValue(t)
             a == <<UINT16, code>>
             b == <<UINT16, t>>
             c == <<UINT8, IF w THEN 1 ELSE 0>>
             d == <<t, v>>
             e == <<UINT32, 0>>
             f == <<UINT8, 0>>
         IN  /\ a \in SoundItems /\ b \in SoundItems /\ c \in SoundItems /\ d \in SoundItems
             /\ e \in SoundItems /\ f \in SoundItems
             /\ PropertyItems(code, t, w) = IF IsDeviceProperty(code) THEN <<a, b, c, d, d, e>> ELSE <<a, b, c, d, e, f>>
<1> DEFINE v == DefaultValue(t)
           a == <<UINT16, code>>
           b == <<UINT16, t>>
           c == <<UINT8, IF w THEN 1 ELSE 0>>
           d == <<t, v>>
           e == <<UINT32, 0>>
           f == <<UINT8, 0>>
<1>1. t \in Codes16 /\ 0 \in Codes16
  <2>1. UINT16 \in Codes16 /\ UINT32 \in Codes16 /\ UINT128 \in Codes16 /\ STR \in Codes16 /\ 0 \in Codes16
    BY ONLY SMT DEF UINT16, UINT32, UINT128, STR, Codes16
  <2> QED  BY <2>1, SMTT(40)
<1>2. a \in SoundItems /\ b \in SoundItems /\ e \in SoundItems
  <2>1. \A x \in Codes16 : <<UINT16, x>> \in SoundItems /\ <<UINT32, x>> \in SoundItems  BY SmallItems
  <2> QED  BY <1>1, <2>1, Zenon
<1>3. c \in SoundItems /\ f \in SoundItems  BY SmallItems, Zenon
<1>4. d \in SoundItems
  <2>1. CASE t = STR
    <3>1. v = <<>>  BY <2>1 DEF DefaultValue
    <3> QED  BY <2>1, <3>1, SmallItems, Zenon
  <2>2. CASE t # STR
    <3>1. v = 0  BY <2>2 DEF DefaultValue
    <3>2. v \in Values(t)  BY <2>2, <3>1, ValuesAre, ModulusIs
    <3>3. t \in Types  BY ValuesAre
    <3> QED  BY <3>2, <3>3, SoundItemIs
  <2> QED  BY <2>1, <2>2
<1>6. /\ a \in SoundItems /\ b \in SoundItems /\ c \in SoundItems /\ d \in SoundItems
      /\ e \in SoundItems /\ f \in SoundItems
  BY <1>2, <1>3, <1>4
<1>5. PropertyItems(code, t, w) = IF IsDeviceProperty(code) THEN <<a, b, c, d, d, e>> ELSE <<a, b, c, d, e, f>>
  <2>1. PropertyItems(code, t, w) = <<a, b, c, d>> \o (IF IsDeviceProperty(code) THEN <<d>> ELSE <<>>) \o <<e>>
                                    \o (IF IsDeviceProperty(code) THEN <<>> ELSE <<f>>)
    BY Zenon DEF PropertyItems
  <2> HIDE DEF a, b, c, d, e, f
  <2>2. CASE IsDeviceProperty(code)
    <3>1. <<a, b, c, d>> \o <<d>> = <<a, b, c, d, d>> /\ <<a, b, c, d, d>> \o <<e>> = <<a, b, c, d, d, e>>
      BY ONLY <1>6, SixJoined
    <3>2. <<a, b, c, d, d, e>> \in Seq(SoundItems)  BY <1>6, SMT
    <3>3. <<a, b, c, d, d, e>> \o <<>> = <<a, b, c, d, d, e>>  BY <3>2, ConcatEmptySeq
    <3> QED  BY <2>1, <2>2, <3>1, <3>3, Zenon
  <2>3. CASE ~IsDeviceProperty(code)
    <3>1. <<a, b, c, d>> \o <<e>> = <<a, b, c, d, e>> /\ <<a, b, c, d, e>> \o <<f>> = <<a, b, c, d, e, f>>
      BY ONLY <1>6, SixJoined
    <3>2. <<a, b, c, d>> \in Seq(SoundItems)  BY <1>6, SMT
    <3>3. <<a, b, c, d>> \o <<>> = <<a, b, c, d>>  BY <3>2, ConcatEmptySeq
    <3> QED  BY <2>1, <2>3, <3>1, <3>3, Zenon
  <2> QED  BY <2>2, <2>3
<1> HIDE DEF v
<1> QED  BY <1>2, <1>3, <1>4, <1>5, Zenon DEF v

\* They come back.
LEMMA PropertyItemsSound ==
  ASSUME NEW code \in Codes16, NEW t \in {UINT16, UINT32, UINT128, STR}, NEW w
  PROVE  PropertyItems(code, t, w) \in Seq(SoundItems)
<1> DEFINE v == DefaultValue(t)
           a == <<UINT16, code>>
           b == <<UINT16, t>>
           c == <<UINT8, IF w THEN 1 ELSE 0>>
           d == <<t, v>>
           e == <<UINT32, 0>>
           f == <<UINT8, 0>>
<1>1. /\ a \in SoundItems /\ b \in SoundItems /\ c \in SoundItems /\ d \in SoundItems
      /\ e \in SoundItems /\ f \in SoundItems
      /\ PropertyItems(code, t, w) = IF IsDeviceProperty(code) THEN <<a, b, c, d, d, e>> ELSE <<a, b, c, d, e, f>>
  BY PropertyItemsAre, Zenon
<1> HIDE DEF a, b, c, d, e, f
<1>2. <<a, b, c, d, d, e>> \in Seq(SoundItems) /\ <<a, b, c, d, e, f>> \in Seq(SoundItems)  BY <1>1, SMT
<1> QED  BY <1>1, <1>2, Zenon

-----------------------------------------------------------------------------
(* What the database describes.                                            *)

\* Handles are given out in order, and what is known of the objects is what the card holds.
Database ==
  /\ \E n \in 1..MaxHandle : DOMAIN db = 2..n
  /\ \A h \in DOMAIN db : EntryOK(db[h])
  /\ DOMAIN card \subseteq DOMAIN db /\ \A h \in DOMAIN card : card[h] = db[h]

\* Handles are numbers of four bytes, and none is 0 or 0xFFFFFFFF.
LEMMA HandlesAre ==
  ASSUME Database
  PROVE  /\ \E n \in 1..MaxHandle : DOMAIN db \in SUBSET (1..n)
         /\ DOMAIN db \in SUBSET (2..MaxHandle) /\ DOMAIN db \in SUBSET (0..(Long - 1))
         /\ MaxHandle \in Nat /\ MaxHandle < Long - 1 /\ All \notin DOMAIN db /\ 0 \notin DOMAIN db
<1>1. MaxHandle \in Nat /\ MaxHandle < Long - 1 /\ Long \in Nat /\ All = Long - 1  BY PacketsAssumption, ModulusIs DEF All
<1>2. PICK n \in 1..MaxHandle : DOMAIN db = 2..n  BY DEF Database
<1>3. DOMAIN db \in SUBSET (1..n)  BY <1>2
<1> QED  BY <1>1, <1>2, <1>3

\* A list of handles comes back.
LEMMA HandleList ==
  ASSUME Database, NEW S \in SUBSET (DOMAIN db)
  PROVE  /\ <<AUINT32, InOrder(S)>> \in SoundItems
         /\ InOrder(S) \in Seq(DOMAIN db) /\ Range(InOrder(S)) = S
         /\ Cardinality(S) \in Nat /\ Len(InOrder(S)) = Cardinality(S) /\ Len(InOrder(S)) <= MaxHandle
         /\ \A i \in 1..Cardinality(S) : InOrder(S)[i] \in S
         /\ \A x \in S : \E i \in 1..Cardinality(S) : InOrder(S)[i] = x
<1>1. PICK n \in 1..MaxHandle : DOMAIN db \in SUBSET (1..n)  BY HandlesAre
<1>2. n \in Nat /\ n <= MaxHandle /\ MaxHandle \in Nat /\ MaxHandle < Long /\ Long \in Nat  BY HandlesAre, ModulusIs
<1>3. S \in SUBSET (1..n)  BY <1>1
<1> DEFINE a == InOrder(S)
           k == Cardinality(S)
<1>4. /\ k \in Nat /\ k <= n /\ a \in Seq(S) /\ Len(a) = k
      /\ \A x \in S : \E i \in 1..k : a[i] = x
      /\ \A i \in 1..k : a[i] \in S
  BY <1>2, <1>3, InOrderIs
<1> HIDE DEF a, k
<1>5. a \in Seq(Nat) /\ a \in Seq(DOMAIN db)
  <2>1. S \in SUBSET Nat  BY <1>3
  <2> QED  BY <1>4, <2>1, SeqMonotonic
<1>6. \A i \in 1..Len(a) : a[i] < Long
  <2>1. \A x \in S : x < Long  BY <1>2, <1>3
  <2> QED  BY <1>4, <2>1
<1>7. ElementModulus(AUINT32) = Long
  <2>1. AUINT32 \in DOMAIN Element /\ Parts[Element[AUINT32]] = <<4>>  BY PartsAre, ElementIs
  <2> QED  BY <2>1, ModulusIs DEF ElementModulus
<1>8. a \in Arrays(AUINT32)  BY <1>2, <1>4, <1>5, <1>6, <1>7 DEF Arrays
<1>9. <<AUINT32, a>> \in SoundItems
  <2>1. AUINT32 \in DOMAIN Element  BY ElementIs
  <2>2. a \in Values(AUINT32) /\ AUINT32 \in Types  BY <2>1, <1>8, TypesDiffer, ValuesAre DEF Values
  <2> QED  BY <2>2, SoundItemIs
<1>10. Range(a) = S
  <2>1. DOMAIN a = 1..k  BY <1>4, LenProperties
  <2>2. \A x : x \in Range(a) <=> \E i \in 1..k : x = a[i]  BY <2>1 DEF Range
  <2>3. \A x : x \in Range(a) <=> x \in S  BY <2>2, <1>4
  <2> HIDE DEF a
  <2> QED  BY ONLY <2>3, Zenon
<1>11. k <= MaxHandle  BY <1>2, <1>4
<1> QED  BY <1>4, <1>5, <1>9, <1>10, <1>11 DEF a, k

-----------------------------------------------------------------------------
(* The description of an object.                                           *)

\* The types of the dataset of an object.
LEMMA LayoutIs ==
  /\ DOMAIN ObjectLayout = 1..19 /\ Len(ObjectLayout) = 19
  /\ \A i \in 1..15 : ObjectLayout[i] \in {UINT16, UINT32}
  /\ \A i \in {16, 17, 18, 19} : ObjectLayout[i] = STR
  /\ ObjectLayout[1] = UINT32 /\ ObjectLayout[2] = UINT16 /\ ObjectLayout[4] = UINT32
  /\ ObjectLayout[12] = UINT32 /\ ObjectLayout[13] = UINT16
<1>1. DOMAIN ObjectLayout = 1..19 /\ Len(ObjectLayout) = 19  BY DEF ObjectLayout
<1>2. /\ ObjectLayout[12] = UINT32 /\ ObjectLayout[13] = UINT16 /\ ObjectLayout[16] = STR /\ ObjectLayout[17] = STR
      /\ ObjectLayout[18] = STR /\ ObjectLayout[19] = STR
  BY DEF ObjectLayout
<1> QED  BY <1>1, <1>2, LayoutStart DEF Layout15

\* What the dataset of an object is filled with.
LEMMA InfoIs ==
  ASSUME NEW e
  PROVE  /\ Info(e)[1] = e.storage /\ Info(e)[2] = e.format /\ Info(e)[4] = e.size /\ Info(e)[12] = e.parent
         /\ Info(e)[13] = AssociationType(e) /\ Info(e)[16] = e.name /\ Info(e)[17] = <<>>
         /\ Info(e)[18] = Date(e.modified) /\ Info(e)[19] = <<>>
         /\ \A i \in 1..15 : i \notin {1, 2, 4, 12, 13} => Info(e)[i] = 0
<1>1. /\ DOMAIN Blank = 1..19 /\ \A i \in 1..15 : Blank[i] = 0
      /\ Blank[17] = <<>> /\ Blank[19] = <<>>
  <2>1. UINT16 # STR /\ UINT32 # STR  BY DEF UINT16, UINT32, STR
  <2>2. DOMAIN Blank = 1..19 /\ \A i \in 1..19 : Blank[i] = IF ObjectLayout[i] = STR THEN <<>> ELSE 0  BY LayoutIs DEF Blank
  <2>3. 17 \in 1..19 /\ 19 \in 1..19 /\ \A i \in 1..15 : i \in 1..19  OBVIOUS
  <2> QED  BY <2>1, <2>2, <2>3, LayoutIs
<1> DEFINE B == Blank
           s == e.storage
           f == e.format
           z == e.size
           p == e.parent
           a == AssociationType(e)
           n == e.name
           d == Date(e.modified)
<1>2. Info(e) = [B EXCEPT ![1] = s, ![2] = f, ![4] = z, ![12] = p, ![13] = a, ![16] = n, ![18] = d]  BY DEF Info
<1>3. DOMAIN B = 1..19 /\ (\A i \in 1..15 : B[i] = 0) /\ B[17] = <<>> /\ B[19] = <<>>  BY <1>1
<1> HIDE DEF B, s, f, z, p, a, n, d
<1> DEFINE g == [B EXCEPT ![1] = s, ![2] = f, ![4] = z, ![12] = p, ![13] = a, ![16] = n, ![18] = d]
<1>4. /\ g[1] = s /\ g[2] = f /\ g[4] = z /\ g[12] = p /\ g[13] = a /\ g[16] = n /\ g[17] = B[17]
      /\ g[18] = d /\ g[19] = B[19]
      /\ \A i \in 1..15 : i \notin {1, 2, 4, 12, 13} => g[i] = B[i]
  BY <1>3
<1> HIDE DEF g
<1>5. Info(e) = g  BY <1>2 DEF g
<1>6. /\ Info(e)[1] = s /\ Info(e)[2] = f /\ Info(e)[4] = z /\ Info(e)[12] = p
      /\ Info(e)[13] = a /\ Info(e)[16] = n /\ Info(e)[17] = <<>>
      /\ Info(e)[18] = d /\ Info(e)[19] = <<>>
      /\ \A i \in 1..15 : i \notin {1, 2, 4, 12, 13} => Info(e)[i] = 0
  BY <1>3, <1>4, <1>5
<1> QED  BY <1>6, Zenon DEF s, f, z, p, a, n, d

\* What is known of an object, as values.
LEMMA EntryValues ==
  ASSUME NEW e, EntryOK(e)
  PROVE  /\ e.storage \in Values(UINT32) /\ e.parent \in Values(UINT32) /\ e.size \in Loose(UINT32)
         /\ (Fits(e) => e.size \in Values(UINT32)) /\ e.format \in Values(UINT16)
         /\ AssociationType(e) \in Values(UINT16) /\ 0 \in Values(UINT16) /\ 0 \in Values(UINT32)
         /\ e.name \in Loose(STR) /\ (Fits(e) => e.name \in Values(STR))
         /\ Date(e.modified) \in Values(STR) /\ <<>> \in Values(STR)
<1>1. /\ e.storage = Storage /\ e.parent \in 0..MaxHandle /\ e.format \in Values(UINT16) /\ e.size \in Nat
      /\ e.name \in Names /\ e.modified \in Int /\ 48 + e.modified \in Chars
  BY DEF EntryOK
<1>2. Date(e.modified) \in Texts /\ <<>> \in Texts  BY <1>1, DateIs, NoText
<1>3. e.name \in Seq(ByteSet) /\ (Fits(e) => e.name \in Texts)
  BY <1>1, NameBytes, CarriedName DEF Fits
<1>4. Fits(e) => e.size \in 0..(Long - 1)  BY <1>1, ModulusIs DEF Fits
<1>5. /\ Storage \in 0..(Long - 1) /\ 0..MaxHandle \in SUBSET (0..(Long - 1)) /\ 0 \in Values(UINT16)
      /\ 1 \in Values(UINT16) /\ 0 \in Values(UINT32)
  <2>1. Long \in Nat /\ Long > 65536 /\ MaxHandle \in 4..(Long - 2) /\ Modulus(2) = 65536  BY ModulusIs, PacketsAssumption
  <2> QED  BY <2>1, ValuesAre, SMT DEF Storage
<1>6. AssociationType(e) \in Values(UINT16)  BY <1>5, AssociationIs
<1>7. e.storage \in Values(UINT32) /\ e.parent \in Values(UINT32)  BY <1>1, <1>5, ValuesAre
<1>8. e.size \in Loose(UINT32) /\ (Fits(e) => e.size \in Values(UINT32))  BY <1>1, <1>4, ValuesAre
<1>9. e.name \in Loose(STR) /\ (Fits(e) => e.name \in Values(STR))  BY <1>3, ValuesAre
<1>10. Date(e.modified) \in Values(STR) /\ <<>> \in Values(STR)  BY <1>2, ValuesAre
<1> QED  BY <1>1, <1>5, <1>6, <1>7, <1>8, <1>9, <1>10

\* Nineteen items.
InfoItems(e) == [i \in 1..19 |-> <<ObjectLayout[i], Info(e)[i]>>]

\* The dataset of an object comes back if its name and its size do.
LEMMA InfoItemsAre ==
  ASSUME NEW e, EntryOK(e)
  PROVE  /\ InfoItems(e) \in Seq(LooseItems) /\ Len(InfoItems(e)) = 19
         /\ Fits(e) => InfoItems(e) \in Seq(SoundItems)
<1> DEFINE f == InfoItems(e)
<1>1. \A i \in 1..19 : i \in 1..15 \/ i \in {16, 17, 18, 19}  OBVIOUS
<1>2. ASSUME NEW i \in 1..19
      PROVE  /\ ObjectLayout[i] \in Types /\ Info(e)[i] \in Loose(ObjectLayout[i])
             /\ Fits(e) => Info(e)[i] \in Values(ObjectLayout[i])
  <2> DEFINE Goal(t, v) == t \in Types /\ v \in Loose(t) /\ (Fits(e) => v \in Values(t))
  <2>0. /\ UINT16 \in Types /\ UINT32 \in Types /\ STR \in Types
        /\ \A t \in Types : \A v \in Values(t) : v \in Loose(t)
    BY ValuesAre, ValuesLoose
  <2>1. /\ Goal(UINT32, e.storage) /\ Goal(UINT16, e.format) /\ Goal(UINT32, e.size) /\ Goal(UINT32, e.parent)
        /\ Goal(UINT16, AssociationType(e)) /\ Goal(UINT16, 0) /\ Goal(UINT32, 0)
        /\ Goal(STR, e.name) /\ Goal(STR, Date(e.modified)) /\ Goal(STR, <<>>)
    BY <2>0, EntryValues
  <2> DEFINE G == Goal(ObjectLayout[i], Info(e)[i])
  <2> HIDE DEF Goal, G
  <2>2. ASSUME i = 1 PROVE G  BY <2>1, <2>2, InfoIs, LayoutIs DEF G
  <2>3. ASSUME i = 2 PROVE G  BY <2>1, <2>3, InfoIs, LayoutIs DEF G
  <2>4. ASSUME i = 4 PROVE G  BY <2>1, <2>4, InfoIs, LayoutIs DEF G
  <2>5. ASSUME i = 12 PROVE G  BY <2>1, <2>5, InfoIs, LayoutIs DEF G
  <2>6. ASSUME i = 13 PROVE G  BY <2>1, <2>6, InfoIs, LayoutIs DEF G
  <2>7. ASSUME i = 16 PROVE G  BY <2>1, <2>7, InfoIs, LayoutIs DEF G
  <2>8. ASSUME i = 17 PROVE G  BY <2>1, <2>8, InfoIs, LayoutIs DEF G
  <2>9. ASSUME i = 18 PROVE G  BY <2>1, <2>9, InfoIs, LayoutIs DEF G
  <2>10. ASSUME i = 19 PROVE G  BY <2>1, <2>10, InfoIs, LayoutIs DEF G
  <2>11. ASSUME i \in 1..15, i \notin {1, 2, 4, 12, 13} PROVE G
    <3>1. Info(e)[i] = 0 /\ ObjectLayout[i] \in {UINT16, UINT32}  BY <2>11, InfoIs, LayoutIs
    <3>2. Goal(ObjectLayout[i], 0)  BY <3>1, <2>1
    <3> QED  BY <3>1, <3>2 DEF G
  <2>12. G  BY <1>1, <2>2, <2>3, <2>4, <2>5, <2>6, <2>7, <2>8, <2>9, <2>10, <2>11
  <2> QED  BY <2>12 DEF Goal, G
<1>3. \A i \in 1..19 : f[i] = <<ObjectLayout[i], Info(e)[i]>>  BY DEF InfoItems
<1>4. \A i \in 1..19 : f[i] \in LooseItems  BY <1>2, <1>3, LooseItemIs
<1>5. Fits(e) => \A i \in 1..19 : f[i] \in SoundItems  BY <1>2, <1>3, SoundItemIs
<1>6. DOMAIN f = 1..19 /\ f = [i \in 1..19 |-> f[i]]  BY DEF InfoItems
<1> HIDE DEF f
<1>7. f \in Seq(LooseItems) /\ Len(f) = 19  BY <1>4, <1>6
<1>8. ASSUME Fits(e) PROVE f \in Seq(SoundItems)  BY <1>5, <1>6, <1>8
<1> QED  BY <1>7, <1>8 DEF f

\* An answer about an object is its dataset.
LEMMA ObjectInfoIs ==
  ASSUME NEW h, ObjectInfo(h)[1] = "OK"
  PROVE  h \in DOMAIN db /\ ObjectInfo(h)[2] = InfoItems(db[h])
<1> DEFINE a == [i \in DOMAIN ObjectLayout |-> <<ObjectLayout[i], Info(db[h])[i]>>]
<1>1. a = InfoItems(db[h])  BY LayoutIs DEF InfoItems
<1>2. ObjectInfo(h) = IF h \in {0, All} THEN <<"INVALID_OBJECT_HANDLE", <<>>>>
                      ELSE IF h \notin DOMAIN db THEN <<"GENERAL_ERROR", <<>>>> ELSE <<"OK", a>>
  BY DEF ObjectInfo
<1> HIDE DEF a
<1>3. h \notin {0, All} /\ h \in DOMAIN db  BY <1>2
<1>4. ObjectInfo(h) = <<"OK", a>>  BY <1>2, <1>3, Zenon
<1>5. ObjectInfo(h)[2] = a  BY <1>4
<1> QED  BY <1>1, <1>3, <1>5

-----------------------------------------------------------------------------
(* The elements of a list of properties.                                   *)

\* An element: the handle, the property, its type and its value.
Quad(h, p) ==
  <<<<UINT32, h>>, <<UINT16, IF p = Modified THEN Created ELSE p>>, <<UINT16, TypeOf[p]>>,
    <<TypeOf[p], ValueOf(p, h, db[h])>>>>

\* An element comes back if the name and the size of its object do.
LEMMA QuadItems ==
  ASSUME Database, NEW h \in DOMAIN db, NEW p \in ObjectCodes
  PROVE  /\ Quad(h, p) \in Seq(LooseItems) /\ Len(Quad(h, p)) = 4
         /\ Fits(db[h]) => Quad(h, p) \in Seq(SoundItems)
<1> DEFINE a == <<UINT32, h>>
           b == <<UINT16, IF p = Modified THEN Created ELSE p>>
           c == <<UINT16, TypeOf[p]>>
           d == <<TypeOf[p], ValueOf(p, h, db[h])>>
<1>1. EntryOK(db[h]) /\ h \in Int /\ h \in 0..(Long - 1)  BY HandlesAre DEF Database
<1>2. d \in LooseItems /\ TypeOf[p] \in {UINT16, UINT32, UINT128, STR} /\ (Fits(db[h]) => d \in SoundItems)
  BY <1>1, ValueItem
<1>3. TypeOf[p] \in Codes16 /\ (IF p = Modified THEN Created ELSE p) \in Codes16
  <2>1. UINT16 \in Codes16 /\ UINT32 \in Codes16 /\ UINT128 \in Codes16 /\ STR \in Codes16
    BY ONLY SMT DEF UINT16, UINT32, UINT128, STR, Codes16
  <2>2. Created \in ObjectCodes  BY DEF ObjectCodes
  <2> QED  BY <1>2, <2>1, <2>2, CodeNumbers
<1>4. a \in SoundItems /\ b \in SoundItems /\ c \in SoundItems
  <2>1. (\A v \in Codes16 : <<UINT16, v>> \in SoundItems) /\ \A v \in 0..(Long - 1) : <<UINT32, v>> \in SoundItems
    BY SmallItems
  <2> QED  BY ONLY <1>1, <1>3, <2>1, Zenon
<1>5. a \in LooseItems /\ b \in LooseItems /\ c \in LooseItems
  <2>1. \A x \in SoundItems : x \in LooseItems
    <3> SUFFICES ASSUME NEW x \in SoundItems PROVE x \in LooseItems  OBVIOUS
    <3>1. <<x>> \in Seq(SoundItems)  OBVIOUS
    <3>2. <<x>> \in Seq(LooseItems)  BY <3>1, SoundLoose
    <3>3. Len(<<x>>) = 1 /\ <<x>>[1] = x /\ 1 \in 1..1  OBVIOUS
    <3> QED  BY <3>2, <3>3, LenProperties
  <2> QED  BY <1>4, <2>1
<1>6. Quad(h, p) = <<a, b, c, d>>  BY DEF Quad
<1> HIDE DEF a, b, c, d
<1>7. <<a, b, c, d>> \in Seq(LooseItems) /\ Len(<<a, b, c, d>>) = 4
  BY ONLY <1>2, <1>5, SMT
<1>8. Fits(db[h]) => <<a, b, c, d>> \in Seq(SoundItems)
  BY ONLY <1>2, <1>4, SMT
<1> QED  BY ONLY <1>6, <1>7, <1>8, Zenon

-----------------------------------------------------------------------------
(* Sequences that are joined.                                              *)

\* One sequence, and none.
LEMMA FlattenOne ==
  ASSUME NEW S, NEW x \in Seq(S) PROVE FlattenSeq(<<x>>) = x
<1> DEFINE ss == <<x>>
<1>1. ss \in Seq(Seq(S)) /\ Len(ss) = 1 /\ ss[1] = x  OBVIOUS
<1> HIDE DEF ss
<1>2. PICK f \in [0..Len(ss) -> Seq(S)] :
        f[0] = <<>> /\ (\A i \in 1..Len(ss) : f[i] = f[i - 1] \o ss[i]) /\ FlattenSeq(ss) = f[Len(ss)]
  BY <1>1, FlattenIs
<1>3. 1 \in 1..Len(ss) /\ 1 - 1 = 0  BY <1>1
<1>4. f[1] = <<>> \o x
  <2>1. f[1] = f[1 - 1] \o ss[1]  BY <1>2, <1>3
  <2> QED  BY <2>1, <1>1, <1>2, <1>3
<1>5. <<>> \o x = x  BY ConcatEmptySeq
<1> QED  BY <1>1, <1>2, <1>4, <1>5 DEF ss

\* Nothing, flattened.
LEMMA FlattenNone ==
  ASSUME NEW S, NEW ss \in Seq(Seq(S)), Len(ss) = 0 PROVE FlattenSeq(ss) = <<>>
<1>1. PICK f \in [0..Len(ss) -> Seq(S)] :
        f[0] = <<>> /\ (\A i \in 1..Len(ss) : f[i] = f[i - 1] \o ss[i]) /\ FlattenSeq(ss) = f[Len(ss)]
  BY FlattenIs
<1> QED  BY <1>1

\* Sequences of four.
LEMMA FlattenFours ==
  ASSUME NEW S, NEW ss \in Seq(Seq(S)), NEW n \in Nat, n = Len(ss), \A i \in 1..n : Len(ss[i]) = 4
  PROVE  /\ FlattenSeq(ss) \in Seq(S) /\ Len(FlattenSeq(ss)) = 4 * n
         /\ \A i \in 1..n : \A k \in 1..4 : FlattenSeq(ss)[4 * i - 4 + k] = ss[i][k]
<1> DEFINE e == [i \in 0..n |-> 4 * i]
<1>1. e[0] = 0 /\ e \in [0..n -> Nat] /\ e[n] = 4 * n  OBVIOUS
<1>2. \A i \in 1..n : e[i] = 4 * i /\ e[i - 1] = 4 * i - 4
  <2> SUFFICES ASSUME NEW i \in 1..n PROVE e[i] = 4 * i /\ e[i - 1] = 4 * i - 4  OBVIOUS
  <2>1. i \in 0..n /\ i - 1 \in 0..n  OBVIOUS
  <2>2. e[i] = 4 * i /\ e[i - 1] = 4 * (i - 1)  BY <2>1
  <2> QED  BY <2>2
<1> HIDE DEF e
<1>3. Ends(ss, e)
  <2>1. \A i \in 1..n : e[i] = e[i - 1] + Len(ss[i])
    <3> SUFFICES ASSUME NEW i \in 1..n PROVE e[i] = e[i - 1] + Len(ss[i])  OBVIOUS
    <3>1. e[i] = 4 * i /\ e[i - 1] = 4 * i - 4 /\ Len(ss[i]) = 4  BY <1>2
    <3> QED  BY <3>1
  <2> QED  BY <1>1, <2>1 DEF Ends
<1>4. FlattenSeq(ss) \in Seq(S) /\ Lies(FlattenSeq(ss), ss, e)  BY <1>3, FlattenLies
<1>5. Len(FlattenSeq(ss)) = 4 * n  BY <1>1, <1>4 DEF Lies
<1>6. ASSUME NEW i \in 1..n, NEW k \in 1..4 PROVE FlattenSeq(ss)[4 * i - 4 + k] = ss[i][k]
  <2>1. FlattenSeq(ss)[e[i - 1] + k] = ss[i][k]  BY <1>4 DEF Lies
  <2> QED  BY <1>2, <2>1
<1> QED  BY <1>4, <1>5, <1>6

-----------------------------------------------------------------------------
(* Lists of properties.                                                    *)

\* The code of all properties is not that of one.
LEMMA AllIsNone == All \notin ObjectCodes /\ All # 0
<1>1. \A x \in ObjectCodes : x \in Codes16  BY CodeNumbers
<1>2. All \notin Codes16 /\ All # 0
  <2>1. Long \in Nat /\ Long > 65536 /\ All = Long - 1  BY ModulusIs, SMTT(40) DEF All
  <2>2. \A x \in Codes16 : x < Long - 1
    <3>1. Long \in Nat /\ Long > 65536  BY <2>1
    <3> QED  BY ONLY <3>1, SMTT(40) DEF Codes16
  <2>3. 0 \in Codes16  BY ONLY SMT DEF Codes16
  <2>4. \A x \in Codes16 : x # All  BY <2>1, <2>2
  <2> QED  BY <2>3, <2>4
<1> QED  BY <1>1, <1>2

\* The fourteen properties of a list.
LEMMA OrderIs == Len(ListOrder) = 14 /\ DOMAIN ListOrder = 1..14 /\ \A i \in 1..14 : ListOrder[i] \in ObjectCodes
<1>1. Len(ListOrder) = 14 /\ DOMAIN ListOrder = 1..14  BY DEF ListOrder
<1>2. \A i \in 1..14 : ListOrder[i] \in Range(ListOrder)
  <2> DEFINE L == ListOrder
  <2>1. DOMAIN L = 1..14  BY <1>1
  <2> HIDE DEF L
  <2>2. \A i \in 1..14 : L[i] \in Range(L)  BY <2>1 DEF Range
  <2> QED  BY <2>2 DEF L
<1> QED  BY <1>1, <1>2, CodesAre

\* The elements of one object.
QuadsOf(h) == [i \in 1..14 |-> Quad(h, ListOrder[i])]

\* The elements of an object are those of all properties or that of one.
LEMMA ElementsAre ==
  ASSUME Database, NEW h \in DOMAIN db, NEW property
  PROVE  /\ Elements(h, property) \in Seq(LooseItems)
         /\ property = All => Elements(h, property) = FlattenSeq(QuadsOf(h))
         /\ property \in ObjectCodes => Elements(h, property) = Quad(h, property)
<1>1. property = All => Elements(h, property) = FlattenSeq(QuadsOf(h))
  <2> SUFFICES ASSUME property = All PROVE Elements(h, All) = FlattenSeq(QuadsOf(h))  OBVIOUS
  <2>1. Elements(h, All) = FlattenSeq([i \in DOMAIN ListOrder |-> Quad(h, ListOrder[i])])  BY Zenon DEF Elements, Quad
  <2> QED  BY <2>1, OrderIs, Zenon DEF QuadsOf
<1>2. property \in ObjectCodes => Elements(h, property) = FlattenSeq(<<Quad(h, property)>>)
  <2> SUFFICES ASSUME property \in ObjectCodes PROVE Elements(h, property) = FlattenSeq(<<Quad(h, property)>>)  OBVIOUS
  <2>1. property # All /\ property \in Range(ListOrder)  BY AllIsNone, CodesAre
  <2> DEFINE a == <<property>>
             g == [i \in DOMAIN a |-> Quad(h, a[i])]
  <2>2. Elements(h, property) = FlattenSeq(g)  BY <2>1, Zenon DEF Elements, Quad
  <2>3. g = <<Quad(h, property)>>
    <3> DEFINE Q(x) == Quad(h, x)
    <3>1. [i \in DOMAIN a |-> Q(a[i])] = <<Q(property)>>
      <4> HIDE DEF Q
      <4> QED  OBVIOUS
    <3> QED  BY <3>1
  <2> QED  BY <2>2, <2>3
<1>3. property # All /\ property \notin ObjectCodes => Elements(h, property) = FlattenSeq(<<>>)
  <2> SUFFICES ASSUME property # All, property \notin ObjectCodes PROVE Elements(h, property) = FlattenSeq(<<>>)  OBVIOUS
  <2>1. property \notin Range(ListOrder)  BY CodesAre
  <2> DEFINE a == <<>>
             g == [i \in DOMAIN a |-> Quad(h, a[i])]
  <2>2. Elements(h, property) = FlattenSeq(g)  BY <2>1, Zenon DEF Elements, Quad
  <2>3. g = <<>>  OBVIOUS
  <2> QED  BY <2>2, <2>3
<1>4. QuadsOf(h) \in Seq(Seq(LooseItems))
  <2> DEFINE q == QuadsOf(h)
  <2>1. \A i \in 1..14 : q[i] \in Seq(LooseItems)  BY OrderIs, QuadItems DEF QuadsOf
  <2>2. q = [i \in 1..14 |-> q[i]]  BY DEF QuadsOf
  <2> HIDE DEF q
  <2>3. q \in Seq(Seq(LooseItems))  BY <2>1, <2>2
  <2> QED  BY <2>3 DEF q
<1>5. ASSUME property \in ObjectCodes
      PROVE  FlattenSeq(<<Quad(h, property)>>) = Quad(h, property) /\ Quad(h, property) \in Seq(LooseItems)
  <2>1. Quad(h, property) \in Seq(LooseItems)  BY <1>5, QuadItems
  <2> QED  BY <2>1, FlattenOne
<1>6. FlattenSeq(<<>>) = <<>> /\ <<>> \in Seq(LooseItems)
  <2>1. <<>> \in Seq(Seq(LooseItems)) /\ Len(<<>>) = 0 /\ <<>> \in Seq(LooseItems)  OBVIOUS
  <2> QED  BY <2>1, FlattenNone
<1>7. FlattenSeq(QuadsOf(h)) \in Seq(LooseItems)  BY <1>4, FlattenTyped
<1> QED  BY <1>1, <1>2, <1>3, <1>5, <1>6, <1>7

\* The objects a list is about.
About(h, depth) == {g \in DOMAIN db : IF depth = 0 THEN g = h ELSE db[g].parent = h}

\* Each of S, once.
Enumerates(s, S) ==
  /\ Cardinality(S) \in Nat /\ Cardinality(S) <= MaxHandle /\ s \in Seq(S) /\ Len(s) = Cardinality(S)
  /\ DOMAIN s = 1..Cardinality(S)
  /\ \A i \in 1..Cardinality(S) : s[i] \in S
  /\ \A x \in S : \E i \in 1..Cardinality(S) : s[i] = x

\* A list is about each object it is asked about, once.
LEMMA ListedIs ==
  ASSUME Database, NEW h, NEW depth, depth = 0 => h \in DOMAIN db
  PROVE  Enumerates(Listed(h, depth), About(h, depth))
<1>1. CASE depth = 0
  <2>1. About(h, depth) = {h}  BY <1>1 DEF About
  <2>2. Listed(h, depth) = <<h>>  BY <1>1 DEF Listed
  <2>3. Cardinality({h}) = 1  BY FS_Singleton
  <2>4. 1 <= MaxHandle  BY HandlesAre
  <2>5. <<h>> \in Seq({h}) /\ Len(<<h>>) = 1 /\ DOMAIN <<h>> = 1..1 /\ \A i \in 1..1 : <<h>>[i] = h  OBVIOUS
  <2> QED  BY <2>1, <2>2, <2>3, <2>4, <2>5 DEF Enumerates
<1>2. CASE depth # 0
  <2> DEFINE S == About(h, depth)
  <2>1. S = {g \in DOMAIN db : db[g].parent = h}  BY <1>2 DEF About
  <2>2. Listed(h, depth) = InOrder(S)  BY <1>2, <2>1 DEF Listed, ChildrenOf
  <2>3. S \in SUBSET (DOMAIN db)  BY <2>1
  <2> HIDE DEF S
  <2>4. PICK n \in 1..MaxHandle : DOMAIN db \in SUBSET (1..n)  BY HandlesAre
  <2>5. n \in Nat /\ S \in SUBSET (1..n) /\ n <= MaxHandle /\ MaxHandle \in Nat  BY <2>3, <2>4, HandlesAre
  <2>6. /\ Cardinality(S) \in Nat /\ Cardinality(S) <= n
        /\ InOrder(S) \in Seq(S) /\ Len(InOrder(S)) = Cardinality(S)
        /\ \A x \in S : \E i \in 1..Cardinality(S) : InOrder(S)[i] = x
        /\ \A i \in 1..Cardinality(S) : InOrder(S)[i] \in S
    BY <2>5, InOrderIs
  <2>7. DOMAIN InOrder(S) = 1..Cardinality(S)  BY <2>6, LenProperties
  <2>8. Cardinality(S) <= MaxHandle  BY <2>5, <2>6
  <2>9. Enumerates(InOrder(S), S)  BY <2>6, <2>7, <2>8 DEF Enumerates
  <2> QED  BY <2>2, <2>9 DEF S
<1> QED  BY <1>1, <1>2

\* What a list is sent as: the count, and the elements of the objects that are sent.
Count(n, property) == (IF property = All THEN 6 ELSE 1) * n
Body(sent, property) == FlattenSeq([i \in DOMAIN sent |-> Elements(sent[i], property)])

\* A list is a count and what is sent.
LEMMA PropertyListIs ==
  ASSUME NEW h, NEW property, NEW group, NEW depth, PropertyList(h, property, group, depth)[1] = "OK"
  PROVE  LET handles == Listed(h, depth) IN
         /\ depth = 0 => h \in DOMAIN db
         /\ group = 0 /\ property # 0
         /\ PropertyList(h, property, group, depth)[2]
            = <<<<UINT32, Count(Len(handles), property)>>>> \o Body(Sent(handles, property), property)
<1> DEFINE handles == Listed(h, depth)
           r == <<<<UINT32, Count(Len(handles), property)>>>> \o Body(Sent(handles, property), property)
<1>1. PropertyList(h, property, group, depth) =
        IF h = All \/ (property = 0 /\ group = 0) THEN <<"PARAMETER_NOT_SUPPORTED", <<>>>>
        ELSE IF group # 0 THEN <<"SPECIFICATION_BY_GROUP_UNSUPPORTED", <<>>>>
        ELSE IF depth \in 2..(Long \div 2) THEN <<"SPECIFICATION_BY_DEPTH_UNSUPPORTED", <<>>>>
        ELSE IF depth = 0 /\ h \notin DOMAIN db THEN <<"INVALID_OBJECT_HANDLE", <<>>>>
        ELSE <<"OK", r>>
  BY Zenon DEF PropertyList, Body, Count
<1> HIDE DEF r
<1> DEFINE D == depth \in 2..(Long \div 2)
<1>2. PropertyList(h, property, group, depth) =
        IF h = All \/ (property = 0 /\ group = 0) THEN <<"PARAMETER_NOT_SUPPORTED", <<>>>>
        ELSE IF group # 0 THEN <<"SPECIFICATION_BY_GROUP_UNSUPPORTED", <<>>>>
        ELSE IF D THEN <<"SPECIFICATION_BY_DEPTH_UNSUPPORTED", <<>>>>
        ELSE IF depth = 0 /\ h \notin DOMAIN db THEN <<"INVALID_OBJECT_HANDLE", <<>>>>
        ELSE <<"OK", r>>
  BY <1>1, Zenon
<1> HIDE DEF D
<1>3. ~(h = All \/ (property = 0 /\ group = 0)) /\ group = 0 /\ ~D /\ ~(depth = 0 /\ h \notin DOMAIN db)
  BY <1>2
<1>4. PropertyList(h, property, group, depth) = <<"OK", r>>
  BY ONLY <1>2, <1>3, Zenon
<1>5. PropertyList(h, property, group, depth)[2] = r  BY <1>4
<1> QED  BY <1>3, <1>5, Zenon DEF r

\* What is sent: one object of all properties or of the last one, else all objects.
LEMMA SentIs ==
  ASSUME NEW S, NEW handles \in Seq(S), NEW n \in Nat, n = Len(handles), NEW property
  PROVE  /\ Sent(handles, property) \in Seq(S)
         /\ property \notin {All, NonConsumed} \/ n <= 1 => Sent(handles, property) = handles
         /\ property \in {All, NonConsumed} /\ n > 0 => Sent(handles, property) = <<handles[1]>>
<1>1. Sent(handles, property) = IF property \in {All, NonConsumed} /\ handles # <<>> THEN <<Head(handles)>> ELSE handles
  BY Zenon DEF Sent
<1>2. n > 0 <=> handles # <<>>  BY EmptySeq
<1>3. n > 0 => Head(handles) = handles[1] /\ handles[1] \in S /\ <<handles[1]>> \in Seq(S)
  <2> SUFFICES ASSUME n > 0 PROVE Head(handles) = handles[1] /\ handles[1] \in S /\ <<handles[1]>> \in Seq(S)  OBVIOUS
  <2>1. handles[1] \in S  BY LenProperties
  <2>2. Head(handles) = handles[1]  BY <1>2, HeadTailProperties
  <2> QED  BY <2>1, <2>2
<1>4. ASSUME n = 1 PROVE <<handles[1]>> = handles
  <2> DEFINE a == <<handles[1]>>
  <2>1. a \in Seq(S) /\ Len(a) = 1 /\ a[1] = handles[1]  BY <1>3, <1>4
  <2> HIDE DEF a
  <2>2. \A i \in 1..Len(a) : a[i] = handles[i]  BY <2>1
  <2>3. Len(a) = Len(handles)  BY <2>1, <1>4
  <2>4. a = handles  BY <2>1, <2>2, <2>3, SeqEqual
  <2> QED  BY <2>4 DEF a
<1>5. n <= 1 => n = 0 \/ n = 1  OBVIOUS
<1> QED  BY <1>1, <1>2, <1>3, <1>4, <1>5

\* What is sent can be put.
LEMMA BodyTyped ==
  ASSUME Database, NEW sent \in Seq(DOMAIN db), NEW property
  PROVE  Body(sent, property) \in Seq(LooseItems)
<1>1. PICK n \in Nat : n = Len(sent) /\ DOMAIN sent = 1..n /\ \A i \in 1..n : sent[i] \in DOMAIN db  BY LenProperties
<1> DEFINE g == [i \in 1..n |-> Elements(sent[i], property)]
<1>2. \A i \in 1..n : g[i] \in Seq(LooseItems)  BY <1>1, ElementsAre
<1>3. g = [i \in 1..n |-> g[i]]  OBVIOUS
<1>4. Body(sent, property) = FlattenSeq(g)  BY <1>1 DEF Body
<1> HIDE DEF g
<1>5. g \in Seq(Seq(LooseItems))  BY <1>2, <1>3
<1> QED  BY <1>4, <1>5, FlattenTyped

\* A list can be put.
LEMMA PropertyListTyped ==
  ASSUME Database, NEW h, NEW property, NEW group, NEW depth, PropertyList(h, property, group, depth)[1] = "OK"
  PROVE  PropertyList(h, property, group, depth)[2] \in Seq(LooseItems)
<1> DEFINE handles == Listed(h, depth)
           S == About(h, depth)
           c == <<UINT32, Count(Len(handles), property)>>
           b == Body(Sent(handles, property), property)
<1>1. depth = 0 => h \in DOMAIN db  BY PropertyListIs, Zenon
<1>2. PropertyList(h, property, group, depth)[2] = <<c>> \o b  BY PropertyListIs, Zenon
<1>3. Enumerates(handles, S)  BY <1>1, ListedIs
<1>4. PICK n \in Nat : n = Len(handles)  BY <1>3 DEF Enumerates
<1>5. handles \in Seq(DOMAIN db)
  <2>1. S \in SUBSET (DOMAIN db)  BY DEF About
  <2> QED  BY <1>3, <2>1, SeqMonotonic DEF Enumerates
<1>6. b \in Seq(LooseItems)
  <2> HIDE DEF handles, S
  <2>1. Sent(handles, property) \in Seq(DOMAIN db)  BY <1>4, <1>5, SentIs
  <2> QED  BY <2>1, BodyTyped
<1>7. c \in LooseItems
  <2> HIDE DEF handles
  <2>1. Count(Len(handles), property) \in Int  BY <1>4 DEF Count
  <2> QED  BY <2>1, LooseItemIs, ValuesAre
<1> HIDE DEF b, c
<1>8. <<c>> \in Seq(LooseItems)  BY <1>7
<1>9. <<c>> \o b \in Seq(LooseItems)  BY <1>6, <1>8, ConcatProperties
<1> QED  BY <1>2, <1>9

-----------------------------------------------------------------------------
(* What the handlers do to the variables.                                  *)

\* A request that is worked on.
ReqOK(r) ==
  /\ r \in [op : Operations, tid : Int, par : Seq(Int)] /\ Len(r.par) = 5
  /\ r.op = "OpenSession" => r.par[1] = 1
  /\ r.op = "SendObjectInfo" => r.par[1] \in {Storage, Storage + 1}

\* A container as a host sends it: a request, or the data of one.
ContainerOK(c) ==
  \/ c.kind = "request" /\ \E payload : Asked(c.op, c.par, payload)
  \/ c.kind = "data" /\ c.op \in DataIn /\ \E par : Asked(c.op, par, c.payload)

Effect ==
  data' \in Seq(Fields) /\ session' \in {Nothing, 1} /\ Database' /\ writes' \in 0..MaxWrites

\* Every variable has its type.
Typed ==
  /\ Database /\ data \in Seq(Fields) /\ session \in {Nothing, 1} /\ writes \in 0..MaxWrites
  /\ pc = "request" => req = Nothing
  /\ pc # "request" => ReqOK(req)
  /\ \A i \in 1..Len(wire) : ContainerOK(wire[i])
  /\ host.phase = "sending" => Asked(host.op, host.par, host.payload)
  /\ host.phase # "idle" => Enough(host.op, host.par)

\* A result whose items can be put.
Puts(result) == result[2] \in Seq(LooseItems)

\* A result with items that can be put.
LEMMA PutsPair == ASSUME NEW rc, NEW items \in Seq(LooseItems) PROVE Puts(<<rc, items>>)
BY DEF Puts

\* What comes back can be put.
LEMMA PutsSound == ASSUME NEW rc, NEW items \in Seq(SoundItems) PROVE Puts(<<rc, items>>)
BY SoundLoose DEF Puts

\* Nothing can be put.
LEMMA PutsNothing == \A rc : Puts(<<rc, <<>>>>)
<1>1. <<>> \in Seq(LooseItems)  OBVIOUS
<1> QED  BY <1>1, PutsPair

\* Without a session nothing is put.
LEMMA PutsInSession == ASSUME NEW result, Puts(result) PROVE Puts(InSession(result))
BY PutsNothing DEF InSession

\* Without a storage nothing is put.
LEMMA PutsOnStorage == ASSUME NEW result, Puts(result) PROVE Puts(OnStorage(result))
<1> DEFINE x == IF HasStorage(Par(1)) THEN result ELSE <<"INVALID_STORAGE_ID", <<>>>>
<1>1. Puts(x)  BY PutsNothing
<1> HIDE DEF x
<1>2. Puts(InSession(x))  BY <1>1, PutsInSession
<1> QED  BY <1>2, Zenon DEF x, OnStorage

\* What a response puts into mData is of fields that fit.
LEMMA ReplyTyped ==
  ASSUME NEW rc, NEW par, NEW items \in Seq(LooseItems), Reply(rc, par, items) PROVE data' \in Seq(Fields)
BY WriteTyped DEF Reply

\* Nothing else changes.
LEMMA Unchanged ==
  ASSUME Typed, UNCHANGED <<db, card>> PROVE Database'
BY DEF Typed, Database

\* A handler that changes nothing else keeps the types.
LEMMA UnchangingKeeps ==
  ASSUME Typed, Unchanging, data' \in Seq(Fields) PROVE Effect
<1>1. Database'  BY Unchanged DEF Unchanging
<1> QED  BY <1>1 DEF Typed, Unchanging, Effect

\* An answer keeps the types if what it puts can be put.
LEMMA AnswerKeeps ==
  ASSUME Typed, NEW op, NEW result, Puts(result), Answer(op, result) PROVE Effect
<1>1. Reply(result[1], <<>>, result[2]) /\ Unchanging  BY DEF Answer
<1>2. data' \in Seq(Fields)  BY <1>1, ReplyTyped DEF Puts
<1> QED  BY <1>1, <1>2, UnchangingKeeps

\* One item.
LEMMA PutsOne == ASSUME NEW rc, NEW x \in SoundItems PROVE Puts(<<rc, <<x>>>>)
<1>1. <<x>> \in Seq(SoundItems)  OBVIOUS
<1> QED  BY <1>1, PutsSound

\* The requests that only describe.
LEMMA GetDeviceInfoKeeps == ASSUME Typed, GetDeviceInfo PROVE Effect
<1>1. Puts(<<"OK", DeviceInfo>>)  BY DeviceItems, PutsSound
<1> QED  BY <1>1, AnswerKeeps, Zenon DEF GetDeviceInfo

\* doGetStorageIDs keeps the types.
LEMMA GetStorageIDsKeeps == ASSUME Typed, GetStorageIDs PROVE Effect
<1> DEFINE a == <<Storage>>
           x == <<AUINT32, a>>
<1>1. x \in SoundItems
  <2>1. AUINT32 \in DOMAIN Element /\ Parts[Element[AUINT32]] = <<4>>  BY PartsAre, ElementIs
  <2>2. ElementModulus(AUINT32) = Long  BY <2>1, ModulusIs DEF ElementModulus
  <2>3. Storage \in Nat /\ Storage < Long /\ 1 < Long  BY ModulusIs DEF Storage
  <2>4. a \in Seq(Nat) /\ Len(a) = 1 /\ \A i \in 1..1 : a[i] = Storage  BY <2>3
  <2> HIDE DEF a
  <2>5. a \in Arrays(AUINT32)  BY <2>2, <2>3, <2>4 DEF Arrays
  <2>6. a \in Values(AUINT32) /\ AUINT32 \in Types  BY <2>1, <2>5, TypesDiffer, ValuesAre DEF Values
  <2> QED  BY <2>6, SoundItemIs
<1>2. Puts(<<"OK", <<x>>>>)  BY <1>1, PutsOne
<1>3. Puts(InSession(<<"OK", <<x>>>>))  BY <1>2, PutsInSession
<1> QED  BY <1>3, AnswerKeeps, Zenon DEF GetStorageIDs

\* doGetStorageInfo keeps the types.
LEMMA GetStorageInfoKeeps == ASSUME Typed, GetStorageInfo PROVE Effect
<1> DEFINE x == IF GetStorage(Par(1)) THEN <<"OK", StorageInfo>> ELSE <<"INVALID_STORAGE_ID", <<>>>>
<1>1. Puts(x)
  <2>1. Puts(<<"OK", StorageInfo>>)  BY StorageItems, PutsSound
  <2> QED  BY <2>1, PutsNothing, Zenon
<1> HIDE DEF x
<1>2. Puts(InSession(x))  BY <1>1, PutsInSession
<1> QED  BY <1>2, AnswerKeeps, Zenon DEF GetStorageInfo, x

\* doGetObjectPropsSupported keeps the types.
LEMMA GetObjectPropsSupportedKeeps == ASSUME Typed, GetObjectPropsSupported PROVE Effect
<1> DEFINE x == <<AUINT16, ObjectProperties>>
<1>1. x \in SoundItems  BY CodeLists
<1> HIDE DEF x
<1>2. Puts(<<"OK", <<x>>>>)  BY <1>1, PutsOne
<1>3. Puts(InSession(<<"OK", <<x>>>>))  BY <1>2, PutsInSession
<1> QED  BY <1>3, AnswerKeeps, Zenon DEF GetObjectPropsSupported, x

\* A list of handles comes back (getObjectList).
LEMMA ObjectListSound ==
  ASSUME Database, NEW storage, NEW format, NEW parent
  PROVE  <<AUINT32, ObjectList(storage, format, parent)>> \in SoundItems
<1> DEFINE S == {h \in DOMAIN db :
             /\ db[h].storage = storage /\ db[h].parent = (IF parent = All THEN 0 ELSE parent)
             /\ format \in {0, db[h].format}}
<1>1. S \in SUBSET (DOMAIN db)  OBVIOUS
<1>2. ObjectList(storage, format, parent) = InOrder(S)  BY DEF ObjectList
<1> HIDE DEF S
<1> QED  BY <1>1, <1>2, HandleList

\* doGetObjectHandles keeps the types.
LEMMA GetObjectHandlesKeeps == ASSUME Typed, GetObjectHandles PROVE Effect
<1> DEFINE x == <<AUINT32, ObjectList(Par(1), Par(2), Par(3))>>
<1>1. x \in SoundItems  BY ObjectListSound DEF Typed
<1> HIDE DEF x
<1>2. Puts(<<"OK", <<x>>>>)  BY <1>1, PutsOne
<1>3. Puts(OnStorage(<<"OK", <<x>>>>))  BY <1>2, PutsOnStorage
<1> QED  BY <1>3, AnswerKeeps, Zenon DEF GetObjectHandles, x

\* doGetObjectReferences keeps the types.
LEMMA GetObjectReferencesKeeps == ASSUME Typed, GetObjectReferences PROVE Effect
<1> DEFINE x == <<AUINT32, References(Par(1))>>
           y == IF Par(1) \notin DOMAIN db THEN <<"INVALID_OBJECT_HANDLE", <<>>>> ELSE <<"OK", <<x>>>>
<1>1. x \in SoundItems  BY ObjectListSound DEF Typed, References
<1> HIDE DEF x
<1>2. Puts(<<"OK", <<x>>>>)  BY <1>1, PutsOne
<1>3. Puts(y)  BY <1>2, PutsNothing, Zenon
<1> HIDE DEF y
<1>4. Puts(InSession(y))  BY <1>3, PutsInSession
<1> QED  BY <1>4, AnswerKeeps, Zenon DEF GetObjectReferences, x, y

\* doSetObjectReferences keeps the types.
LEMMA SetObjectReferencesKeeps == ASSUME Typed, SetObjectReferences PROVE Effect
<1>1. Puts(<<"OK", <<>>>>)  BY PutsNothing
<1>2. Puts(InSession(<<"OK", <<>>>>))  BY <1>1, PutsInSession
<1> QED  BY <1>2, AnswerKeeps, Zenon DEF SetObjectReferences

\* doGetDevicePropValue keeps the types.
LEMMA GetDevicePropValueKeeps == ASSUME Typed, GetDevicePropValue PROVE Effect
<1> DEFINE x == <<STR, Switch>>
           y == IF Par(1) \in Range(DeviceProperties) THEN <<"OK", <<x>>>> ELSE <<"OPERATION_NOT_SUPPORTED", <<>>>>
<1>1. x \in SoundItems  BY WordItems
<1> HIDE DEF x
<1>2. Puts(<<"OK", <<x>>>>)  BY <1>1, PutsOne
<1>3. Puts(y)  BY <1>2, PutsNothing, Zenon
<1> HIDE DEF y
<1> QED  BY <1>3, AnswerKeeps, Zenon DEF GetDevicePropValue, x, y

\* What is refused, and a thumbnail, keeps the types.
LEMMA RefusalsKeep ==
  ASSUME Typed, SetDevicePropValue \/ ResetDevicePropValue \/ Unsupported \/ GetThumb PROVE Effect
<1>1. CASE SetDevicePropValue  BY <1>1, PutsNothing, AnswerKeeps, Zenon DEF SetDevicePropValue
<1>2. CASE ResetDevicePropValue  BY <1>2, PutsNothing, AnswerKeeps, Zenon DEF ResetDevicePropValue
<1>3. CASE Unsupported  BY <1>3, PutsNothing, AnswerKeeps, Zenon DEF Unsupported
<1>4. CASE GetThumb
  <2>1. PICK rc \in {"OK", "GENERAL_ERROR"} : Answer("GetThumb", <<rc, <<>>>>)  BY <1>4, Zenon DEF GetThumb
  <2> QED  BY <2>1, PutsNothing, AnswerKeeps, Zenon
<1> QED  BY <1>1, <1>2, <1>3, <1>4

\* doGetObjectInfo keeps the types.
LEMMA GetObjectInfoKeeps == ASSUME Typed, GetObjectInfo PROVE Effect
<1> DEFINE h == Par(1)
           a == [i \in DOMAIN ObjectLayout |-> <<ObjectLayout[i], Info(db[h])[i]>>]
<1>1. ObjectInfo(h) = IF h \in {0, All} THEN <<"INVALID_OBJECT_HANDLE", <<>>>>
                      ELSE IF h \notin DOMAIN db THEN <<"GENERAL_ERROR", <<>>>> ELSE <<"OK", a>>
  BY DEF ObjectInfo
<1>2. a = InfoItems(db[h])  BY LayoutIs DEF InfoItems
<1>3. ASSUME h \in DOMAIN db PROVE Puts(<<"OK", a>>)
  <2>1. EntryOK(db[h])  BY <1>3 DEF Typed, Database
  <2>2. a \in Seq(LooseItems)  BY <1>2, <2>1, InfoItemsAre
  <2> QED  BY <2>2, PutsPair
<1> HIDE DEF a
<1>4. Puts(ObjectInfo(h))  BY <1>1, <1>3, PutsNothing, Zenon
<1> QED  BY <1>4, AnswerKeeps, Zenon DEF GetObjectInfo

\* doGetObjectPropList keeps the types.
LEMMA GetObjectPropListKeeps == ASSUME Typed, GetObjectPropList PROVE Effect
<1> DEFINE r == PropertyList(Par(1), Par(3), Par(4), Par(5))
<1>1. Answer("GetObjectPropList", r)  BY Zenon DEF GetObjectPropList
<1>2. CASE r[1] = "OK"
  <2>1. r[2] \in Seq(LooseItems)  BY <1>2, PropertyListTyped DEF Typed
  <2>2. Puts(r)  BY <2>1, Zenon DEF Puts
  <2> HIDE DEF r
  <2> QED  BY <1>1, <2>2, AnswerKeeps, Zenon
<1>3. CASE r[1] # "OK"
  <2>1. r[2] = <<>>
    <3> DEFINE g == Listed(Par(1), Par(5))
               x == <<<<UINT32, (IF Par(3) = All THEN 6 ELSE 1) * Len(g)>>>>
                    \o FlattenSeq([i \in DOMAIN Sent(g, Par(3)) |-> Elements(Sent(g, Par(3))[i], Par(3))])
    <3>1. \E rc : r = <<rc, <<>>>> \/ r = <<"OK", x>>
      BY Zenon DEF PropertyList
    <3> HIDE DEF x, r
    <3> QED  BY <3>1, <1>3
  <2>2. <<>> \in Seq(LooseItems)  OBVIOUS
  <2>3. Puts(r)  BY <2>1, <2>2, Zenon DEF Puts
  <2> HIDE DEF r
  <2> QED  BY <1>1, <2>3, AnswerKeeps, Zenon
<1> QED  BY <1>2, <1>3

\* The types of the descriptions of properties.
LEMMA DescribedTypes ==
  /\ DOMAIN DescribedType = ObjectCodes \cup {Width, Height, BitDepth}
  /\ DOMAIN DescribedType \in SUBSET Codes16
  /\ \A p \in ObjectCodes : DescribedType[p] = TypeOf[p]
  /\ \A p \in DOMAIN DescribedType : DescribedType[p] \in {UINT16, UINT32, UINT128, STR}
<1>1. DOMAIN DescribedType = ObjectCodes \cup {Width, Height, BitDepth}  BY CodesAre DEF DescribedType
<1>2. DOMAIN DescribedType \in SUBSET Codes16
  <2>1. Width \in Codes16 /\ Height \in Codes16 /\ BitDepth \in Codes16
    BY ONLY SMT DEF Width, Height, BitDepth, Codes16
  <2> QED  BY <1>1, <2>1, CodeNumbers
<1>3. \A p \in DOMAIN DescribedType : DescribedType[p] = IF p \in ObjectCodes THEN TypeOf[p] ELSE UINT32
  BY <1>1, CodesAre DEF DescribedType
<1>4. \A p \in ObjectCodes : TypeOf[p] \in {UINT16, UINT32, UINT128, STR}
  BY TypesAre DEF ObjectCodes
<1> QED  BY <1>1, <1>2, <1>3, <1>4

\* doGetObjectPropDesc keeps the types.
LEMMA GetObjectPropDescKeeps == ASSUME Typed, GetObjectPropDesc PROVE Effect
<1> DEFINE p == Par(1)
           x == PropertyItems(p, DescribedType[p], p \in Writeable)
<1>1. ObjectPropertyDesc(p) = IF p \in DOMAIN DescribedType THEN <<"OK", x>> ELSE <<"OBJECT_PROP_NOT_SUPPORTED", <<>>>>
  BY Zenon DEF ObjectPropertyDesc
<1>2. ASSUME p \in DOMAIN DescribedType PROVE Puts(<<"OK", x>>)
  <2>1. p \in Codes16 /\ DescribedType[p] \in {UINT16, UINT32, UINT128, STR}  BY <1>2, DescribedTypes
  <2>2. x \in Seq(SoundItems)  BY <2>1, PropertyItemsSound
  <2> HIDE DEF x
  <2> QED  BY <2>2, PutsSound
<1> HIDE DEF x
<1>3. Puts(ObjectPropertyDesc(p))  BY <1>1, <1>2, PutsNothing, Zenon
<1> QED  BY <1>3, AnswerKeeps, Zenon DEF GetObjectPropDesc

\* doGetDevicePropDesc keeps the types.
LEMMA GetDevicePropDescKeeps == ASSUME Typed, GetDevicePropDesc PROVE Effect
<1> DEFINE p == Par(1)
           x == PropertyItems(p, STR, FALSE)
<1>1. DevicePropertyDesc(p) = IF p \in Range(DeviceProperties) THEN <<"OK", x>> ELSE <<"DEVICE_PROP_NOT_SUPPORTED", <<>>>>
  BY Zenon DEF DevicePropertyDesc
<1>2. ASSUME p \in Range(DeviceProperties) PROVE Puts(<<"OK", x>>)
  <2>1. p \in Codes16
    <3> DEFINE D == DeviceProperties
    <3>1. D = <<Friendly, Partner>>  BY DEF DeviceProperties
    <3>2. D[1] = Friendly /\ D[2] = Partner /\ DOMAIN D = 1..2  BY <3>1
    <3> HIDE DEF D
    <3>3. p \in {D[1], D[2]}  BY <1>2, <3>2 DEF Range, D
    <3>4. Friendly \in Codes16 /\ Partner \in Codes16  BY ONLY SMT DEF Friendly, Partner, Codes16
    <3> QED  BY <3>2, <3>3, <3>4
  <2>2. x \in Seq(SoundItems)  BY <2>1, PropertyItemsSound
  <2> HIDE DEF x
  <2> QED  BY <2>2, PutsSound
<1> HIDE DEF x
<1>3. Puts(DevicePropertyDesc(p))  BY <1>1, <1>2, PutsNothing, Zenon
<1> QED  BY <1>3, AnswerKeeps, Zenon DEF GetDevicePropDesc

\* What is known of no object has its type.
LEMMA NoEntryOK == EntryOK(NoEntry)
<1> DEFINE e == NoEntry
<1>1. e = [storage |-> Storage, parent |-> 0, format |-> File, size |-> 0, name |-> <<>>, modified |-> 0]
  BY DEF NoEntry, Entry
<1> HIDE DEF e
<1>2. /\ DOMAIN e = {"storage", "parent", "format", "size", "name", "modified"}
      /\ e.storage = Storage /\ e.parent = 0 /\ e.format = File /\ e.size = 0 /\ e.name = <<>> /\ e.modified = 0
  BY <1>1
<1>3. 0 \in 0..MaxHandle  BY PacketsAssumption, ModulusIs
<1>4. File \in Values(UINT16)
  <2>1. File \in Codes16  BY ONLY SMT DEF File, Codes16
  <2> QED  BY <2>1, CodeRange, ValuesAre
<1>5. 48 + 0 \in Chars  BY ModulusIs DEF Chars
<1> QED  BY <1>2, <1>3, <1>4, <1>5, NoText DEF EntryOK, e

\* An answer about a property is one item, or nothing for the last property.
LEMMA PropertyValueIs ==
  ASSUME NEW h, NEW p, PropertyValue(h, p)[1] = "OK"
  PROVE  /\ p \in ObjectCodes /\ h \notin {0, All} /\ (p \notin Unlooked => h \in DOMAIN db)
         /\ PropertyValue(h, p)[2] =
              IF p = NonConsumed THEN <<>>
              ELSE <<<<TypeOf[p], ValueOf(p, h, IF h \in DOMAIN db THEN db[h] ELSE NoEntry)>>>>
<1> DEFINE x == IF p = NonConsumed THEN <<>>
                ELSE <<<<TypeOf[p], ValueOf(p, h, IF h \in DOMAIN db THEN db[h] ELSE NoEntry)>>>>
<1>1. PropertyValue(h, p) =
        IF h \in {0, All} THEN <<"INVALID_OBJECT_HANDLE", <<>>>>
        ELSE IF p \notin DOMAIN TypeOf \/ (p \notin Unlooked /\ h \notin DOMAIN db) THEN <<"GENERAL_ERROR", <<>>>>
        ELSE <<"OK", x>>
  BY Zenon DEF PropertyValue
<1> HIDE DEF x
<1>2. h \notin {0, All} /\ ~(p \notin DOMAIN TypeOf \/ (p \notin Unlooked /\ h \notin DOMAIN db))  BY <1>1
<1>3. PropertyValue(h, p) = <<"OK", x>>  BY <1>1, <1>2, Zenon
<1>4. PropertyValue(h, p)[2] = x  BY <1>3
<1> QED  BY <1>2, <1>4, CodesAre DEF x

\* doGetObjectPropValue keeps the types.
LEMMA GetObjectPropValueKeeps == ASSUME Typed, GetObjectPropValue, Par(1) \in Int PROVE Effect
<1> DEFINE h == Par(1)
           p == Par(2)
           r == PropertyValue(h, p)
           e == IF h \in DOMAIN db THEN db[h] ELSE NoEntry
           x == <<TypeOf[p], ValueOf(p, h, e)>>
<1>1. Answer("GetObjectPropValue", r)  BY Zenon DEF GetObjectPropValue
<1>2. EntryOK(e)  BY NoEntryOK DEF Typed, Database
<1>3. <<>> \in Seq(LooseItems)  OBVIOUS
<1>4. ASSUME r[1] = "OK" PROVE r[2] \in Seq(LooseItems)
  <2>1. p \in ObjectCodes /\ r[2] = IF p = NonConsumed THEN <<>> ELSE <<x>>  BY <1>4, PropertyValueIs
  <2>2. x \in LooseItems
    <3> HIDE DEF e
    <3> QED  BY <1>2, <2>1, ValueItem
  <2> HIDE DEF x
  <2>3. <<x>> \in Seq(LooseItems)  BY <2>2
  <2> QED  BY <2>1, <2>3, <1>3
<1>5. ASSUME r[1] # "OK" PROVE r[2] = <<>>
  <2> DEFINE y == IF p = NonConsumed THEN <<>> ELSE <<x>>
  <2>1. \E rc : r = <<rc, <<>>>> \/ r = <<"OK", y>>  BY Zenon DEF PropertyValue
  <2> HIDE DEF y, r
  <2> QED  BY <2>1, <1>5
<1>6. Puts(r)  BY <1>3, <1>4, <1>5, Zenon DEF Puts
<1> HIDE DEF r
<1> QED  BY <1>1, <1>6, AnswerKeeps, Zenon

\* doOpenSession and doCloseSession keep the types.
LEMMA SessionsKeep ==
  ASSUME Typed, OpenSession \/ CloseSession, ReqOK(req) PROVE Effect
<1>1. UNCHANGED <<db, card, writes>>  BY DEF OpenSession, CloseSession
<1>2. Database' /\ writes' \in 0..MaxWrites  BY <1>1, Unchanged DEF Typed
<1>0. <<>> \in Seq(LooseItems)  OBVIOUS
<1>3. CASE OpenSession
  <2>1. \E rc, par : Reply(rc, par, <<>>)  BY <1>3, Zenon DEF OpenSession
  <2>2. session' = session \/ session' = Par(1)  BY <1>3, Zenon DEF OpenSession
  <2>3. req.op = "OpenSession"  BY <1>3 DEF OpenSession, Handle
  <2>4. Par(1) = 1  BY <2>3 DEF ReqOK, Par
  <2>5. session' \in {Nothing, 1}  BY <2>2, <2>4 DEF Typed
  <2>6. data' \in Seq(Fields)  BY <1>0, <2>1, ReplyTyped
  <2> QED  BY <1>2, <2>5, <2>6 DEF Effect
<1>4. CASE CloseSession
  <2>1. \E rc, par : Reply(rc, par, <<>>)  BY <1>4, Zenon DEF CloseSession
  <2>2. session' = Nothing  BY <1>4 DEF CloseSession
  <2>6. data' \in Seq(Fields)  BY <1>0, <2>1, ReplyTyped
  <2> QED  BY <1>2, <2>2, <2>6 DEF Effect
<1> QED  BY <1>3, <1>4

\* doGetNumObjects keeps the types.
LEMMA GetNumObjectsKeeps == ASSUME Typed, GetNumObjects PROVE Effect
<1>0. <<>> \in Seq(LooseItems)  OBVIOUS
<1>1. (\E rc, par : Reply(rc, par, <<>>)) /\ Unchanging  BY Zenon DEF GetNumObjects
<1>2. data' \in Seq(Fields)  BY <1>0, <1>1, ReplyTyped
<1> QED  BY <1>1, <1>2, UnchangingKeeps

-----------------------------------------------------------------------------
(* The requests that change the database.                                  *)

\* A name that is read is a name, whatever was read.
LEMMA TextOfName ==
  ASSUME NEW payload \in Seq(Fields), NEW layout, NEW n \in Nat, n = Len(layout), NEW i \in 1..n, layout[i] = STR,
         \A k \in 1..n : layout[k] \in {UINT16, UINT32, STR}
  PROVE  TextOf(Read(layout, payload), i) \in Names
<1> DEFINE r == Read(layout, payload)
<1>1. CASE r.ok
  <2>1. r.out[i] \in Got(STR)  BY <1>1, ReadGot
  <2> HIDE DEF r
  <2>2. TextOf(r, i) = r.out[i]  BY <1>1, Zenon DEF TextOf
  <2> QED  BY <2>1, <2>2, GotName DEF r
<1>2. CASE ~r.ok
  <2>1. 103 \in Nat /\ 103 # 0  OBVIOUS
  <2>2. Char(103) \in Names  BY <2>1, CharName
  <2> HIDE DEF r
  <2>3. TextOf(r, i) = Char(103)  BY <1>2, Zenon DEF TextOf
  <2> QED  BY <2>2, <2>3 DEF r
<1> QED  BY <1>1, <1>2

\* doSetObjectPropValue keeps the types: an object gets a name.
LEMMA SetObjectPropValueKeeps == ASSUME Typed, SetObjectPropValue PROVE Effect
<1> DEFINE h == Par(1)
           name == TextOf(Read(<<STR>>, data), 1)
<1>0. <<>> \in Seq(LooseItems)  OBVIOUS
<1>1. \E rc : Reply(rc, <<>>, <<>>)  BY Zenon DEF SetObjectPropValue
<1>2. data' \in Seq(Fields)  BY <1>0, <1>1, ReplyTyped
<1>3. \/ Unchanging
      \/ /\ h \in DOMAIN db /\ writes < MaxWrites /\ Rename(h, name)
         /\ card' = [card EXCEPT ![h].name = name] /\ writes' = writes + 1 /\ session' = session
  BY Zenon DEF SetObjectPropValue
<1>4. name \in Names
  <2> DEFINE L == <<STR>>
  <2>1. Len(L) = 1 /\ L[1] = STR /\ \A k \in 1..1 : L[k] = STR  OBVIOUS
  <2> HIDE DEF L
  <2>2. 1 \in Nat /\ 1 \in 1..1 /\ 1 = Len(L) /\ \A k \in 1..1 : L[k] \in {UINT16, UINT32, STR}  BY <2>1
  <2>3. TextOf(Read(L, data), 1) \in Names  BY <2>1, <2>2, TextOfName DEF Typed
  <2> QED  BY <2>3 DEF L
<1> HIDE DEF name
<1>5. CASE Unchanging  BY <1>2, <1>5, UnchangingKeeps
<1>6. CASE /\ h \in DOMAIN db /\ writes < MaxWrites /\ Rename(h, name)
           /\ card' = [card EXCEPT ![h].name = name] /\ writes' = writes + 1 /\ session' = session
  <2>1. db' = [db EXCEPT ![h] = [db[h] EXCEPT !.name = name]]  BY <1>6 DEF Rename
  <2>2. card' = [card EXCEPT ![h] = [card[h] EXCEPT !.name = name]]  BY <1>6
  <2>3. /\ DOMAIN db' = DOMAIN db /\ db'[h] = [db[h] EXCEPT !.name = name]
        /\ \A g \in DOMAIN db : g # h => db'[g] = db[g]
    BY <2>1, <1>6
  <2>4. /\ DOMAIN card' = DOMAIN card /\ (h \in DOMAIN card => card'[h] = [card[h] EXCEPT !.name = name])
        /\ \A g \in DOMAIN card : g # h => card'[g] = card[g]
    BY <2>2
  <2>5. EntryOK([db[h] EXCEPT !.name = name])
    <3> DEFINE e == db[h]
               f == [e EXCEPT !.name = name]
    <3>1. EntryOK(e)  BY <1>6 DEF Typed, Database
    <3> HIDE DEF e
    <3>2. DOMAIN e = {"storage", "parent", "format", "size", "name", "modified"}  BY <3>1 DEF EntryOK
    <3>3. /\ DOMAIN f = DOMAIN e /\ f.name = name /\ f.storage = e.storage /\ f.parent = e.parent
          /\ f.format = e.format /\ f.size = e.size /\ f.modified = e.modified
      BY <3>2
    <3> HIDE DEF f
    <3>4. EntryOK(f)  BY <3>1, <3>2, <3>3, <1>4 DEF EntryOK
    <3> QED  BY <3>4 DEF f, e
  <2>6. /\ \E n \in 1..MaxHandle : DOMAIN db = 2..n
        /\ \A g \in DOMAIN db : EntryOK(db[g])
        /\ DOMAIN card \subseteq DOMAIN db /\ \A g \in DOMAIN card : card[g] = db[g]
    BY DEF Typed, Database
  <2>7. \A g \in DOMAIN db' : EntryOK(db'[g])  BY <2>3, <2>5, <2>6
  <2>8. \A g \in DOMAIN card' : card'[g] = db'[g]  BY <2>3, <2>4, <2>6
  <2>9. Database'  BY <2>3, <2>4, <2>6, <2>7, <2>8 DEF Database
  <2>10. writes' \in 0..MaxWrites /\ session' \in {Nothing, 1}  BY <1>6, PacketsAssumption DEF Typed
  <2> QED  BY <1>2, <2>9, <2>10 DEF Effect
<1> QED  BY <1>3, <1>5, <1>6

\* What doSendObjectInfo reads of the dataset.
LEMMA FrontLayout ==
  /\ Len(Front(ObjectLayout)) = 18
  /\ \A i \in 1..18 : Front(ObjectLayout)[i] = ObjectLayout[i]
<1> DEFINE L == ObjectLayout
<1>1. L \in Seq(Int) /\ Len(L) = 19
  <2>1. L \in Seq(Int)  BY DEF ObjectLayout, UINT16, UINT32, STR
  <2> QED  BY <2>1, LayoutIs
<1> HIDE DEF L
<1>2. Front(L) = SubSeq(L, 1, 18)  BY <1>1 DEF Front
<1>3. Len(SubSeq(L, 1, 18)) = 18 /\ \A i \in 1..18 : SubSeq(L, 1, 18)[i] = L[i]  BY <1>1, SubSeqProperties
<1> QED  BY <1>2, <1>3 DEF L

\* What is announced has its type, whatever was sent.
LEMMA AnnouncedIs ==
  ASSUME NEW payload \in Seq(Fields)
  PROVE  /\ Announced(payload).format \in Values(UINT16) /\ Announced(payload).size \in Nat
         /\ Announced(payload).name \in Names
         /\ Announced(payload).modified \in Int /\ 48 + Announced(payload).modified \in Chars
<1> DEFINE L == Front(ObjectLayout)
           r == Read(L, payload)
           number(i) == IF r.ok THEN r.out[i] ELSE 1
           m == IF r.ok THEN TimeOf(r.out[18], 0) ELSE 0
<1>1. /\ Announced(payload).format = number(2) /\ Announced(payload).size = number(4)
      /\ Announced(payload).name = TextOf(r, 16) /\ Announced(payload).modified = m
  BY DEF Announced
<1>2. /\ Len(L) = 18 /\ 18 \in Nat /\ \A i \in 1..18 : L[i] \in {UINT16, UINT32, STR}
      /\ L[2] = UINT16 /\ L[4] = UINT32 /\ L[16] = STR /\ L[18] = STR
  BY FrontLayout, LayoutIs
<1> HIDE DEF L
<1>3. TextOf(r, 16) \in Names
  <2>1. 16 \in 1..18 /\ 18 = Len(L)  BY <1>2
  <2> QED  BY <1>2, <2>1, TextOfName
<1>4. ASSUME r.ok PROVE \A i \in 1..18 : r.out[i] \in Got(L[i])
  <2>1. 18 = Len(L)  BY <1>2
  <2> QED  BY <1>2, <1>4, <2>1, ReadGot
<1> HIDE DEF r
<1>5. number(2) \in Values(UINT16) /\ number(4) \in Nat
  <2>1. CASE r.ok
    <3>1. r.out[2] \in Got(UINT16) /\ r.out[4] \in Got(UINT32)  BY <2>1, <1>2, <1>4
    <3>2. UINT16 # STR /\ UINT32 # STR  BY DEF UINT16, UINT32, STR
    <3>4. Values(UINT16) = Numbers(UINT16) /\ Values(UINT32) = Numbers(UINT32)
      <4>1. UINT16 \in DOMAIN Parts /\ UINT32 \in DOMAIN Parts  BY PartsAre
      <4> QED  BY <4>1, TypesDiffer DEF Values
    <3>5. r.out[2] \in Values(UINT16) /\ r.out[4] \in Values(UINT32)  BY <3>1, <3>2, <3>4 DEF Got
    <3>6. Values(UINT32) = 0..(Long - 1) /\ Long \in Nat  BY ValuesAre, ModulusIs
    <3>3. r.out[2] \in Values(UINT16) /\ r.out[4] \in Nat  BY <3>5, <3>6
    <3> QED  BY <2>1, <3>3
  <2>2. CASE ~r.ok
    <3>1. 1 \in Values(UINT16) /\ 1 \in Nat
      <4>1. 1 \in Codes16  BY ONLY SMT DEF Codes16
      <4> QED  BY <4>1, CodeRange, ValuesAre
    <3> QED  BY <2>2, <3>1
  <2> QED  BY <2>1, <2>2
<1>6. 48 + 0 \in Chars  BY ModulusIs DEF Chars
<1>7. m \in Int /\ 48 + m \in Chars
  <2>1. CASE ~r.ok  BY <2>1, <1>6
  <2>2. CASE r.ok
    <3>1. r.out[18] \in Got(STR)  BY <2>2, <1>2, <1>4
    <3> DEFINE t == r.out[18]
    <3>2. PICK cs \in Seq(Chars) : t = Text(cs)  BY <3>1 DEF Got
    <3> HIDE DEF t
    <3>3. m = TimeOf(t, 0)  BY <2>2 DEF t
    <3>4. CASE t = <<>>
      <4>1. TimeOf(t, 0) = 0  BY <3>4 DEF TimeOf
      <4> QED  BY <3>3, <4>1, <1>6
    <3>5. CASE t # <<>>
      <4>1. cs \in Seq(Nat)
        <5>1. Chars \in SUBSET Nat  BY DEF Chars
        <5> QED  BY <5>1, SeqMonotonic
      <4>2. PICK e : Spelt(cs, e)  BY <4>1, SpeltExists
      <4>3. Text(cs) \in Seq(ByteSet)  BY <4>1, SpeltExists
      <4>4. Len(cs) > 0
        <5>1. Len(cs) \in Nat  BY LenProperties
        <5>2. ASSUME Len(cs) = 0 PROVE FALSE
          <6>1. Len(Text(cs)) = 0  BY <4>2, <5>2 DEF Spelt, Spells
          <6> QED  BY <6>1, <4>3, <3>2, <3>5, EmptySeq
        <5> QED  BY <5>1, <5>2
      <4>5. 1 \in 1..Len(cs) /\ cs[1] \in Chars /\ cs[1] \in Nat
        <5>1. Len(cs) \in Nat  BY LenProperties
        <5>2. 1 \in 1..Len(cs)  BY <4>4, <5>1
        <5>3. cs[1] \in Chars  BY <5>2, LenProperties
        <5> QED  BY <5>2, <5>3 DEF Chars
      <4>6. /\ Utf8Len(cs[1]) \in 1..4 /\ e[1 - 1] \in Nat
            /\ \A k \in 1..Utf8Len(cs[1]) : Text(cs)[e[1 - 1] + k] = <<cs[1], k>>
        BY <4>1, <4>2, <4>5, SpeltAt
      <4>7. e[0] = 0  BY <4>2 DEF Spelt, Spells
      <4>8. t[1] = <<cs[1], 1>>
        <5>1. 1 \in 1..Utf8Len(cs[1])  BY <4>6
        <5>2. 1 - 1 = 0 /\ 0 + 1 = 1  OBVIOUS
        <5>3. Text(cs)[e[1 - 1] + 1] = <<cs[1], 1>>  BY <4>6, <5>1
        <5> QED  BY <5>2, <5>3, <4>7, <3>2
      <4>9. Head(t) = t[1]  BY <4>3, <3>2, <3>5, HeadTailProperties
      <4>10. Head(t)[1] = cs[1]  BY <4>8, <4>9
      <4>11. TimeOf(t, 0) = cs[1] - 48  BY <3>5, <4>10, Zenon DEF TimeOf
      <4>12. 48 + (cs[1] - 48) = cs[1] /\ cs[1] - 48 \in Int  BY <4>5
      <4> QED  BY <3>3, <4>5, <4>11, <4>12
    <3> QED  BY <3>4, <3>5
  <2> QED  BY <2>1, <2>2
<1> QED  BY <1>1, <1>3, <1>5, <1>7

\* So many handles were given out.
LEMMA DomainCount ==
  ASSUME NEW n \in Nat, n > 0 PROVE Cardinality(2..n) = n - 1
<1>1. 2 \in Int /\ n \in Int  OBVIOUS
<1>2. Cardinality(2..n) = IF 2 > n THEN 0 ELSE n - 2 + 1  BY <1>1, FS_Interval
<1> QED  BY <1>2

\* What a new entry is.
NewEntry(parent, a, storage) == [Entry(parent, a.format, a.size, a.name, a.modified) EXCEPT !.storage = storage]

\* What is known of the new object has its type.
LEMMA NewEntryOK ==
  ASSUME NEW parent \in 0..MaxHandle, NEW payload \in Seq(Fields), NEW storage, storage = Storage
  PROVE  EntryOK(NewEntry(parent, Announced(payload), storage))
<1> DEFINE a == Announced(payload)
           f == a.format
           z == a.size
           m == a.name
           d == a.modified
           e == [storage |-> Storage, parent |-> parent, format |-> f, size |-> z, name |-> m, modified |-> d]
           g == [e EXCEPT !.storage = storage]
<1>1. f \in Values(UINT16) /\ z \in Nat /\ m \in Names /\ d \in Int /\ 48 + d \in Chars  BY AnnouncedIs
<1>2. NewEntry(parent, a, storage) = g  BY Zenon DEF NewEntry, Entry
<1> HIDE DEF f, z, m, d
<1>3. /\ DOMAIN g = {"storage", "parent", "format", "size", "name", "modified"}
      /\ g.storage = storage /\ g.parent = parent /\ g.format = f /\ g.size = z /\ g.name = m /\ g.modified = d
  OBVIOUS
<1> HIDE DEF g, a
<1>4. EntryOK(g)  BY <1>1, <1>3 DEF EntryOK
<1> QED  BY <1>2, <1>4 DEF a

\* The objects with a new one.
LEMMA WithIs ==
  ASSUME NEW d, NEW h, NEW e
  PROVE  /\ DOMAIN With(d, h, e) = DOMAIN d \cup {h} /\ With(d, h, e)[h] = e
         /\ \A g \in DOMAIN d : g # h => With(d, h, e)[g] = d[g]
BY DEF With

\* doSendObjectInfo keeps the types: the next handle is given out.
LEMMA SendObjectInfoKeeps == ASSUME Typed, ReqOK(req), SendObjectInfo PROVE Effect
<1> DEFINE a == Announced(data)
           h == Cardinality(DOMAIN db) + 2
           parent == IF Par(2) = All THEN 0 ELSE Par(2)
           entry == NewEntry(parent, a, Par(1))
           refusal == IF ~GetStorage(Par(1)) THEN "INVALID_STORAGE_ID"
                      ELSE IF Par(2) = 0 THEN "INVALID_OBJECT_HANDLE"
                      ELSE IF Par(2) # All /\ Par(2) \notin DOMAIN db THEN "GENERAL_ERROR"
                      ELSE IF Par(2) # All /\ db[Par(2)].format # Folder THEN "INVALID_PARENT_OBJECT"
                      ELSE IF a.size > FreeSpace THEN "STORAGE_FULL"
                      ELSE IF a.size = MaxFile THEN "OBJECT_TOO_LARGE" ELSE "OK"
<1>0. <<>> \in Seq(LooseItems)  OBVIOUS
<1>1. Handle("SendObjectInfo") /\ \E rc, par : Reply(rc, par, <<>>)  BY Zenon DEF SendObjectInfo
<1>2. data' \in Seq(Fields)  BY <1>0, <1>1, ReplyTyped
<1>3. \/ Unchanging
      \/ /\ refusal = "OK" /\ h <= MaxHandle /\ writes < MaxWrites /\ writes' = writes + 1
         /\ db' = With(db, h, entry) /\ (card' = With(card, h, entry) \/ UNCHANGED card)
         /\ UNCHANGED session
  BY Zenon DEF SendObjectInfo, NewEntry
<1>4. ASSUME refusal = "OK"
      PROVE  GetStorage(Par(1)) /\ Par(2) # 0 /\ (Par(2) = All \/ Par(2) \in DOMAIN db)
  <2> DEFINE p == Par(1)
             q == Par(2)
             A == q # All /\ db[q].format # Folder
             B == a.size > FreeSpace
             C == a.size = MaxFile
  <2>1. (IF ~GetStorage(p) THEN "INVALID_STORAGE_ID"
                      ELSE IF q = 0 THEN "INVALID_OBJECT_HANDLE"
                      ELSE IF q # All /\ q \notin DOMAIN db THEN "GENERAL_ERROR"
                      ELSE IF A THEN "INVALID_PARENT_OBJECT"
                      ELSE IF B THEN "STORAGE_FULL"
                      ELSE IF C THEN "OBJECT_TOO_LARGE" ELSE "OK") = "OK"
    BY <1>4
  <2> HIDE DEF p, q, A, B, C
  <2>2. GetStorage(p) /\ q # 0 /\ (q = All \/ q \in DOMAIN db)  BY ONLY <2>1
  <2> QED  BY <2>2 DEF p, q
<1> HIDE DEF refusal
<1>5. CASE Unchanging  BY <1>2, <1>5, UnchangingKeeps
<1>6. CASE /\ refusal = "OK" /\ h <= MaxHandle /\ writes < MaxWrites /\ writes' = writes + 1
           /\ db' = With(db, h, entry) /\ (card' = With(card, h, entry) \/ UNCHANGED card)
           /\ UNCHANGED session
  <2>1. Par(1) = Storage
    <3>1. req.op = "SendObjectInfo"  BY <1>1 DEF Handle
    <3>2. Par(1) \in {Storage, Storage + 1}  BY <3>1 DEF ReqOK, Par
    <3>3. Par(1) \in {0, Storage}  BY <1>4, <1>6 DEF GetStorage
    <3> QED  BY <3>2, <3>3 DEF Storage
  <2>2. parent \in 0..MaxHandle
    <3>1. DOMAIN db \in SUBSET (2..MaxHandle) /\ MaxHandle \in Nat  BY HandlesAre DEF Typed
    <3> QED  BY <3>1, <1>4, <1>6
  <2>3. EntryOK(entry)  BY <2>1, <2>2, NewEntryOK DEF Typed
  <2> HIDE DEF entry
  <2>4. PICK n \in 1..MaxHandle : DOMAIN db = 2..n  BY DEF Typed, Database
  <2>5. h = n + 1 /\ n \in Nat /\ n > 0 /\ MaxHandle \in Nat
    <3>1. n \in Nat /\ n > 0 /\ MaxHandle \in Nat  BY <2>4, HandlesAre DEF Typed
    <3>2. Cardinality(2..n) = n - 1  BY <3>1, DomainCount
    <3> QED  BY <3>1, <3>2, <2>4
  <2> HIDE DEF h
  <2>6. DOMAIN db \cup {h} = 2..(n + 1) /\ h \notin DOMAIN db /\ n + 1 \in 1..MaxHandle
    BY <2>4, <2>5, <1>6
  <2>7. /\ \A g \in DOMAIN db : EntryOK(db[g])
        /\ DOMAIN card \subseteq DOMAIN db /\ \A g \in DOMAIN card : card[g] = db[g]
    BY DEF Typed, Database
  <2>8. DOMAIN db' = 2..(n + 1) /\ db'[h] = entry /\ \A g \in DOMAIN db : db'[g] = db[g]
    <3>1. /\ DOMAIN With(db, h, entry) = DOMAIN db \cup {h} /\ With(db, h, entry)[h] = entry
          /\ \A g \in DOMAIN db : g # h => With(db, h, entry)[g] = db[g]
      BY ONLY DEF With
    <3>2. db' = With(db, h, entry)  BY <1>6
    <3>3. \A g \in DOMAIN db : g # h  BY <2>6
    <3>4. DOMAIN db' = 2..(n + 1)  BY ONLY <3>1, <3>2, <2>6
    <3>5. db'[h] = entry /\ \A g \in DOMAIN db : db'[g] = db[g]  BY ONLY <3>1, <3>2, <3>3, Zenon
    <3> QED  BY <3>4, <3>5
  <2>9. \A g \in DOMAIN db' : EntryOK(db'[g])
    <3>1. \A g \in DOMAIN db' : g = h \/ g \in DOMAIN db  BY <2>6, <2>8
    <3> QED  BY <3>1, <2>3, <2>7, <2>8
  <2>10. DOMAIN card' \subseteq DOMAIN db' /\ \A g \in DOMAIN card' : card'[g] = db'[g]
    <3>1. CASE UNCHANGED card
      <4>1. DOMAIN db \subseteq DOMAIN db'  BY <2>6, <2>8
      <4> QED  BY <3>1, <4>1, <2>7, <2>8
    <3>2. CASE card' = With(card, h, entry)
      <4>1. h \notin DOMAIN card  BY <2>6, <2>7
      <4>2. DOMAIN card' = DOMAIN card \cup {h} /\ card'[h] = entry /\ \A g \in DOMAIN card : card'[g] = card[g]
        <5>1. /\ DOMAIN With(card, h, entry) = DOMAIN card \cup {h} /\ With(card, h, entry)[h] = entry
              /\ \A g \in DOMAIN card : g # h => With(card, h, entry)[g] = card[g]
          BY ONLY DEF With
        <5>2. \A g \in DOMAIN card : g # h  BY <4>1
        <5> QED  BY ONLY <3>2, <5>1, <5>2, Zenon
      <4>3. DOMAIN db \cup {h} = DOMAIN db'  BY <2>6, <2>8
      <4> QED  BY <4>2, <4>3, <2>7, <2>8
    <3> QED  BY <1>6, <3>1, <3>2
  <2>11. Database'  BY <2>6, <2>8, <2>9, <2>10 DEF Database
  <2>12. writes' \in 0..MaxWrites /\ session' \in {Nothing, 1}  BY <1>6, PacketsAssumption DEF Typed
  <2> QED  BY <1>2, <2>11, <2>12 DEF Effect
<1> QED  BY <1>3, <1>5, <1>6

\* What any handler does.
LEMMA HandlerTyped == ASSUME Typed, Handler PROVE Effect
<1>1. pc = "handle"  BY HandlerReplies DEF Replies
<1>2. ReqOK(req) /\ Par(1) \in Int
  <2>1. ReqOK(req)  BY <1>1 DEF Typed
  <2>2. req.par \in Seq(Int) /\ Len(req.par) = 5
    <3>1. req \in [op : Operations, tid : Int, par : Seq(Int)] /\ Len(req.par) = 5  BY <2>1 DEF ReqOK
    <3> QED  BY <3>1
  <2>3. 1 \in 1..Len(req.par)  BY <2>2
  <2> QED  BY <2>1, <2>2, <2>3, LenProperties DEF Par
<1>3. CASE GetDeviceInfo  BY <1>3, GetDeviceInfoKeeps
<1>4. CASE OpenSession \/ CloseSession  BY <1>2, <1>4, SessionsKeep
<1>5. CASE GetStorageIDs  BY <1>5, GetStorageIDsKeeps
<1>6. CASE GetStorageInfo  BY <1>6, GetStorageInfoKeeps
<1>7. CASE GetObjectPropsSupported  BY <1>7, GetObjectPropsSupportedKeeps
<1>8. CASE GetObjectHandles  BY <1>8, GetObjectHandlesKeeps
<1>9. CASE GetNumObjects  BY <1>9, GetNumObjectsKeeps
<1>10. CASE GetObjectReferences  BY <1>10, GetObjectReferencesKeeps
<1>11. CASE SetObjectReferences  BY <1>11, SetObjectReferencesKeeps
<1>12. CASE GetObjectPropValue  BY <1>2, <1>12, GetObjectPropValueKeeps
<1>13. CASE SetObjectPropValue  BY <1>13, SetObjectPropValueKeeps
<1>14. CASE GetDevicePropValue  BY <1>14, GetDevicePropValueKeeps
<1>15. CASE SetDevicePropValue \/ ResetDevicePropValue \/ Unsupported \/ GetThumb  BY <1>15, RefusalsKeep
<1>16. CASE GetObjectPropList  BY <1>16, GetObjectPropListKeeps
<1>17. CASE GetObjectInfo  BY <1>17, GetObjectInfoKeeps
<1>18. CASE GetObjectPropDesc  BY <1>18, GetObjectPropDescKeeps
<1>19. CASE GetDevicePropDesc  BY <1>19, GetDevicePropDescKeeps
<1>20. CASE SendObjectInfo  BY <1>2, <1>20, SendObjectInfoKeeps
<1> QED  BY <1>3, <1>4, <1>5, <1>6, <1>7, <1>8, <1>9, <1>10, <1>11, <1>12, <1>13, <1>14, <1>15, <1>16, <1>17, <1>18,
            <1>19, <1>20, Zenon DEF Handler

-----------------------------------------------------------------------------
(* The types, action by action.                                            *)

\* What is known of an object is of the types it is made of.
LEMMA EntryIsOK ==
  ASSUME NEW parent \in 0..MaxHandle, NEW format \in Values(UINT16), NEW size \in Nat, NEW name \in Names,
         NEW modified \in Int, 48 + modified \in Chars
  PROVE  EntryOK(Entry(parent, format, size, name, modified))
<1> DEFINE e == [storage |-> Storage, parent |-> parent, format |-> format, size |-> size, name |-> name,
                 modified |-> modified]
<1>1. Entry(parent, format, size, name, modified) = e  BY Zenon DEF Entry
<1>2. /\ DOMAIN e = {"storage", "parent", "format", "size", "name", "modified"}
      /\ e.storage = Storage /\ e.parent = parent /\ e.format = format /\ e.size = size /\ e.name = name
      /\ e.modified = modified
  OBVIOUS
<1> HIDE DEF e
<1>3. EntryOK(e)  BY <1>2 DEF EntryOK
<1> QED  BY <1>1, <1>3

\* A name on the card is one that can be handled.
LEMMA CardNameOK == ASSUME NEW name \in CardNames PROVE Text(name) \in Names
<1>1. name \in Seq(Unicode)  BY PacketsAssumption
<1>2. Unicode \in SUBSET Nat /\ 0 \notin Unicode
  <2>1. Unicode \in SUBSET Nat  BY ONLY SMT DEF Unicode
  <2>2. 0 \notin Unicode  BY ONLY SMT DEF Unicode
  <2> QED  BY ONLY <2>1, <2>2, Zenon
<1>3. name \in Seq(Nat)  BY <1>1, <1>2, SeqMonotonic
<1>4. \A i \in 1..Len(name) : name[i] # 0
  <2> SUFFICES ASSUME NEW i \in 1..Len(name) PROVE name[i] # 0  OBVIOUS
  <2>1. name[i] \in Unicode  BY <1>1, LenProperties
  <2> QED  BY <2>1, <1>2
<1> QED  BY <1>3, <1>4 DEF Names

\* The objects the card has at first.
LEMMA InitTyped == Init => Typed
<1> SUFFICES ASSUME Init PROVE Typed  OBVIOUS
<1>1. PICK name \in CardNames :
        db = [h \in 2..4 |-> CASE h = 2 -> Entry(0, Folder, 0, Char(100), 1)
                               [] h = 3 -> Entry(0, File, Long + 1, Char(233), 2)
                               [] h = 4 -> Entry(2, File, 1, Text(name), 3)]
  BY DEF Init
<1> DEFINE a == Entry(0, Folder, 0, Char(100), 1)
           b == Entry(0, File, Long + 1, Char(233), 2)
           c == Entry(2, File, 1, Text(name), 3)
<1>2. DOMAIN db = 2..4 /\ db[2] = a /\ db[3] = b /\ db[4] = c
  <2> HIDE DEF a, b, c
  <2>1. db = [h \in 2..4 |-> CASE h = 2 -> a [] h = 3 -> b [] h = 4 -> c]  BY <1>1 DEF a, b, c
  <2> QED  BY ONLY <2>1, SMT
<1>3. MaxHandle \in Nat /\ MaxHandle >= 4 /\ Long \in Nat /\ Modulus(2) = 65536  BY PacketsAssumption, ModulusIs
<1>4. Folder \in Values(UINT16) /\ File \in Values(UINT16)
  <2>1. Folder \in Codes16 /\ File \in Codes16  BY ONLY SMT DEF Folder, File, Codes16
  <2> QED  BY <2>1, CodeRange, ValuesAre
<1>5. 48 + 1 \in Chars /\ 48 + 2 \in Chars /\ 48 + 3 \in Chars  BY <1>3 DEF Chars
<1>6. Char(100) \in Names /\ Char(233) \in Names /\ Text(name) \in Names  BY CharName, CardNameOK
<1>7. EntryOK(a) /\ EntryOK(b) /\ EntryOK(c)
  <2>1. 0 \in 0..MaxHandle /\ 2 \in 0..MaxHandle /\ Long + 1 \in Nat /\ 0 \in Nat /\ 1 \in Nat /\ 1 \in Int /\ 2 \in Int /\ 3 \in Int
    BY <1>3
  <2> QED  BY ONLY <2>1, <1>4, <1>5, <1>6, EntryIsOK
<1> HIDE DEF a, b, c
<1>8. Database
  <2>1. \A h \in DOMAIN db : EntryOK(db[h])
    <3>1. \A h \in 2..4 : h = 2 \/ h = 3 \/ h = 4  OBVIOUS
    <3> QED  BY <1>2, <1>7, <3>1
  <2>2. card = db  BY DEF Init
  <2>3. 4 \in 1..MaxHandle  BY <1>3
  <2> QED  BY <2>1, <2>2, <2>3, <1>2 DEF Database
<1>9. pc = "request" /\ req = Nothing /\ wire = <<>> /\ host.phase = "idle"  BY DEF Init, Idle
<1>10. data \in Seq(Fields) /\ session \in {Nothing, 1} /\ writes \in 0..MaxWrites
  BY PacketsAssumption DEF Init
<1>11. \A i \in 1..Len(wire) : ContainerOK(wire[i])  BY <1>9
<1> QED  BY <1>8, <1>9, <1>10, <1>11 DEF Typed

\* The parameters of a request as it is read are numbers, whatever the container is.
LEMMA ParametersTyped ==
  ASSUME NEW c, ContainerOK(c), NEW left \in Leftover
  PROVE  /\ Parameters(c, left) \in Seq(Int) /\ Len(Parameters(c, left)) = 5
         /\ c.op = "OpenSession" => Parameters(c, left)[1] = 1
         /\ c.op = "SendObjectInfo" => Parameters(c, left)[1] \in {Storage, Storage + 1}
<1> DEFINE p == Parameters(c, left)
<1>1. p = [i \in 1..5 |-> IF c.kind = "data" THEN Word(c.payload, i, left)
                          ELSE IF i <= Len(c.par) THEN c.par[i] ELSE left]
  BY Zenon DEF Parameters
<1>2. left \in Int  BY DEF Leftover
<1> HIDE DEF p
<1>3. CASE c.kind = "data" /\ c.op \in DataIn /\ \E par : Asked(c.op, par, c.payload)
  <2> DEFINE y == c.payload
  <2>1. PICK par : Asked(c.op, par, y)  BY <1>3
  <2>2. y \in Seq(Fields)  BY <2>1 DEF Asked
  <2>3. p = [i \in 1..5 |-> Word(y, i, left)]  BY <1>1, <1>3
  <2>4. ASSUME NEW i \in 1..5 PROVE Word(y, i, left) \in Int
    <3> HIDE DEF y
    <3>1. CASE i > Len(y)  BY <3>1, <1>2 DEF Word
    <3>2. CASE i <= Len(y)
      <4>1. y[i] \in Fields
        <5>1. i \in 1..Len(y)  BY <2>2, <3>2, LenProperties
        <5> QED  BY <2>2, <5>1, LenProperties
      <4>2. y[i][2] \in Int  BY <4>1, FieldsAre
      <4>3. Garbage \in Int  BY DEF Garbage
      <4>4. ~(i > Len(y))
        <5>1. Len(y) \in Nat  BY <2>2, LenProperties
        <5> QED  BY <5>1, <3>2
      <4>5. Word(y, i, left) = IF \A j \in 1..i : y[j][1] = 4 THEN y[i][2] ELSE Garbage  BY <4>4 DEF Word
      <4> QED  BY <4>2, <4>3, <4>5
    <3>3. Len(y) \in Nat  BY <2>2, LenProperties
    <3> QED  BY <3>1, <3>2, <3>3
  <2>5. p \in Seq(Int) /\ Len(p) = 5 /\ p[1] = Word(y, 1, left)
    <3> HIDE DEF y
    <3> QED  BY <2>3, <2>4
  <2>6. c.op # "OpenSession"  BY <1>3 DEF DataIn
  <2>7. c.op = "SendObjectInfo" => p[1] = Storage
    <3> SUFFICES ASSUME c.op = "SendObjectInfo" PROVE p[1] = Storage  OBVIOUS
    <3>1. Len(y) > 0 /\ y[1] = <<4, Storage>>  BY <2>1 DEF Asked
    <3> HIDE DEF y
    <3>2. ~(1 > Len(y)) /\ (\A j \in 1..1 : y[j][1] = 4) /\ y[1][2] = Storage
      <4>1. Len(y) \in Nat  BY <2>2, LenProperties
      <4>2. \A j \in 1..1 : j = 1  OBVIOUS
      <4> QED  BY <3>1, <4>1, <4>2
    <3>3. Word(y, 1, left) = Storage  BY <3>2 DEF Word
    <3> QED  BY <2>5, <3>3
  <2> QED  BY <2>5, <2>6, <2>7 DEF p
<1>4. CASE c.kind = "request" /\ \E payload : Asked(c.op, c.par, payload)
  <2> DEFINE q == c.par
  <2>1. PICK payload : Asked(c.op, q, payload)  BY <1>4
  <2>2. q \in Seq(Int)  BY <2>1 DEF Asked
  <2>3. p = [i \in 1..5 |-> IF i <= Len(q) THEN q[i] ELSE left]  BY <1>1, <1>4
  <2>4. c.op = "OpenSession" => Len(q) >= 1 /\ q[1] = 1
    <3>1. c.op = "OpenSession" => q = <<1>>  BY <2>1, Zenon DEF Asked
    <3>2. \A x : x = <<1>> => Len(x) >= 1 /\ x[1] = 1  OBVIOUS
    <3> HIDE DEF q
    <3> QED  BY ONLY <3>1, <3>2, Zenon
  <2>5. c.op = "SendObjectInfo" => Len(q) >= 1 /\ q[1] \in {Storage, Storage + 1}  BY <2>1 DEF Asked
  <2> HIDE DEF q
  <2>6. \A i \in 1..5 : (IF i <= Len(q) THEN q[i] ELSE left) \in Int
    <3> SUFFICES ASSUME NEW i \in 1..5 PROVE (IF i <= Len(q) THEN q[i] ELSE left) \in Int  OBVIOUS
    <3>1. CASE i <= Len(q)
      <4>1. i \in 1..Len(q)  BY <3>1, <2>2, LenProperties
      <4> QED  BY <4>1, <3>1, <2>2, LenProperties
    <3> QED  BY <3>1, <1>2
  <2>7. p \in Seq(Int) /\ Len(p) = 5 /\ p[1] = (IF 1 <= Len(q) THEN q[1] ELSE left)  BY <2>3, <2>6
  <2>8. Len(q) \in Nat  BY <2>2, LenProperties
  <2> QED  BY <2>4, <2>5, <2>7, <2>8 DEF p
<1> QED  BY <1>3, <1>4 DEF ContainerOK

\* What is kept by a step that leaves the objects alone.
Stays == UNCHANGED <<session, db, card, writes>>

\* Where the database is left alone, its types are.
LEMMA StaysKeeps == ASSUME Typed, Stays PROVE Database' /\ session' \in {Nothing, 1} /\ writes' \in 0..MaxWrites
BY Unchanged DEF Typed, Stays

\* mRequest.read keeps the types: the words of a data container are numbers, too.
LEMMA ReceiveTyped == ASSUME Typed, PacketsInv, Receive PROVE Typed'
<1> DEFINE c == Head(wire)
<1>1. /\ pc = "request" /\ wire # <<>> /\ UNCHANGED host /\ wire' = Tail(wire)
      /\ c = wire[1] /\ Len(wire) \in 1..2 /\ Len(wire') = Len(wire) - 1
      /\ \A i \in 1..Len(wire') : wire'[i] = wire[i + 1]
      /\ c.tid \in 0..(Tids - 1)
  BY WireTail DEF Receive, PacketsInv, WireOK
<1>2. PICK left \in Leftover : req' = [op |-> c.op, tid |-> c.tid, par |-> Parameters(c, left)]
  BY Zenon DEF Receive
<1>3. pc' # "request" /\ data' = <<>> /\ Stays
  <2>1. pc' \in {"data", "handle"} /\ data' = <<>>  BY DEF Receive
  <2>2. Stays  BY DEF Receive, Stays
  <2> QED  BY <2>1, <2>2
<1>4. ContainerOK(c)  BY <1>1 DEF Typed
<1>5. c.op \in Operations
  <2>1. \A par, payload : Asked(c.op, par, payload) => c.op \in Operations  BY Zenon DEF Asked
  <2> QED  BY <1>4, <2>1, Zenon DEF ContainerOK
<1> DEFINE p == Parameters(c, left)
<1>6. /\ p \in Seq(Int) /\ Len(p) = 5 /\ (c.op = "OpenSession" => p[1] = 1)
      /\ (c.op = "SendObjectInfo" => p[1] \in {Storage, Storage + 1})
  BY <1>2, <1>4, ParametersTyped
<1>7. c.tid \in Int  BY <1>1, PacketsAssumption
<1> HIDE DEF c, p
<1>8. ReqOK(req')
  <2>1. req' = [op |-> c.op, tid |-> c.tid, par |-> p]  BY <1>2 DEF p
  <2>2. req' \in [op : Operations, tid : Int, par : Seq(Int)]  BY <2>1, <1>5, <1>6, <1>7
  <2>3. req'.op = c.op /\ req'.par = p  BY <2>1
  <2> QED  BY <2>2, <2>3, <1>6 DEF ReqOK
<1>9. \A i \in 1..Len(wire') : ContainerOK(wire'[i])  BY <1>1 DEF Typed
<1>10. data' \in Seq(Fields)  BY <1>3
<1>11. Database' /\ session' \in {Nothing, 1} /\ writes' \in 0..MaxWrites  BY <1>3, StaysKeeps
<1>12. (host.phase = "sending" => Asked(host.op, host.par, host.payload)) /\ (host.phase # "idle" => Enough(host.op, host.par))
  BY DEF Typed
<1> QED  BY <1>1, <1>3, <1>8, <1>9, <1>10, <1>11, <1>12 DEF Typed

\* mData.read keeps the types: so are the fields of a request.
LEMMA ReceiveDataTyped == ASSUME Typed, PacketsInv, ReceiveData PROVE Typed'
<1> DEFINE c == Head(wire)
<1>1. /\ pc = "data" /\ pc' = "handle" /\ wire # <<>> /\ UNCHANGED <<req, host>> /\ wire' = Tail(wire)
      /\ c = wire[1] /\ Len(wire) \in 1..2 /\ Len(wire') = Len(wire) - 1
      /\ \A i \in 1..Len(wire') : wire'[i] = wire[i + 1]
  BY WireTail DEF ReceiveData, PacketsInv, WireOK
<1>2. data' = IF c.kind = "data" THEN c.payload ELSE [i \in DOMAIN c.par |-> Field(4, c.par[i])]
  BY Zenon DEF ReceiveData
<1>3. Stays  BY DEF ReceiveData, Stays
<1>4. ContainerOK(c)  BY <1>1 DEF Typed
<1> HIDE DEF c
<1>5. data' \in Seq(Fields)
  <2>1. CASE c.kind = "data" /\ \E par : Asked(c.op, par, c.payload)
    <3>1. \A par, payload : Asked(c.op, par, payload) => payload \in Seq(Fields)  BY Zenon DEF Asked
    <3>2. data' = c.payload  BY <1>2, <2>1
    <3> QED  BY <2>1, <3>1, <3>2, Zenon
  <2>2. CASE c.kind = "request" /\ \E payload : Asked(c.op, c.par, payload)
    <3> DEFINE q == c.par
    <3>1. \A par, payload : Asked(c.op, par, payload) => par \in Seq(Int)  BY Zenon DEF Asked
    <3>2. q \in Seq(Int)  BY <2>2, <3>1, Zenon
    <3>3. data' = [i \in DOMAIN q |-> Field(4, q[i])]  BY <1>2, <2>2
    <3> HIDE DEF q
    <3>4. \A v \in Int : Field(4, v) \in Fields
      <4> SUFFICES ASSUME NEW v \in Int PROVE Field(4, v) \in Fields  OBVIOUS
      <4>1. 4 \in Widths  BY DEF Widths
      <4> QED  BY <4>1, FieldTyped
    <3>5. DOMAIN q = 1..Len(q) /\ Len(q) \in Nat /\ \A i \in 1..Len(q) : q[i] \in Int  BY <3>2, LenProperties
    <3> QED  BY <3>3, <3>4, <3>5
  <2> QED  BY <1>4, <2>1, <2>2 DEF ContainerOK
<1>6. \A i \in 1..Len(wire') : ContainerOK(wire'[i])  BY <1>1 DEF Typed
<1>7. Database' /\ session' \in {Nothing, 1} /\ writes' \in 0..MaxWrites  BY <1>3, StaysKeeps
<1>8. ReqOK(req)  BY <1>1 DEF Typed
<1>9. (host.phase = "sending" => Asked(host.op, host.par, host.payload)) /\ (host.phase # "idle" => Enough(host.op, host.par))
  BY DEF Typed
<1> QED  BY <1>1, <1>5, <1>6, <1>7, <1>8, <1>9 DEF Typed

\* Back to the next request the types are kept.
LEMMA AbandonTyped ==
  ASSUME Typed, Abandon, Stays, UNCHANGED wire,
         host'.phase = "sending" => Asked(host'.op, host'.par, host'.payload),
         host'.phase # "idle" => Enough(host'.op, host'.par)
  PROVE  Typed'
<1>1. pc' = "request" /\ req' = Nothing /\ data' = <<>>  BY DEF Abandon
<1>2. data' \in Seq(Fields)  BY <1>1
<1>3. Database' /\ session' \in {Nothing, 1} /\ writes' \in 0..MaxWrites  BY StaysKeeps
<1> QED  BY <1>1, <1>2, <1>3 DEF Typed

\* Data that are late leave the types.
LEMMA DataLateTyped == ASSUME Typed, DataLate PROVE Typed'
<1>1. Abandon /\ Stays /\ UNCHANGED <<wire, host>>  BY DEF DataLate, Stays
<1> QED  BY <1>1, AbandonTyped DEF Typed

\* A failed write leaves the types.
LEMMA WriteFailsTyped == ASSUME Typed, WriteFails PROVE Typed'
<1>1. Abandon /\ Stays /\ UNCHANGED <<wire, host>>  BY DEF WriteFails, Stays
<1> QED  BY <1>1, AbandonTyped DEF Typed

\* mResponse.write leaves the types.
LEMMA RespondTyped == ASSUME Typed, PacketsInv, Respond PROVE Typed'
<1>1. Abandon /\ Stays /\ UNCHANGED wire  BY DEF Respond, Stays
<1>2. host' = IF Listens THEN [host EXCEPT !.phase = "done", !.heard = resp] ELSE host  BY DEF Respond
<1>3. CASE Listens
  <2>1. host'.phase = "done" /\ host'.op = host.op /\ host'.par = host.par
    BY <1>2, <1>3 DEF PacketsInv, HostOK
  <2>2. Enough(host.op, host.par)  BY <1>3 DEF Typed, Listens
  <2> QED  BY <1>1, <2>1, <2>2, AbandonTyped
<1>4. CASE ~Listens  BY <1>1, <1>2, <1>4, AbandonTyped DEF Typed
<1> QED  BY <1>3, <1>4

\* mData.write leaves the types.
LEMMA SendDataTyped == ASSUME Typed, PacketsInv, SendData PROVE Typed'
<1>1. pc = "send" /\ pc' = "respond" /\ UNCHANGED <<req, data, wire>> /\ Stays  BY DEF SendData, Stays
<1>2. host' = IF Listens /\ req.op \notin DataIn THEN [host EXCEPT !.payload = data] ELSE host  BY DEF SendData
<1>3. /\ host'.phase = "sending" => Asked(host'.op, host'.par, host'.payload)
      /\ host'.phase # "idle" => Enough(host'.op, host'.par)
  <2>1. CASE Listens /\ req.op \notin DataIn
    <3>1. host'.phase = "waiting" /\ host'.op = host.op /\ host'.par = host.par
      BY <1>2, <2>1 DEF PacketsInv, HostOK, Listens
    <3> QED  BY <3>1, <2>1 DEF Typed, Listens
  <2>2. CASE ~(Listens /\ req.op \notin DataIn)  BY <1>2, <2>2 DEF Typed
  <2> QED  BY <2>1, <2>2
<1>4. Database' /\ session' \in {Nothing, 1} /\ writes' \in 0..MaxWrites  BY <1>1, StaysKeeps
<1>5. data' \in Seq(Fields) /\ ReqOK(req') /\ \A i \in 1..Len(wire') : ContainerOK(wire'[i])  BY <1>1 DEF Typed
<1> QED  BY <1>1, <1>3, <1>4, <1>5 DEF Typed

\* A handler keeps the types.
LEMMA HandlerKeepsTyped == ASSUME Typed, Handler PROVE Typed'
<1>1. pc = "handle" /\ pc' = "send" /\ UNCHANGED <<req, wire, host>>  BY HandlerReplies DEF Replies
<1>2. data' \in Seq(Fields) /\ session' \in {Nothing, 1} /\ Database' /\ writes' \in 0..MaxWrites
  BY HandlerTyped DEF Effect
<1>3. ReqOK(req') /\ \A i \in 1..Len(wire') : ContainerOK(wire'[i])  BY <1>1 DEF Typed
<1>4. /\ host'.phase = "sending" => Asked(host'.op, host'.par, host'.payload)
      /\ host'.phase # "idle" => Enough(host'.op, host'.par)
  BY <1>1 DEF Typed
<1> QED  BY <1>1, <1>2, <1>3, <1>4 DEF Typed

\* A request keeps the types.
LEMMA AskTyped == ASSUME Typed, PacketsInv, Ask PROVE Typed'
<1> DEFINE tid == (host.tid + 1) % Tids
<1>1. PICK r \in Requests :
        /\ host' = [phase |-> IF r.op \in DataIn THEN "sending" ELSE "waiting", op |-> r.op,
                    par |-> r.par, payload |-> r.payload, heard |-> Nothing, tid |-> tid]
        /\ wire' = Append(wire, [kind |-> "request", op |-> r.op, tid |-> tid, par |-> r.par,
                                 payload |-> <<>>])
  BY Zenon DEF Ask
<1> DEFINE c == [kind |-> "request", op |-> r.op, tid |-> tid, par |-> r.par, payload |-> <<>>]
<1>2. Len(wire) < 2 /\ UNCHANGED <<pc, req, data>> /\ Stays  BY DEF Ask, Stays
<1>3. host'.op = r.op /\ host'.par = r.par /\ host'.payload = r.payload  BY <1>1
<1>4. c.kind = "request" /\ c.op = r.op /\ c.par = r.par /\ wire' = Append(wire, c)  BY <1>1
<1>5. Asked(r.op, r.par, r.payload)  BY RequestIs
<1> HIDE DEF tid, c
<1>6. ContainerOK(c)  BY <1>4, <1>5 DEF ContainerOK
<1>7. /\ Len(wire') = Len(wire) + 1 /\ wire'[Len(wire')] = c /\ Len(wire) \in 0..1
      /\ \A i \in 1..Len(wire) : wire'[i] = wire[i]
  BY <1>2, <1>4, WireAppend DEF PacketsInv, WireOK
<1>8. \A i \in 1..Len(wire') : ContainerOK(wire'[i])
  <2> SUFFICES ASSUME NEW i \in 1..Len(wire') PROVE ContainerOK(wire'[i])  OBVIOUS
  <2>1. i = Len(wire') \/ i \in 1..Len(wire)  BY <1>7
  <2> QED  BY <2>1, <1>6, <1>7 DEF Typed
<1>9. Database' /\ session' \in {Nothing, 1} /\ writes' \in 0..MaxWrites  BY <1>2, StaysKeeps
<1>10. Asked(host'.op, host'.par, host'.payload) /\ Enough(host'.op, host'.par)
  <2>1. Enough(r.op, r.par)  BY <1>5 DEF Asked
  <2> QED  BY <2>1, <1>3, <1>5
<1>11. data' \in Seq(Fields) /\ (pc' = "request" => req' = Nothing) /\ (pc' # "request" => ReqOK(req'))
  BY <1>2 DEF Typed
<1> QED  BY <1>8, <1>9, <1>10, <1>11 DEF Typed

\* The data of a request keep the types.
LEMMA SendPayloadTyped == ASSUME Typed, PacketsInv, SendPayload PROVE Typed'
<1> DEFINE c == Container("data")
<1>1. /\ host.phase = "sending" /\ Len(wire) < 2 /\ wire' = Append(wire, c)
      /\ host' = [host EXCEPT !.phase = "waiting"] /\ UNCHANGED <<pc, req, data>> /\ Stays
  BY DEF SendPayload, Stays
<1>2. host'.phase = "waiting" /\ host'.op = host.op /\ host'.par = host.par  BY <1>1 DEF PacketsInv, HostOK
<1>3. c.kind = "data" /\ c.op = host.op /\ c.payload = host.payload  BY DEF Container
<1>4. host.op \in DataIn /\ Asked(host.op, host.par, host.payload) /\ Enough(host.op, host.par)
  BY <1>1 DEF PacketsInv, HostOK, Typed
<1> HIDE DEF c
<1>5. ContainerOK(c)  BY <1>3, <1>4 DEF ContainerOK
<1>6. /\ Len(wire') = Len(wire) + 1 /\ wire'[Len(wire')] = c /\ Len(wire) \in 0..1
      /\ \A i \in 1..Len(wire) : wire'[i] = wire[i]
  BY <1>1, WireAppend DEF PacketsInv, WireOK
<1>7. \A i \in 1..Len(wire') : ContainerOK(wire'[i])
  <2> SUFFICES ASSUME NEW i \in 1..Len(wire') PROVE ContainerOK(wire'[i])  OBVIOUS
  <2>1. i = Len(wire') \/ i \in 1..Len(wire)  BY <1>6
  <2> QED  BY <2>1, <1>5, <1>6 DEF Typed
<1>8. Database' /\ session' \in {Nothing, 1} /\ writes' \in 0..MaxWrites  BY <1>1, StaysKeeps
<1>9. data' \in Seq(Fields) /\ (pc' = "request" => req' = Nothing) /\ (pc' # "request" => ReqOK(req'))
  BY <1>1 DEF Typed
<1> QED  BY <1>2, <1>4, <1>7, <1>8, <1>9 DEF Typed

\* A host that forgets its transaction leaves the types.
LEMMA ForgetTyped ==
  ASSUME Typed, Forget, wire' \in {wire, <<>>}, UNCHANGED <<pc, req, data>>, Stays PROVE Typed'
<1>1. host'.phase = "idle"  BY DEF Forget, Idle
<1>2. \A i \in 1..Len(wire') : ContainerOK(wire'[i])
  <2>1. CASE wire' = wire  BY <2>1 DEF Typed
  <2>2. CASE wire' = <<>>
    <3>1. \A i \in 1..Len(<<>>) : ContainerOK(wire'[i])  OBVIOUS
    <3> QED  BY <2>2, <3>1
  <2> QED  BY <2>1, <2>2
<1>3. Database' /\ session' \in {Nothing, 1} /\ writes' \in 0..MaxWrites  BY StaysKeeps
<1>4. data' \in Seq(Fields) /\ (pc' = "request" => req' = Nothing) /\ (pc' # "request" => ReqOK(req'))
  BY DEF Typed
<1> QED  BY <1>1, <1>2, <1>3, <1>4 DEF Typed

\* A host that is done leaves the types.
LEMMA ConcludeTyped == ASSUME Typed, Conclude PROVE Typed'
<1>1. Forget /\ wire' \in {wire, <<>>} /\ UNCHANGED <<pc, req, data>> /\ Stays  BY DEF Conclude, Stays
<1> QED  BY <1>1, ForgetTyped

\* A host that gives up leaves the types.
LEMMA GiveUpTyped == ASSUME Typed, GiveUp PROVE Typed'
<1>1. Forget /\ wire' \in {wire, <<>>} /\ UNCHANGED <<pc, req, data>> /\ Stays  BY DEF GiveUp, Stays
<1> QED  BY <1>1, ForgetTyped

\* The types, throughout.
THEOREM TypedInvariance == Spec => []Typed
<1>1. ASSUME Typed, PacketsInv, [Next]_vars PROVE Typed'
  <2>1. CASE UNCHANGED vars
    <3>1. UNCHANGED <<pc, req, data, wire, host>> /\ Stays  BY <2>1 DEF vars, Stays
    <3>2. Database' /\ session' \in {Nothing, 1} /\ writes' \in 0..MaxWrites  BY <1>1, <3>1, StaysKeeps
    <3> QED  BY <1>1, <3>1, <3>2 DEF Typed
  <2>2. CASE Next
    BY <1>1, <2>2, ReceiveTyped, ReceiveDataTyped, DataLateTyped, HandlerKeepsTyped, SendDataTyped, RespondTyped,
       WriteFailsTyped, AskTyped, SendPayloadTyped, ConcludeTyped, GiveUpTyped, Zenon DEF Next
  <2> QED  BY <1>1, <2>1, <2>2
<1> QED  BY <1>1, InitTyped, PacketsInvariance, PTL DEF Spec

\* Every variable has its type; mData holds something only between a read and a response
\* (MtpServer::run).
THEOREM PacketsTypeCorrect == Spec => []TypeOK
<1>1. ASSUME Typed, PacketsInv PROVE TypeOK
  <2>1. pc \in {"request", "data", "handle", "send", "respond"} /\ rare \in 0..MaxRare
    BY <1>1 DEF PacketsInv, Loop
  <2>2. pc = "request" <=> req = Nothing
    <3>1. pc # "request" => req \in [op : Operations, tid : Int, par : Seq(Int)]  BY <1>1 DEF Typed, ReqOK
    <3>2. Nothing \notin [op : Operations, tid : Int, par : Seq(Int)]  BY PacketsAssumption
    <3>3. pc = "request" => req = Nothing  BY <1>1 DEF Typed
    <3> QED  BY ONLY <3>1, <3>2, <3>3, Zenon
  <2>3. \A i \in DOMAIN data : data[i][1] \in {1, 2, 4} /\ data[i][2] \in 0..(Modulus(data[i][1]) - 1)
    <3> SUFFICES ASSUME NEW i \in DOMAIN data
                 PROVE  data[i][1] \in {1, 2, 4} /\ data[i][2] \in 0..(Modulus(data[i][1]) - 1)
      OBVIOUS
    <3>1. data \in Seq(Fields)  BY <1>1 DEF Typed
    <3> DEFINE f == data[i]
    <3>2. f \in Fields  BY <3>1, LenProperties
    <3> HIDE DEF f
    <3>3. f[1] \in {1, 2, 4} /\ f[2] \in Nat /\ f[2] < Modulus(f[1])  BY <3>2, FieldsAre DEF Widths
    <3>4. Modulus(f[1]) \in Nat  BY <3>3, ModulusIs
    <3>5. f[2] \in 0..(Modulus(f[1]) - 1)  BY <3>3, <3>4
    <3> QED  BY <3>3, <3>5 DEF f
  <2>4. session \in {Nothing, 1} /\ writes \in 0..MaxWrites  BY <1>1 DEF Typed
  <2>5. DOMAIN card \subseteq DOMAIN db /\ DOMAIN db \subseteq 2..MaxHandle
    <3>1. DOMAIN db \in SUBSET (2..MaxHandle)  BY <1>1, HandlesAre DEF Typed
    <3>2. DOMAIN card \subseteq DOMAIN db  BY <1>1 DEF Typed, Database
    <3> QED  BY <3>1, <3>2
  <2>6. \A h \in DOMAIN db : DOMAIN db[h] = {"storage", "parent", "format", "size", "name", "modified"}
    BY <1>1 DEF Typed, Database, EntryOK
  <2>7. Len(wire) <= 2 /\ \A i \in DOMAIN wire : wire[i].kind \in {"request", "data"}
    <3>1. Len(wire) <= 2 /\ DOMAIN wire = 1..Len(wire)  BY <1>1 DEF PacketsInv, WireOK
    <3>2. \A i \in 1..Len(wire) : wire[i].kind \in {"request", "data"}  BY <1>1 DEF Typed, ContainerOK
    <3> QED  BY <3>1, <3>2
  <2>8. host.phase \in {"idle", "sending", "waiting", "done"} /\ host.tid \in 0..(Tids - 1)
    BY <1>1 DEF PacketsInv, HostOK
  <2> QED  BY <2>1, <2>2, <2>3, <2>4, <2>5, <2>6, <2>7, <2>8 DEF TypeOK
<1> QED  BY <1>1, PacketsInvariance, TypedInvariance, PTL

-----------------------------------------------------------------------------
(* What is under way to the host, or has come, is the description it asked *)
(* for.                                                                    *)

\* The data of a response that is not a refusal, by the parameters it was made for.
Describes(op, par, out) ==
  /\ op = "GetDeviceInfo" => out = Write(DeviceInfo)
  /\ op = "GetStorageInfo" => out = Write(StorageInfo)
  /\ op = "GetObjectInfo" => ObjectInfo(par[1])[1] = "OK" /\ out = Write(ObjectInfo(par[1])[2])
  /\ op = "GetObjectPropValue" =>
       PropertyValue(par[1], par[2])[1] = "OK" /\ out = Write(PropertyValue(par[1], par[2])[2])
  /\ op = "GetObjectPropDesc" =>
       ObjectPropertyDesc(par[1])[1] = "OK" /\ out = Write(ObjectPropertyDesc(par[1])[2])
  /\ op = "GetObjectHandles" => out = Write(<<<<AUINT32, ObjectList(par[1], par[2], par[3])>>>>)
  /\ op = "GetObjectPropList" =>
       LET r == PropertyList(par[1], par[3], par[4], par[5]) IN r[1] = "OK" /\ out = Write(r[2])

Described ==
  /\ pc \in {"send", "respond"} /\ resp.rc = "OK" => Describes(req.op, req.par, data)
  /\ pc = "respond" /\ wire = <<>> /\ Listens /\ req.op \notin DataIn => host.payload = data
  /\ Told => host.heard.of.par \in Seq(Int) /\ Len(host.heard.of.par) = 5
  /\ Told /\ host.heard.rc = "OK" => Describes(host.op, host.heard.of.par, host.payload)

\* The tables are the same while the objects are.
LEMMA ObjectInfoSame == ASSUME UNCHANGED db, NEW h PROVE ObjectInfo(h)' = ObjectInfo(h)
BY DEF ObjectInfo

\* The value of a property is the same while the objects are.
LEMMA PropertyValueSame == ASSUME UNCHANGED db, NEW h, NEW p PROVE PropertyValue(h, p)' = PropertyValue(h, p)
BY DEF PropertyValue

\* The list of handles is the same while the objects are.
LEMMA ObjectListSame == ASSUME UNCHANGED db, NEW s, NEW f, NEW p PROVE ObjectList(s, f, p)' = ObjectList(s, f, p)
BY DEF ObjectList

\* The objects of a list are the same while the objects are.
LEMMA ListedSame == ASSUME UNCHANGED db, NEW h, NEW d PROVE Listed(h, d)' = Listed(h, d)
BY DEF Listed, ChildrenOf

\* The elements of a list are the same while the objects are.
LEMMA ElementsSame == ASSUME UNCHANGED db, NEW h, NEW p PROVE Elements(h, p)' = Elements(h, p)
BY DEF Elements

\* The list of properties is the same while the objects are.
LEMMA PropertyListSame ==
  ASSUME UNCHANGED db, NEW h, NEW p, NEW g, NEW d PROVE PropertyList(h, p, g, d)' = PropertyList(h, p, g, d)
BY ListedSame, ElementsSame DEF PropertyList

\* A description stays right while the objects are the same.
LEMMA DescribesSame == 
  ASSUME UNCHANGED db, NEW op, NEW par, NEW out PROVE Describes(op, par, out)' <=> Describes(op, par, out)
BY ObjectInfoSame, PropertyValueSame, ObjectListSame, PropertyListSame DEF Describes

\* What a handler that answers puts.
LEMMA AnswerGives ==
  ASSUME NEW op, NEW result, Answer(op, result)
  PROVE  /\ req.op = op /\ UNCHANGED <<req, db>> /\ data' = Write(result[2])
         /\ resp'.rc = "OK" => result[1] = "OK"
<1>1. Handle(op) /\ Reply(result[1], <<>>, result[2]) /\ Unchanging  BY DEF Answer
<1>2. resp'.rc = result[1] /\ data' = Write(result[2]) /\ UNCHANGED req  BY <1>1 DEF Reply
<1> QED  BY <1>1, <1>2 DEF Handle, Unchanging

\* The operations that describe.
Describing ==
  {"GetDeviceInfo", "GetStorageInfo", "GetObjectInfo", "GetObjectPropValue", "GetObjectPropDesc",
   "GetObjectHandles", "GetObjectPropList"}

\* Nothing is said of the other answers.
LEMMA OthersDescribe == ASSUME NEW op, NEW par, NEW out, op \notin Describing PROVE Describes(op, par, out)
BY DEF Describes, Describing

\* A result that is not a refusal is what it was before the session and the storage were asked for.
LEMMA InSessionIs ==
  ASSUME NEW result, InSession(result)[1] = "OK" PROVE InSession(result) = result
<1>1. CASE session = Nothing
  <2>1. InSession(result) = <<"SESSION_NOT_OPEN", <<>>>>  BY <1>1 DEF InSession
  <2> QED  BY <2>1
<1>2. CASE session # Nothing  BY <1>2 DEF InSession
<1> QED  BY <1>1, <1>2

\* What is not refused for its storage or its session is the answer.
LEMMA OnStorageIs ==
  ASSUME NEW result, OnStorage(result)[1] = "OK" PROVE OnStorage(result) = result
<1> DEFINE x == IF HasStorage(Par(1)) THEN result ELSE <<"INVALID_STORAGE_ID", <<>>>>
<1>1. OnStorage(result) = InSession(x)  BY Zenon DEF OnStorage
<1> HIDE DEF x
<1>2. OnStorage(result) = x /\ x[1] = "OK"  BY <1>1, InSessionIs
<1>3. HasStorage(Par(1))
  <2>1. <<"INVALID_STORAGE_ID", <<>>>>[1] # "OK"  OBVIOUS
  <2> QED  BY <1>2, <2>1 DEF x
<1> QED  BY <1>2, <1>3 DEF x

\* What each handler that describes puts, if it does not refuse.
LEMMA HandlerDescribes ==
  ASSUME Handler, resp'.rc = "OK" PROVE Describes(req.op, req.par, data)'
<1> DEFINE Goal == Describes(req.op, req.par, data)'
           x == data'
<1>0. UNCHANGED req  BY HandlerReplies DEF Replies
<1>1. ASSUME req.op \notin Describing PROVE Goal
  BY <1>0, <1>1 DEF Describes, Describing
<1>2. ASSUME UNCHANGED db, Describes(req.op, req.par, x) PROVE Goal
  BY <1>0, <1>2, DescribesSame
<1>3. ASSUME NEW op, op \notin Describing, NEW result, Answer(op, result) PROVE Goal
  BY <1>1, <1>3, AnswerGives
<1>4. ASSUME NEW op, op \notin Describing, Handle(op) PROVE Goal
  BY <1>1, <1>4 DEF Handle
<1> SUFFICES Goal  OBVIOUS
<1> HIDE DEF Goal
<1>5. CASE GetDeviceInfo
  <2>1. req.op = "GetDeviceInfo" /\ UNCHANGED db /\ x = Write(DeviceInfo)
    BY <1>5, AnswerGives DEF GetDeviceInfo
  <2> QED  BY <1>2, <2>1 DEF Describes
<1>6. CASE GetStorageInfo
  <2> DEFINE y == IF GetStorage(Par(1)) THEN <<"OK", StorageInfo>> ELSE <<"INVALID_STORAGE_ID", <<>>>>
             r == InSession(y)
  <2>1. Answer("GetStorageInfo", r)  BY <1>6, Zenon DEF GetStorageInfo
  <2> HIDE DEF r, y
  <2>2. req.op = "GetStorageInfo" /\ UNCHANGED db /\ x = Write(r[2]) /\ r[1] = "OK"  BY <2>1, AnswerGives
  <2>3. r = y  BY <2>2, InSessionIs DEF r
  <2>4. r[2] = StorageInfo  BY <2>2, <2>3 DEF y
  <2> QED  BY <1>2, <2>2, <2>4 DEF Describes
<1>7. CASE GetObjectInfo
  <2> DEFINE r == ObjectInfo(Par(1))
  <2>1. Answer("GetObjectInfo", r)  BY <1>7, Zenon DEF GetObjectInfo
  <2> HIDE DEF r
  <2>2. req.op = "GetObjectInfo" /\ UNCHANGED db /\ x = Write(r[2]) /\ r[1] = "OK"  BY <2>1, AnswerGives
  <2> QED  BY <1>2, <2>2 DEF Describes, Par, r
<1>8. CASE GetObjectPropValue
  <2> DEFINE r == PropertyValue(Par(1), Par(2))
  <2>1. Answer("GetObjectPropValue", r)  BY <1>8, Zenon DEF GetObjectPropValue
  <2> HIDE DEF r
  <2>2. req.op = "GetObjectPropValue" /\ UNCHANGED db /\ x = Write(r[2]) /\ r[1] = "OK"  BY <2>1, AnswerGives
  <2> QED  BY <1>2, <2>2 DEF Describes, Par, r
<1>9. CASE GetObjectPropDesc
  <2> DEFINE r == ObjectPropertyDesc(Par(1))
  <2>1. Answer("GetObjectPropDesc", r)  BY <1>9, Zenon DEF GetObjectPropDesc
  <2> HIDE DEF r
  <2>2. req.op = "GetObjectPropDesc" /\ UNCHANGED db /\ x = Write(r[2]) /\ r[1] = "OK"  BY <2>1, AnswerGives
  <2> QED  BY <1>2, <2>2 DEF Describes, Par, r
<1>10. CASE GetObjectHandles
  <2> DEFINE y == <<<<AUINT32, ObjectList(Par(1), Par(2), Par(3))>>>>
             r == OnStorage(<<"OK", y>>)
  <2>1. Answer("GetObjectHandles", r)  BY <1>10, Zenon DEF GetObjectHandles
  <2> HIDE DEF r, y
  <2>2. req.op = "GetObjectHandles" /\ UNCHANGED db /\ x = Write(r[2]) /\ r[1] = "OK"  BY <2>1, AnswerGives
  <2>3. r = <<"OK", y>>  BY <2>2, OnStorageIs DEF r
  <2>4. r[2] = y  BY <2>3
  <2> QED  BY <1>2, <2>2, <2>4 DEF Describes, Par, y
<1>11. CASE GetObjectPropList
  <2> DEFINE r == PropertyList(Par(1), Par(3), Par(4), Par(5))
  <2>1. Answer("GetObjectPropList", r)  BY <1>11, Zenon DEF GetObjectPropList
  <2> HIDE DEF r
  <2>2. req.op = "GetObjectPropList" /\ UNCHANGED db /\ x = Write(r[2]) /\ r[1] = "OK"  BY <2>1, AnswerGives
  <2> QED  BY <1>2, <2>2 DEF Describes, Par, r
<1>12. /\ "OpenSession" \notin Describing /\ "CloseSession" \notin Describing /\ "GetStorageIDs" \notin Describing
       /\ "GetObjectPropsSupported" \notin Describing /\ "GetNumObjects" \notin Describing
       /\ "GetObjectReferences" \notin Describing /\ "SetObjectReferences" \notin Describing
       /\ "SetObjectPropValue" \notin Describing /\ "GetDevicePropValue" \notin Describing
       /\ "SetDevicePropValue" \notin Describing /\ "ResetDevicePropValue" \notin Describing
       /\ "GetDevicePropDesc" \notin Describing /\ "GetThumb" \notin Describing /\ "SendObjectInfo" \notin Describing
       /\ "Skip" \notin Describing
  BY DEF Describing
<1>13. CASE OpenSession \/ CloseSession \/ GetNumObjects \/ SetObjectPropValue \/ SendObjectInfo
  BY <1>4, <1>12, <1>13, Zenon DEF OpenSession, CloseSession, GetNumObjects, SetObjectPropValue, SendObjectInfo
<1>14. CASE GetStorageIDs \/ GetObjectPropsSupported \/ GetObjectReferences \/ SetObjectReferences
  BY <1>3, <1>12, <1>14, Zenon DEF GetStorageIDs, GetObjectPropsSupported, GetObjectReferences, SetObjectReferences
<1>15. CASE GetDevicePropValue \/ SetDevicePropValue \/ ResetDevicePropValue \/ GetDevicePropDesc
  BY <1>3, <1>12, <1>15, Zenon DEF GetDevicePropValue, SetDevicePropValue, ResetDevicePropValue, GetDevicePropDesc
<1>16. CASE GetThumb \/ Unsupported
  BY <1>3, <1>12, <1>16, Zenon DEF GetThumb, Unsupported
<1>17. Goal
  BY <1>5, <1>6, <1>7, <1>8, <1>9, <1>10, <1>11, <1>13, <1>14, <1>15, <1>16, Zenon DEF Handler
<1> QED  BY <1>17

-----------------------------------------------------------------------------
(* Step by step.                                                           *)

\* Nothing is described when nothing is on its way.
LEMMA InitDescribed == Init => Described
<1> SUFFICES ASSUME Init PROVE Described  OBVIOUS
<1>1. pc = "request" /\ host.phase = "idle"  BY DEF Init, Idle
<1> QED  BY <1>1 DEF Described, Told

\* A step that leaves the objects, and what is on its way, alone.
LEMMA NothingDescribed ==
  ASSUME Described, UNCHANGED db, pc' \notin {"send", "respond"}, host'.phase # "done" \/ UNCHANGED host
  PROVE  Described'
<1>1. CASE host'.phase # "done"  BY <1>1 DEF Described, Told
<1>2. CASE UNCHANGED host
  <2>1. Told /\ host.heard.rc = "OK" => Describes(host.op, host.heard.of.par, host.payload)'
    BY <1>2, DescribesSame DEF Described
  <2> QED  BY <1>2, <2>1 DEF Described, Told
<1> QED  BY <1>1, <1>2

\* A handler leaves in mData what it was asked for.
LEMMA HandlerKeepsDescribed == ASSUME Described, PacketsInv, Handler PROVE Described'
<1>1. pc = "handle" /\ pc' = "send" /\ UNCHANGED <<req, wire, host>>  BY HandlerReplies DEF Replies
<1>2. ~Told  BY <1>1 DEF Told, PacketsInv, Placed, Queued, Working, Lost, Heard, GivenUp
<1>3. ~Told'  BY <1>1, <1>2 DEF Told
<1>4. resp'.rc = "OK" => Describes(req.op, req.par, data)'  BY HandlerDescribes
<1> QED  BY <1>1, <1>3, <1>4 DEF Described

\* What is sent to the host is what it asked for.
LEMMA SendDataDescribed == ASSUME Described, PacketsInv, SendData PROVE Described'
<1>1. pc = "send" /\ pc' = "respond" /\ UNCHANGED <<req, data, resp, wire, db>>  BY DEF SendData
<1>2. host' = IF Listens /\ req.op \notin DataIn THEN [host EXCEPT !.payload = data] ELSE host  BY DEF SendData
<1>3. ~Told'
  <2>1. ~Told  BY <1>1 DEF Told, PacketsInv, Placed, Queued, Working, Lost, Heard, GivenUp
  <2>2. host'.phase = host.phase  BY <1>2 DEF PacketsInv, HostOK
  <2> QED  BY <2>1, <2>2 DEF Told
<1>4. resp'.rc = "OK" => Describes(req.op, req.par, data)'
  BY <1>1, DescribesSame DEF Described
<1>5. Listens' /\ req'.op \notin DataIn => host'.payload = data'
  <2>1. CASE Listens /\ req.op \notin DataIn
    <3>1. host'.payload = data  BY <1>2, <2>1 DEF PacketsInv, HostOK
    <3> QED  BY <1>1, <3>1
  <2>2. CASE ~(Listens /\ req.op \notin DataIn)
    <3>1. UNCHANGED host  BY <1>2, <2>2
    <3> QED  BY <1>1, <2>2, <3>1 DEF Listens, AnswerId
  <2> QED  BY <2>1, <2>2
<1> QED  BY <1>1, <1>3, <1>4, <1>5 DEF Described

\* The response goes with the data that were sent before it.
LEMMA RespondDescribed == ASSUME Described, Typed, PacketsInv, Respond PROVE Described'
<1>1. pc = "respond" /\ pc' = "request" /\ UNCHANGED db  BY DEF Respond, Abandon
<1>2. CASE Listens
  <2>1. Working  BY <1>1, <1>2, ListensTo
  <2>2. host' = [host EXCEPT !.phase = "done", !.heard = resp]  BY <1>2 DEF Respond
  <2>3. host'.heard = resp /\ host'.op = host.op /\ host'.payload = host.payload  BY <2>2 DEF PacketsInv, HostOK
  <2>4. resp.of.par = req.par /\ req.op = host.op /\ wire = <<>>  BY <1>1, <2>1 DEF PacketsInv, Loop, Working, IsReq
  <2>5. ASSUME resp.rc = "OK" PROVE Describes(host.op, host.heard.of.par, host.payload)'
    <3>1. Describes(host.op, resp.of.par, host.payload)
      <4>1. CASE host.op \in DataIn
        <5>1. host.op \notin Describing  BY <4>1 DEF DataIn, Describing
        <5> QED  BY <5>1, OthersDescribe
      <4>2. CASE host.op \notin DataIn
        <5>1. host.payload = data  BY <1>1, <1>2, <2>4, <4>2 DEF Described
        <5>2. Describes(req.op, req.par, data)  BY <1>1, <2>5 DEF Described
        <5> QED  BY <2>4, <5>1, <5>2
      <4> QED  BY <4>1, <4>2
    <3> QED  BY <1>1, <2>3, <3>1, DescribesSame
  <2>6. host'.heard.of.par \in Seq(Int) /\ Len(host'.heard.of.par) = 5
    <3>1. req.par \in Seq(Int) /\ Len(req.par) = 5  BY <1>1 DEF Typed, ReqOK
    <3> QED  BY <3>1, <2>3, <2>4
  <2> QED  BY <1>1, <2>3, <2>5, <2>6 DEF Described
<1>3. CASE ~Listens
  <2>1. UNCHANGED host  BY <1>3 DEF Respond
  <2> QED  BY <1>1, <2>1, NothingDescribed
<1> QED  BY <1>2, <1>3

\* What the host does to its own transaction: nothing is on its way to it any more, or not yet.
LEMMA HostDescribed ==
  ASSUME Described, UNCHANGED <<pc, req, data, resp, db>>, host'.phase # "done",
         wire' # <<>> \/ host'.phase = "idle"
  PROVE  Described'
<1>1. pc' \in {"send", "respond"} /\ resp'.rc = "OK" => Describes(req.op, req.par, data)'
  BY DescribesSame DEF Described
<1>2. ~(wire' = <<>> /\ Listens')  BY DEF Listens
<1> QED  BY <1>1, <1>2 DEF Described, Told

\* A new request waits for its answer.
LEMMA AskDescribed == ASSUME Described, PacketsInv, Ask PROVE Described'
<1> DEFINE tid == (host.tid + 1) % Tids
<1>1. PICK r \in Requests :
        /\ host' = [phase |-> IF r.op \in DataIn THEN "sending" ELSE "waiting", op |-> r.op,
                    par |-> r.par, payload |-> r.payload, heard |-> Nothing, tid |-> tid]
        /\ wire' = Append(wire, [kind |-> "request", op |-> r.op, tid |-> tid, par |-> r.par,
                                 payload |-> <<>>])
  BY Zenon DEF Ask
<1>2. Len(wire) < 2 /\ UNCHANGED <<pc, req, data, resp, db>>  BY DEF Ask
<1>3. host'.phase # "done"  BY <1>1
<1>4. wire' # <<>>  BY <1>1, <1>2, WireAppend DEF PacketsInv
<1> QED  BY <1>2, <1>3, <1>4, HostDescribed

\* So does one with its data.
LEMMA SendPayloadDescribed == ASSUME Described, PacketsInv, SendPayload PROVE Described'
<1>1. /\ Len(wire) < 2 /\ wire' = Append(wire, Container("data"))
      /\ host' = [host EXCEPT !.phase = "waiting"] /\ UNCHANGED <<pc, req, data, resp, db>>
  BY DEF SendPayload
<1>2. host'.phase = "waiting"  BY <1>1 DEF PacketsInv, HostOK
<1>3. wire' # <<>>  BY <1>1, WireAppend DEF PacketsInv
<1> QED  BY <1>1, <1>2, <1>3, HostDescribed

\* The description of what is asked for is what the host gets (run, handleRequest).
THEOREM DescribedInvariance == Spec => []Described
<1>1. ASSUME Described, Typed, PacketsInv, [Next]_vars PROVE Described'
  <2>1. CASE UNCHANGED vars
    <3>1. UNCHANGED <<pc, req, data, resp, db, wire, host>>  BY <2>1 DEF vars
    <3>2. pc \in {"send", "respond"} /\ resp.rc = "OK" => Describes(req.op, req.par, data)'
      BY <1>1, <3>1, DescribesSame DEF Described
    <3>3. Told /\ host.heard.rc = "OK" => Describes(host.op, host.heard.of.par, host.payload)'
      BY <1>1, <3>1, DescribesSame DEF Described
    <3>4. Listens' = Listens /\ Told' = Told  BY <3>1 DEF Listens, AnswerId, Told
    <3> QED  BY <1>1, <3>1, <3>2, <3>3, <3>4 DEF Described
  <2>2. CASE Receive
    <3>1. UNCHANGED <<db, host>> /\ pc' \in {"data", "handle"}  BY <2>2 DEF Receive
    <3> QED  BY <1>1, <3>1, NothingDescribed
  <2>3. CASE ReceiveData
    <3>1. UNCHANGED <<db, host>> /\ pc' = "handle"  BY <2>3 DEF ReceiveData
    <3> QED  BY <1>1, <3>1, NothingDescribed
  <2>4. CASE DataLate
    <3>1. UNCHANGED <<db, host>> /\ pc' = "request"  BY <2>4 DEF DataLate, Abandon
    <3> QED  BY <1>1, <3>1, NothingDescribed
  <2>5. CASE WriteFails
    <3>1. UNCHANGED <<db, host>> /\ pc' = "request"  BY <2>5 DEF WriteFails, Abandon
    <3> QED  BY <1>1, <3>1, NothingDescribed
  <2>6. CASE Conclude
    <3>1. UNCHANGED <<pc, req, data, resp, db>> /\ host'.phase = "idle"  BY <2>6 DEF Conclude, Forget, Idle
    <3> QED  BY <1>1, <3>1, HostDescribed
  <2>7. CASE GiveUp
    <3>1. UNCHANGED <<pc, req, data, resp, db>> /\ host'.phase = "idle"  BY <2>7 DEF GiveUp, Forget, Idle
    <3> QED  BY <1>1, <3>1, HostDescribed
  <2>8. CASE Handler \/ SendData \/ Respond \/ Ask \/ SendPayload
    BY <1>1, <2>8, HandlerKeepsDescribed, SendDataDescribed, RespondDescribed, AskDescribed, SendPayloadDescribed
  <2> QED
    BY <1>1, <2>1, <2>2, <2>3, <2>4, <2>5, <2>6, <2>7, <2>8, Zenon DEF Next
<1> QED  BY <1>1, InitDescribed, PacketsInvariance, TypedInvariance, PTL DEF Spec

-----------------------------------------------------------------------------
(* What the host reads.                                                    *)

\* A layout is the types of the items when each of its types is.
LEMMA LayoutOf ==
  ASSUME NEW items, NEW n, Items(items, n), NEW layout \in Seq(Types), Len(layout) = n,
         \A i \in 1..n : layout[i] = items[i][1]
  PROVE  layout = TypesOf(items, n)
<1> DEFINE t == TypesOf(items, n)
<1>1. n \in Nat  BY DEF Items
<1>2. t \in Seq(Types) /\ Len(t) = n /\ \A i \in 1..n : t[i] = items[i][1]  BY <1>1 DEF Items, TypesOf
<1> HIDE DEF t
<1>3. layout = t  BY <1>1, <1>2, SeqEqual
<1> QED  BY <1>3 DEF t

\* A payload says what was written into it.
LEMMA SaysBack ==
  ASSUME NEW items \in Seq(SoundItems), NEW n, n = Len(items), host.payload = Write(items),
         NEW layout, layout = TypesOf(items, n), NEW values, values = ValuesOf(items, n)
  PROVE  Says(layout, values)
<1>1. Items(items, n)  BY ItemsSound
<1> DEFINE r == Read(layout, host.payload)
<1>2. r = At(<<>>, values)  BY <1>1, ReadsAllBack
<1>3. r.ok /\ r.in = <<>> /\ r.out = values
  <2>1. \A in, out : At(in, out).in = in /\ At(in, out).out = out /\ At(in, out).ok  BY AtIs, ZenonT(60)
  <2> HIDE DEF r
  <2> QED  BY ONLY <1>2, <2>1, Zenon
<1> QED  BY ONLY <1>3, Zenon DEF Says

\* The types of the datasets of the device and of the storage are their layouts.
LEMMA DeviceLayoutIs == DeviceLayout = TypesOf(DeviceInfo, 14)
<1>1. DeviceLayout \in Seq(Types) /\ Len(DeviceLayout) = 14
  <2>1. UINT16 \in Types /\ UINT32 \in Types /\ AUINT16 \in Types /\ STR \in Types  BY ValuesAre
  <2> QED  BY ONLY <2>1, SMT DEF DeviceLayout
<1>2. \A i \in 1..14 : DeviceLayout[i] = DeviceInfo[i][1]
  BY ONLY SMT DEF DeviceLayout, DeviceInfo
<1>3. Items(DeviceInfo, 14)  BY DeviceItems, ItemsSound
<1> QED  BY <1>1, <1>2, <1>3, LayoutOf

\* So are those of the storage.
LEMMA StorageLayoutIs == StorageLayout = TypesOf(StorageInfo, 8)
<1>1. StorageLayout \in Seq(Types) /\ Len(StorageLayout) = 8
  <2>1. UINT16 \in Types /\ UINT32 \in Types /\ UINT64 \in Types /\ STR \in Types  BY ValuesAre
  <2> QED  BY ONLY <2>1, SMT DEF StorageLayout
<1>2. \A i \in 1..8 : StorageLayout[i] = StorageInfo[i][1]
  BY ONLY SMT DEF StorageLayout, StorageInfo
<1>3. Items(StorageInfo, 8)  BY StorageItems, ItemsSound
<1> QED  BY <1>1, <1>2, <1>3, LayoutOf

\* A prefix is what a sequence starts with.
LEMMA PrefixIs ==
  ASSUME NEW q \in Seq(Int), Len(q) = 5, NEW n \in 0..5, NEW p, SubSeq(q, 1, n) = p
  PROVE  p \in Seq(Int) /\ \A i \in 1..n : q[i] = p[i]
<1>1. SubSeq(q, 1, n) = [i \in 1..n |-> q[i]]  OBVIOUS
<1>2. \A i \in 1..n : q[i] \in Int  OBVIOUS
<1> QED  BY <1>1, <1>2

\* The parameters a response was made for start with those the host sent.
LEMMA HeardPars ==
  ASSUME PacketsInv, Typed, Described, Told
  PROVE  /\ Enough(host.op, host.par) /\ host.heard.of.par \in Seq(Int) /\ Len(host.heard.of.par) = 5
         /\ Len(host.par) \in 0..5 /\ host.par \in Seq(Int)
         /\ \A i \in 1..Len(host.par) : host.heard.of.par[i] = host.par[i]
<1> DEFINE p == host.par
           q == host.heard.of.par
           n == Len(p)
<1>1. Heard  BY DEF PacketsInv, Placed, Queued, Working, Lost, GivenUp, Told
<1>2. SubSeq(q, 1, n) = p  BY <1>1 DEF Heard
<1>3. q \in Seq(Int) /\ Len(q) = 5  BY DEF Described
<1>4. n \in 0..5  BY DEF PacketsInv, HostOK, Pars
<1>5. Enough(host.op, p)  BY DEF Typed, Told
<1>6. p \in Seq(Int) /\ \A i \in 1..n : q[i] = p[i]  BY ONLY <1>2, <1>3, <1>4, PrefixIs, ZenonT(60)
<1> QED  BY <1>3, <1>4, <1>5, <1>6

\* What was written is read, whole.
ReadsAs(layout, payload, items, n) ==
  LET r == Read(layout, payload) IN r.ok /\ r.in = <<>> /\ \A i \in 1..n : r.out[i] = items[i][2]

\* A dataset that comes back is read whole.
LEMMA ReadWhole ==
  ASSUME NEW items \in Seq(SoundItems), NEW n, n = Len(items), NEW layout, layout = TypesOf(items, n)
  PROVE  ReadsAs(layout, Write(items), items, n)
<1> DEFINE r == Read(layout, Write(items))
<1>1. Items(items, n)  BY ItemsSound
<1>2. r = At(<<>>, ValuesOf(items, n))  BY <1>1, ReadsAllBack
<1>3. \A in, out : At(in, out).in = in /\ At(in, out).out = out /\ At(in, out).ok  BY AtIs, ZenonT(60)
<1> HIDE DEF r
<1>4. r.ok /\ r.in = <<>> /\ r.out = ValuesOf(items, n)  BY ONLY <1>2, <1>3, Zenon
<1>5. r.ok /\ r.in = <<>> /\ \A i \in 1..n : r.out[i] = items[i][2]  BY ONLY <1>4, Zenon DEF ValuesOf
<1> QED  BY ONLY <1>5, Zenon DEF ReadsAs, r

\* Everything that is in the dataset of an object.
ReadInfo(r, e) ==
  /\ r.ok /\ r.in = <<>>
  /\ r.out[1] = e.storage /\ r.out[2] = e.format /\ r.out[4] = e.size /\ r.out[12] = e.parent
  /\ r.out[13] = AssociationType(e) /\ r.out[16] = e.name /\ r.out[17] = <<>> /\ r.out[18] = Date(e.modified)

\* The dataset of an object is read as it was written (MtpObjectInfo::read).
LEMMA InfoReadsBack ==
  ASSUME NEW e, EntryOK(e), Fits(e), NEW payload, payload = Write(InfoItems(e))
  PROVE  ReadInfo(Read(ObjectLayout, payload), e)
<1> DEFINE items == InfoItems(e)
           r == Read(ObjectLayout, payload)
<1>1. items \in Seq(SoundItems) /\ Len(items) = 19  BY InfoItemsAre
<1>2. \A i \in 1..19 : items[i][1] = ObjectLayout[i] /\ items[i][2] = Info(e)[i]  BY Zenon DEF InfoItems
<1>3. ObjectLayout = TypesOf(items, 19)
  <2>1. ObjectLayout \in Seq(Types) /\ Len(ObjectLayout) = 19
    <3>1. UINT16 \in Types /\ UINT32 \in Types /\ STR \in Types  BY ValuesAre
    <3> QED  BY ONLY <3>1, SMT DEF ObjectLayout
  <2>2. Items(items, 19)  BY <1>1, ItemsSound
  <2>3. \A i \in 1..19 : ObjectLayout[i] = items[i][1]  BY ONLY <1>2, Zenon
  <2> QED  BY ONLY <2>1, <2>2, <2>3, LayoutOf
<1>0. ReadsAs(ObjectLayout, Write(items), items, 19)
  <2>1. 19 = Len(items)  BY <1>1
  <2> QED  BY ONLY <1>1, <1>3, <2>1, ReadWhole
<1>4. r.ok /\ r.in = <<>> /\ \A i \in 1..19 : r.out[i] = items[i][2]
  BY <1>0, Zenon DEF ReadsAs
<1> HIDE DEF items
<1>5. \A i \in 1..19 : r.out[i] = Info(e)[i]  BY ONLY <1>2, <1>4, Zenon
<1> HIDE DEF r
<1>6. /\ r.out[1] = Info(e)[1] /\ r.out[2] = Info(e)[2] /\ r.out[4] = Info(e)[4] /\ r.out[12] = Info(e)[12]
      /\ r.out[13] = Info(e)[13] /\ r.out[16] = Info(e)[16] /\ r.out[17] = Info(e)[17] /\ r.out[18] = Info(e)[18]
  BY ONLY <1>5
<1>7. ReadInfo(r, e)  BY <1>4, <1>6, InfoIs, Zenon DEF ReadInfo
<1> QED  BY <1>7 DEF r

\* The codes of objects are not those of devices, and have a type.
LEMMA ObjectClass ==
  \A code \in ObjectCodes \cup {Width, Height, BitDepth} : code \in Nat /\ ~IsDeviceProperty(code)
<1>1. \A code \in ObjectCodes \cup {Width, Height, BitDepth} : code \in Nat /\ 56320 <= code /\ code < 57344
  BY ONLY SMT DEF ObjectCodes, StorageID, Parent, Format, Size, FileName, DisplayName, UID, AssocType, AssocDesc,
     Protection, Created, Modified, Hidden, NonConsumed, Width, Height, BitDepth
<1>2. \A code \in Nat : 56320 <= code /\ code < 57344 => code \div 4096 = 13 /\ code \div 2048 = 27
  BY ONLY SMT
<1>3. \A code \in Nat : 56320 <= code /\ code < 57344 => ~IsDeviceProperty(code)
  BY ONLY <1>2, SMT DEF IsDeviceProperty
<1> HIDE DEF IsDeviceProperty
<1> QED  BY ONLY <1>1, <1>3, SMT

\* Three, two and one are six.
LEMMA SixOf ==
  ASSUME NEW S, NEW a \in S, NEW b \in S, NEW c \in S, NEW d \in S, NEW e \in S, NEW f \in S
  PROVE  <<a, b, c>> \o <<d, e>> \o <<f>> = <<a, b, c, d, e, f>>
<1> DEFINE s == <<a, b, c>>
           t == <<d, e>>
           u == <<a, b, c, d, e>>
<1>0. a \in S /\ b \in S /\ c \in S /\ d \in S /\ e \in S /\ f \in S  OBVIOUS
<1>1. s \in Seq(S) /\ Len(s) = 3 /\ s[1] = a /\ s[2] = b /\ s[3] = c  OBVIOUS
<1>2. t \in Seq(S) /\ Len(t) = 2 /\ t[1] = d /\ t[2] = e  OBVIOUS
<1>3. u \in Seq(S) /\ Len(u) = 5 /\ u[1] = a /\ u[2] = b /\ u[3] = c /\ u[4] = d /\ u[5] = e  OBVIOUS
<1> DEFINE v == s \o t
<1> HIDE DEF s, t, u
<1>4. /\ v \in Seq(S) /\ Len(v) = 5 /\ v[1] = s[1] /\ v[2] = s[2] /\ v[3] = s[3] /\ v[4] = t[1] /\ v[5] = t[2]
  <2>1. v \in Seq(S) /\ Len(v) = Len(s) + Len(t)
        /\ \A i \in 1..(Len(s) + Len(t)) : v[i] = IF i <= Len(s) THEN s[i] ELSE t[i - Len(s)]
    BY ONLY <1>1, <1>2, ConcatProperties
  <2> HIDE DEF v
  <2> QED  BY ONLY <1>1, <1>2, <2>1, SMT
<1> HIDE DEF v
<1>5. Len(v) = Len(u) /\ \A i \in 1..Len(v) : v[i] = u[i]  BY ONLY <1>1, <1>2, <1>3, <1>4, SMT
<1>6. v = u  BY <1>3, <1>4, <1>5, SeqEqual
<1>7. u \o <<f>> = <<a, b, c, d, e, f>>
  <2>1. <<a, b, c, d>> \o <<e>> = <<a, b, c, d, e>> /\ <<a, b, c, d, e>> \o <<f>> = <<a, b, c, d, e, f>>
    BY ONLY <1>0, SixJoined
  <2> QED  BY ONLY <2>1, Zenon DEF u
<1> QED  BY ONLY <1>6, <1>7, Zenon DEF v, s, t

\* The two codes at the head of a description tell its reader how the rest goes on.
LEMMA PropertyReadsBack ==
  ASSUME NEW code \in Codes16, ~IsDeviceProperty(code), NEW t \in {UINT16, UINT32, UINT128, STR}, NEW w
  PROVE  LET r == ReadProperty(Write(PropertyItems(code, t, w))) IN
         /\ r.ok /\ r.in = <<>> /\ r.out[1] = code /\ r.out[2] = t /\ r.out[4] = DefaultValue(t)
         /\ r.out[3] = (IF w THEN 1 ELSE 0)
<1> DEFINE items == PropertyItems(code, t, w)
           v == DefaultValue(t)
           x == IF w THEN 1 ELSE 0
           a == <<UINT16, code>>
           b == <<UINT16, t>>
           c == <<UINT8, x>>
           d == <<t, v>>
           e == <<UINT32, 0>>
           f == <<UINT8, 0>>
           six == <<UINT16, UINT16, UINT8, t, UINT32, UINT8>>
           read == Read(<<UINT16, UINT16>>, Write(items)).out
<1>1. items = <<a, b, c, d, e, f>>  BY PropertyItemsAre, Zenon
<1>2. items \in Seq(SoundItems)  BY PropertyItemsSound
<1>3. /\ Len(items) = 6
      /\ items[1] = a /\ items[2] = b /\ items[3] = c /\ items[4] = d /\ items[5] = e /\ items[6] = f
  <2> HIDE DEF a, b, c, d, e, f, items
  <2> QED  BY ONLY <1>1, SMT
<1>4. /\ items[1][1] = UINT16 /\ items[2][1] = UINT16 /\ items[3][1] = UINT8 /\ items[4][1] = t
      /\ items[5][1] = UINT32 /\ items[6][1] = UINT8
      /\ items[1][2] = code /\ items[2][2] = t /\ items[3][2] = x /\ items[4][2] = v
  <2> HIDE DEF items, v, x
  <2> QED  BY ONLY <1>3, SMT
<1> HIDE DEF a, b, c, d, e, f, v, x
<1>5. Items(items, 6)  BY <1>2, <1>3, ItemsSound
<1> HIDE DEF items
<1>6. read[1] = code /\ read[2] = t
  <2>1. PICK left : Leaves(items, 6, left)  BY <1>5, LeavesExist
  <2>2. <<UINT16, UINT16>> = TypesOf(items, 2)
    <3>1. TypesOf(items, 2) = [i \in 1..2 |-> items[i][1]]  BY DEF TypesOf
    <3>2. [i \in 1..2 |-> items[i][1]] = <<items[1][1], items[2][1]>>  BY ONLY SMT
    <3> QED  BY ONLY <3>1, <3>2, <1>4, Zenon
  <2>3. Read(<<UINT16, UINT16>>, Write(items)) = At(left[2], ValuesOf(items, 2))
    <3>1. 2 \in 0..6  OBVIOUS
    <3> QED  BY ONLY <1>5, <2>1, <2>2, <3>1, ReadsBack
  <2>4. read = ValuesOf(items, 2)
    <3>1. \A in, out : At(in, out).out = out  BY AtIs, ZenonT(60)
    <3> QED  BY ONLY <2>3, <3>1, Zenon
  <2>5. 1 \in 1..2 /\ 2 \in 1..2  OBVIOUS
  <2> QED  BY ONLY <1>4, <2>4, <2>5, Zenon DEF ValuesOf
<1>7. UINT16 \in Types /\ UINT8 \in Types /\ UINT32 \in Types /\ t \in Types  BY ValuesAre
<1>8. six = TypesOf(items, 6)
  <2>1. six \in Seq(Types) /\ Len(six) = 6  BY ONLY <1>7, SMT
  <2>2. \A i \in 1..6 : six[i] = items[i][1]
    <3>1. six[1] = UINT16 /\ six[2] = UINT16 /\ six[3] = UINT8 /\ six[4] = t /\ six[5] = UINT32 /\ six[6] = UINT8
      BY ONLY SMT
    <3> HIDE DEF six
    <3> QED  BY ONLY <1>4, <3>1, SMT
  <2> QED  BY ONLY <1>5, <2>1, <2>2, LayoutOf
<1>9. ReadProperty(Write(items)) = Read(six, Write(items))
  <2>1. <<UINT16, UINT16, UINT8>> \o <<t, UINT32>> \o <<UINT8>> = six  BY ONLY <1>7, SixOf
  <2>2. ~IsDeviceProperty(read[1])  BY <1>6
  <2>3. ReadProperty(Write(items))
        = Read(<<UINT16, UINT16, UINT8>>
               \o (IF IsDeviceProperty(read[1]) THEN <<read[2], read[2]>> ELSE <<read[2], UINT32>>) \o <<UINT8>>,
               Write(items))
    BY Zenon DEF ReadProperty
  <2> HIDE DEF six, read
  <2> QED  BY ONLY <1>6, <2>1, <2>2, <2>3, Zenon
<1>10. ReadsAs(six, Write(items), items, 6)
  <2>1. 6 = Len(items)  BY <1>3
  <2> HIDE DEF six
  <2> QED  BY ONLY <1>2, <1>8, <2>1, ReadWhole
<1> DEFINE r == Read(six, Write(items))
<1>11. r.ok /\ r.in = <<>> /\ \A i \in 1..6 : r.out[i] = items[i][2]  BY ONLY <1>10, Zenon DEF ReadsAs
<1> HIDE DEF r
<1>12. r.out[1] = items[1][2] /\ r.out[2] = items[2][2] /\ r.out[3] = items[3][2] /\ r.out[4] = items[4][2]
  BY ONLY <1>11, SMT
<1>13. r.ok /\ r.in = <<>> /\ r.out[1] = code /\ r.out[2] = t /\ r.out[4] = v /\ r.out[3] = x
  BY ONLY <1>4, <1>11, <1>12, Zenon
<1> QED  BY ONLY <1>9, <1>13, Zenon DEF items, r, v, x

\* What holds of an answer.
Invs == PacketsInv /\ Typed /\ Described

\* An answer that is no refusal describes what was asked for.
LEMMA AnswerDescribes ==
  ASSUME Invs, NEW op, Answered(op)
  PROVE  Told /\ host.op = op /\ Describes(op, host.heard.of.par, host.payload)
BY DEF Invs, Described, Answered

\* What is known of an object of the card is what the card holds.
LEMMA CardIs ==
  ASSUME Invs, NEW h \in DOMAIN card PROVE h \in DOMAIN db /\ card[h] = db[h] /\ EntryOK(card[h])
BY DEF Invs, Typed, Database

\* The host reads the device (doGetDeviceInfo, MtpDeviceInfo::read).
LEMMA DeviceReadsBack ==
  ASSUME Invs, Answered("GetDeviceInfo")
  PROVE  Says(DeviceLayout, [i \in DOMAIN DeviceInfo |-> DeviceInfo[i][2]])
<1>1. host.payload = Write(DeviceInfo)  BY AnswerDescribes DEF Describes
<1>2. DeviceInfo \in Seq(SoundItems) /\ 14 = Len(DeviceInfo) /\ DOMAIN DeviceInfo = 1..14  BY DeviceItems
<1>3. [i \in DOMAIN DeviceInfo |-> DeviceInfo[i][2]] = ValuesOf(DeviceInfo, 14)
  BY ONLY <1>2, Zenon DEF ValuesOf
<1> QED  BY ONLY <1>1, <1>2, <1>3, DeviceLayoutIs, SaysBack

\* The host reads the storage (doGetStorageInfo, MtpStorageInfo::read).
LEMMA StorageReadsBack ==
  ASSUME Invs, Answered("GetStorageInfo")
  PROVE  Says(StorageLayout, [i \in DOMAIN StorageInfo |-> StorageInfo[i][2]])
<1>1. host.payload = Write(StorageInfo)  BY AnswerDescribes DEF Describes
<1>2. StorageInfo \in Seq(SoundItems) /\ 8 = Len(StorageInfo) /\ DOMAIN StorageInfo = 1..8  BY StorageItems
<1>3. [i \in DOMAIN StorageInfo |-> StorageInfo[i][2]] = ValuesOf(StorageInfo, 8)
  BY ONLY <1>2, Zenon DEF ValuesOf
<1> QED  BY ONLY <1>1, <1>2, <1>3, StorageLayoutIs, SaysBack

\* The host reads an object (doGetObjectInfo, MtpObjectInfo::read).
LEMMA ObjectReadsBack ==
  ASSUME Invs, Answered("GetObjectInfo"), NEW h, h = host.par[1], h \in DOMAIN card, Fits(card[h])
  PROVE  LET r == Read(ObjectLayout, host.payload)
             e == card[h]
         IN  /\ r.ok /\ r.in = <<>>
             /\ <<r.out[1], r.out[2], r.out[4], r.out[12], r.out[13], r.out[16]>>
                = <<Storage, e.format, e.size, e.parent, AssociationType(e), e.name>>
             /\ TimeOf(r.out[17], Nothing) = Nothing /\ TimeOf(r.out[18], Nothing) = e.modified
<1> DEFINE e == card[h]
           r == Read(ObjectLayout, host.payload)
           q == host.heard.of.par
<1>1. Told /\ host.op = "GetObjectInfo" /\ Describes("GetObjectInfo", q, host.payload)  BY AnswerDescribes
<1>2. ObjectInfo(q[1])[1] = "OK" /\ host.payload = Write(ObjectInfo(q[1])[2])  BY <1>1 DEF Describes
<1>3. q[1] = h
  <2>1. Len(host.par) >= 1 /\ Len(host.par) \in 0..5 /\ \A i \in 1..Len(host.par) : q[i] = host.par[i]
    BY <1>1, HeardPars DEF Invs, Enough
  <2> QED  BY <2>1
<1>4. e = db[h] /\ EntryOK(e)  BY CardIs
<1>5. ObjectInfo(h)[2] = InfoItems(e)
  <2>1. ObjectInfo(h)[1] = "OK"  BY <1>2, <1>3
  <2> QED  BY <2>1, <1>4, ObjectInfoIs
<1>6. host.payload = Write(InfoItems(e))  BY ONLY <1>2, <1>3, <1>5, Zenon
<1>7. Fits(e)  OBVIOUS
<1> HIDE DEF e
<1>8. ReadInfo(r, e)  BY ONLY <1>4, <1>6, <1>7, InfoReadsBack
<1> HIDE DEF r
<1>9. /\ r.ok /\ r.in = <<>>
      /\ r.out[1] = Storage /\ r.out[2] = e.format /\ r.out[4] = e.size /\ r.out[12] = e.parent
      /\ r.out[13] = AssociationType(e) /\ r.out[16] = e.name
      /\ r.out[17] = <<>> /\ r.out[18] = Date(e.modified)
  BY ONLY <1>4, <1>8, Zenon DEF ReadInfo, EntryOK
<1>10. TimeOf(r.out[17], Nothing) = Nothing  BY ONLY <1>9, Zenon DEF TimeOf
<1>11. TimeOf(r.out[18], Nothing) = e.modified
  <2>1. e.modified \in Int /\ 48 + e.modified \in Chars  BY <1>4 DEF EntryOK
  <2>2. TimeOf(Date(e.modified), Nothing) = e.modified  BY <2>1, DateIs
  <2> QED  BY ONLY <1>9, <2>2, Zenon
<1>12. <<r.out[1], r.out[2], r.out[4], r.out[12], r.out[13], r.out[16]>>
       = <<Storage, e.format, e.size, e.parent, AssociationType(e), e.name>>
  BY ONLY <1>9, Zenon
<1> QED  BY ONLY <1>9, <1>10, <1>11, <1>12, Zenon DEF e, r

\* The host reads a property of an object (getObjectPropertyValue).
LEMMA ValueReadsBack ==
  ASSUME Invs, Answered("GetObjectPropValue"), NEW h, h = host.par[1], h \in DOMAIN card,
         host.par[2] # NonConsumed, Fits(card[h])
  PROVE  Says(<<DescribedType[host.par[2]]>>, <<ValueOf(host.par[2], h, card[h])>>)
<1> DEFINE e == card[h]
           p == host.par[2]
           q == host.heard.of.par
           x == <<TypeOf[p], ValueOf(p, h, e)>>
<1>1. Told /\ host.op = "GetObjectPropValue" /\ Describes("GetObjectPropValue", q, host.payload)  BY AnswerDescribes
<1>2. PropertyValue(q[1], q[2])[1] = "OK" /\ host.payload = Write(PropertyValue(q[1], q[2])[2])
  BY <1>1 DEF Describes
<1>3. q[1] = h /\ q[2] = p
  <2>1. Len(host.par) >= 2 /\ Len(host.par) \in 0..5 /\ \A i \in 1..Len(host.par) : q[i] = host.par[i]
    BY <1>1, HeardPars DEF Invs, Enough
  <2> QED  BY <2>1
<1>4. h \in DOMAIN db /\ e = db[h] /\ EntryOK(e)  BY CardIs
<1>5. p \in ObjectCodes /\ PropertyValue(h, p)[2] = <<x>>
  <2>1. PropertyValue(h, p)[1] = "OK"  BY <1>2, <1>3
  <2>2. p \in ObjectCodes
        /\ PropertyValue(h, p)[2] =
             IF p = NonConsumed THEN <<>>
             ELSE <<<<TypeOf[p], ValueOf(p, h, IF h \in DOMAIN db THEN db[h] ELSE NoEntry)>>>>
    BY <2>1, PropertyValueIs
  <2> QED  BY <1>4, <2>2, Zenon
<1>6. x \in SoundItems
  <2>1. h \in Int /\ h \in 0..(Long - 1)
    <3>1. DOMAIN db \in SUBSET (0..(Long - 1))  BY HandlesAre DEF Invs, Typed
    <3>2. h \in 0..(Long - 1)  BY <1>4, <3>1
    <3> QED  BY <3>2
  <2>2. Fits(e)  OBVIOUS
  <2> QED  BY ONLY <1>4, <1>5, <2>1, <2>2, ValueItem
<1>7. host.payload = Write(<<x>>)  BY ONLY <1>2, <1>3, <1>5, Zenon
<1>8. <<x>> \in Seq(SoundItems) /\ 1 = Len(<<x>>) /\ <<x>>[1] = x
  <2> HIDE DEF x
  <2> QED  BY ONLY <1>6, SMT
<1>9. DescribedType[p] = TypeOf[p]  BY <1>5, DescribedTypes
<1>10. \A y : <<y>> = [i \in 1..1 |-> y]  BY ONLY SMT
<1>11. <<DescribedType[p]>> = TypesOf(<<x>>, 1)
  <2>1. \A i \in 1..1 : <<x>>[i][1] = TypeOf[p]
    <3>1. x[1] = TypeOf[p]  OBVIOUS
    <3> HIDE DEF x
    <3>2. \A i \in 1..1 : i = 1  OBVIOUS
    <3> QED  BY ONLY <1>8, <3>1, <3>2, Zenon
  <2> HIDE DEF x
  <2>2. TypesOf(<<x>>, 1) = [i \in 1..1 |-> TypeOf[p]]  BY ONLY <2>1, Zenon DEF TypesOf
  <2> QED  BY ONLY <1>9, <1>10, <2>2, Zenon
<1>12. <<ValueOf(p, h, e)>> = ValuesOf(<<x>>, 1)
  <2>1. \A i \in 1..1 : <<x>>[i][2] = ValueOf(p, h, e)
    <3>1. x[2] = ValueOf(p, h, e)  OBVIOUS
    <3> HIDE DEF x
    <3>2. \A i \in 1..1 : i = 1  OBVIOUS
    <3> QED  BY ONLY <1>8, <3>1, <3>2, Zenon
  <2> HIDE DEF x
  <2>2. ValuesOf(<<x>>, 1) = [i \in 1..1 |-> ValueOf(p, h, e)]  BY ONLY <2>1, Zenon DEF ValuesOf
  <2> QED  BY ONLY <1>10, <2>2, Zenon
<1> HIDE DEF x
<1> QED  BY ONLY <1>7, <1>8, <1>11, <1>12, SaysBack

\* The host reads what a property is (getObjectPropertyDesc, MtpProperty::read).
LEMMA DescriptionReadsBack ==
  ASSUME Invs, Answered("GetObjectPropDesc"), NEW h, h = host.par[1]
  PROVE  LET t == DescribedType[h] IN
         LET r == ReadProperty(host.payload) IN
         /\ r.ok /\ r.in = <<>>
         /\ <<r.out[1], r.out[2], r.out[4]>> = <<h, t, DefaultValue(t)>>
         /\ r.out[3] = 1 <=> h \in Writeable
<1> DEFINE t == DescribedType[h]
           r == ReadProperty(host.payload)
           q == host.heard.of.par
           w == h \in Writeable
<1>1. Told /\ host.op = "GetObjectPropDesc" /\ Describes("GetObjectPropDesc", q, host.payload)  BY AnswerDescribes
<1>2. ObjectPropertyDesc(q[1])[1] = "OK" /\ host.payload = Write(ObjectPropertyDesc(q[1])[2])
  BY <1>1 DEF Describes
<1>3. q[1] = h
  <2>1. Len(host.par) >= 1 /\ Len(host.par) \in 0..5 /\ \A i \in 1..Len(host.par) : q[i] = host.par[i]
    BY <1>1, HeardPars DEF Invs, Enough
  <2> QED  BY <2>1
<1>4. h \in DOMAIN DescribedType /\ ObjectPropertyDesc(h)[2] = PropertyItems(h, t, w)
  <2>1. ObjectPropertyDesc(h)[1] = "OK"  BY <1>2, <1>3
  <2> HIDE DEF t, w
  <2>2. h \in DOMAIN DescribedType  BY <2>1, Zenon DEF ObjectPropertyDesc
  <2>3. ObjectPropertyDesc(h) = <<"OK", PropertyItems(h, t, w)>>  BY <2>2, Zenon DEF ObjectPropertyDesc, t, w
  <2> QED  BY ONLY <2>2, <2>3
<1>5. h \in Codes16 /\ ~IsDeviceProperty(h) /\ t \in {UINT16, UINT32, UINT128, STR}
  <2>1. h \in ObjectCodes \cup {Width, Height, BitDepth}  BY <1>4, DescribedTypes
  <2> QED  BY <1>4, <2>1, DescribedTypes, ObjectClass
<1>6. host.payload = Write(PropertyItems(h, t, w))  BY ONLY <1>2, <1>3, <1>4, Zenon
<1> HIDE DEF t, w
<1>7. LET s == ReadProperty(Write(PropertyItems(h, t, w))) IN
      /\ s.ok /\ s.in = <<>> /\ s.out[1] = h /\ s.out[2] = t /\ s.out[4] = DefaultValue(t)
      /\ s.out[3] = (IF w THEN 1 ELSE 0)
  BY ONLY <1>5, PropertyReadsBack
<1>8. /\ r.ok /\ r.in = <<>> /\ r.out[1] = h /\ r.out[2] = t /\ r.out[4] = DefaultValue(t)
      /\ r.out[3] = (IF w THEN 1 ELSE 0)
  BY ONLY <1>6, <1>7, Zenon
<1> HIDE DEF r
<1>9. <<r.out[1], r.out[2], r.out[4]>> = <<h, t, DefaultValue(t)>>  BY ONLY <1>8, Zenon
<1>10. r.out[3] = 1 <=> w  BY ONLY <1>8, SMT
<1> QED  BY ONLY <1>8, <1>9, <1>10, Zenon DEF r, t, w

\* The host reads the objects in a directory (getObjectList).
LEMMA HandlesReadBack ==
  ASSUME Invs, Answered("GetObjectHandles"), Len(host.par) = 3, host.par[1] = Storage
  PROVE  LET under == IF host.par[3] = All THEN 0 ELSE host.par[3]
             r == Read(<<AUINT32>>, host.payload)
         IN  /\ r.ok
             /\ Range(r.out[1]) \cap DOMAIN card =
                  {g \in DOMAIN card : card[g].parent = under /\ host.par[2] \in {0, card[g].format}}
<1> DEFINE f == host.par[2]
           u == host.par[3]
           under == IF u = All THEN 0 ELSE u
           q == host.heard.of.par
           S == {g \in DOMAIN db : db[g].storage = Storage /\ db[g].parent = under /\ f \in {0, db[g].format}}
           T == {g \in DOMAIN card : card[g].parent = under /\ f \in {0, card[g].format}}
           x == <<AUINT32, InOrder(S)>>
           r == Read(<<AUINT32>>, host.payload)
<1>1. Told /\ host.op = "GetObjectHandles" /\ Describes("GetObjectHandles", q, host.payload)  BY AnswerDescribes
<1>2. host.payload = Write(<<<<AUINT32, ObjectList(q[1], q[2], q[3])>>>>)  BY <1>1 DEF Describes
<1>3. q[1] = Storage /\ q[2] = f /\ q[3] = u
  <2>1. \A i \in 1..Len(host.par) : q[i] = host.par[i]  BY <1>1, HeardPars DEF Invs
  <2> QED  BY <2>1
<1>4. ObjectList(Storage, f, u) = InOrder(S)  BY Zenon DEF ObjectList
<1>5. host.payload = Write(<<x>>)  BY ONLY <1>2, <1>3, <1>4, Zenon
<1>6. Database  BY DEF Invs, Typed
<1>7. x \in SoundItems /\ Range(InOrder(S)) = S
  <2>1. S \in SUBSET (DOMAIN db)  OBVIOUS
  <2> HIDE DEF S
  <2> QED  BY <1>6, <2>1, HandleList
<1>8. x[1] = AUINT32 /\ x[2] = InOrder(S)  OBVIOUS
<1>9. S \cap DOMAIN card = T
  <2>1. \A g \in DOMAIN card : g \in DOMAIN db /\ card[g] = db[g] /\ db[g].storage = Storage
    BY <1>6 DEF Database, EntryOK
  <2> HIDE DEF under, f
  <2> QED  BY ONLY <2>1, Zenon
<1> HIDE DEF x, S, T
<1>10. <<x>> \in Seq(SoundItems) /\ 1 = Len(<<x>>) /\ <<x>>[1] = x  BY ONLY <1>7, SMT
<1>11. <<AUINT32>> = TypesOf(<<x>>, 1)
  <2>1. \A y : <<y>> = [i \in 1..1 |-> y]  BY ONLY SMT
  <2>2. \A i \in 1..1 : i = 1  OBVIOUS
  <2>3. \A i \in 1..1 : <<x>>[i][1] = AUINT32  BY ONLY <1>8, <1>10, <2>2, Zenon
  <2>4. TypesOf(<<x>>, 1) = [i \in 1..1 |-> AUINT32]  BY ONLY <2>3, Zenon DEF TypesOf
  <2> QED  BY ONLY <2>1, <2>4, Zenon
<1>12. ReadsAs(<<AUINT32>>, Write(<<x>>), <<x>>, 1)  BY ONLY <1>10, <1>11, ReadWhole
<1>13. r.ok /\ r.out[1] = <<x>>[1][2]
  <2>1. 1 \in 1..1  OBVIOUS
  <2> QED  BY ONLY <1>5, <1>12, <2>1, Zenon DEF ReadsAs
<1>14. r.out[1] = InOrder(S)  BY ONLY <1>8, <1>10, <1>13, Zenon
<1> HIDE DEF r, under
<1>15. Range(r.out[1]) \cap DOMAIN card = T  BY ONLY <1>7, <1>9, <1>14, Zenon
<1> QED  BY ONLY <1>13, <1>15, Zenon DEF r, T, f, under, u

\* What a host reads out of a description is what the card holds or what the host made of it: the
\* device, the storage, an object, a property of it, the objects in a directory; for any names and
\* sizes that the codec carries, and for any number of objects (doGetDeviceInfo, doGetStorageInfo,
\* doGetObjectInfo, the tables of SwitchMtpDatabase, MtpDataPacket and MtpStringBuffer).
THEOREM DescriptionsAreRight == Spec => []DescriptionsReadBack
<1>1. ASSUME Invs PROVE DescriptionsReadBack
  <2> DEFINE h == host.par[1]
  <2>1. Answered("GetDeviceInfo") => Says(DeviceLayout, [i \in DOMAIN DeviceInfo |-> DeviceInfo[i][2]])
    BY <1>1, DeviceReadsBack
  <2>2. Answered("GetStorageInfo") => Says(StorageLayout, [i \in DOMAIN StorageInfo |-> StorageInfo[i][2]])
    BY <1>1, StorageReadsBack
  <2>3. Answered("GetObjectInfo") /\ h \in DOMAIN card /\ Fits(card[h]) =>
          LET r == Read(ObjectLayout, host.payload)
              e == card[h]
          IN  /\ r.ok /\ r.in = <<>>
              /\ <<r.out[1], r.out[2], r.out[4], r.out[12], r.out[13], r.out[16]>>
                 = <<Storage, e.format, e.size, e.parent, AssociationType(e), e.name>>
              /\ TimeOf(r.out[17], Nothing) = Nothing /\ TimeOf(r.out[18], Nothing) = e.modified
    BY ONLY <1>1, ObjectReadsBack, Zenon
  <2>4. Answered("GetObjectPropValue") /\ h \in DOMAIN card /\ host.par[2] # NonConsumed
        /\ Fits(card[h]) =>
          Says(<<DescribedType[host.par[2]]>>, <<ValueOf(host.par[2], h, card[h])>>)
    BY ONLY <1>1, ValueReadsBack, Zenon
  <2>5. Answered("GetObjectPropDesc") =>
          LET t == DescribedType[h] IN
          LET r == ReadProperty(host.payload) IN
          /\ r.ok /\ r.in = <<>>
          /\ <<r.out[1], r.out[2], r.out[4]>> = <<h, t, DefaultValue(t)>>
          /\ r.out[3] = 1 <=> h \in Writeable
    BY ONLY <1>1, DescriptionReadsBack, Zenon
  <2>6. Answered("GetObjectHandles") /\ Len(host.par) = 3 /\ h = Storage =>
          LET under == IF host.par[3] = All THEN 0 ELSE host.par[3]
              r == Read(<<AUINT32>>, host.payload)
          IN  /\ r.ok
              /\ Range(r.out[1]) \cap DOMAIN card =
                   {g \in DOMAIN card : card[g].parent = under /\ host.par[2] \in {0, card[g].format}}
    BY ONLY <1>1, HandlesReadBack, Zenon
  <2> QED  BY ONLY <2>1, <2>2, <2>3, <2>4, <2>5, <2>6, Zenon DEF DescriptionsReadBack
<1>2. PacketsInv /\ Typed /\ Described => DescriptionsReadBack  BY <1>1 DEF Invs
<1> QED  BY <1>2, PacketsInvariance, TypedInvariance, DescribedInvariance, PTL

-----------------------------------------------------------------------------
(* Lists of properties, read element by element.                           *)

\* The items behind b are those of an element: a handle, a code, the code of a type, a value of it.
ElementAt(items, b) ==
  /\ items[b + 1][1] = UINT32 /\ items[b + 2][1] = UINT16 /\ items[b + 3][1] = UINT16
  /\ items[b + 4][1] = items[b + 3][2] /\ items[b + 3][2] \in {UINT16, UINT32, UINT128, STR}

\* The values of the n items behind the first.
Behind(items, n) == [j \in 1..n |-> items[1 + j][2]]

\* One more value.
LEMMA BehindMore ==
  ASSUME NEW items, NEW n \in Nat, NEW V, Behind(items, n) \in Seq(V), items[1 + (n + 1)][2] \in V
  PROVE  Append(Behind(items, n), items[1 + (n + 1)][2]) = Behind(items, n + 1) /\ Behind(items, n + 1) \in Seq(V)
<1> DEFINE a == Behind(items, n)
           v == items[1 + (n + 1)][2]
           b == Behind(items, n + 1)
           c == Append(a, v)
<1>1. Len(a) = n /\ \A j \in 1..n : a[j] = items[1 + j][2]  BY DEF Behind
<1>2. /\ b = [j \in 1..(n + 1) |-> b[j]] /\ \A j \in 1..(n + 1) : b[j] = items[1 + j][2]  BY DEF Behind
<1>3. a \in Seq(V) /\ v \in V  OBVIOUS
<1> HIDE DEF a
<1>4. c \in Seq(V) /\ Len(c) = n + 1 /\ (\A j \in 1..n : c[j] = a[j]) /\ c[n + 1] = v  BY <1>1, <1>3, AppendProperties
<1> HIDE DEF b, c
<1>5. \A j \in 1..(n + 1) : c[j] = b[j]
  <2> SUFFICES ASSUME NEW j \in 1..(n + 1) PROVE c[j] = b[j]  OBVIOUS
  <2>1. CASE j = n + 1  BY <2>1, <1>2, <1>4
  <2>2. CASE j # n + 1
    <3>1. j \in 1..n  BY <2>2
    <3> QED  BY <3>1, <1>1, <1>2, <1>4
  <2> QED  BY <2>1, <2>2
<1>6. c = [j \in 1..(n + 1) |-> c[j]]  BY <1>4, LenProperties
<1>7. c = b  BY <1>2, <1>5, <1>6
<1> QED  BY <1>4, <1>7 DEF a, b, c

\* One item is read.
LEMMA TakesBehind ==
  ASSUME NEW items, NEW m, Items(items, m), NEW left, Leaves(items, m, left), NEW n \in Nat, 1 + (n + 1) <= m,
         NEW V, Behind(items, n) \in Seq(V), items[1 + (n + 1)][2] \in V
  PROVE  /\ Get(At(left[1 + n], Behind(items, n)), items[1 + (n + 1)][1])
            = At(left[1 + (n + 1)], Behind(items, n + 1))
         /\ Behind(items, n + 1) \in Seq(V)
<1> DEFINE i == 1 + (n + 1)
<1>1. i \in 1..m /\ i - 1 = 1 + n  BY DEF Items
<1> HIDE DEF i
<1>2. Get(At(left[i - 1], Behind(items, n)), items[i][1]) = At(left[i], Append(Behind(items, n), items[i][2]))
  BY <1>1, LeavesTaken
<1>3. Append(Behind(items, n), items[i][2]) = Behind(items, n + 1) /\ Behind(items, n + 1) \in Seq(V)
  BY BehindMore DEF i
<1> QED  BY ONLY <1>1, <1>2, <1>3, Zenon DEF i

\* An element is read as it was written.
LEMMA ElementRead ==
  ASSUME NEW items, NEW m, Items(items, m), NEW left, Leaves(items, m, left), NEW n \in Nat, 1 + (n + 4) <= m,
         ElementAt(items, 1 + n), NEW V, \A i \in 1..m : items[i][2] \in V, Behind(items, n) \in Seq(V)
  PROVE  /\ ReadElement(At(left[1 + n], Behind(items, n))) = At(left[1 + (n + 4)], Behind(items, n + 4))
         /\ Behind(items, n + 4) \in Seq(V)
<1> DEFINE r(k) == At(left[1 + (n + k)], Behind(items, n + k))
           T(k) == items[1 + (n + k)][1]
           t == items[1 + (n + 3)][2]
           Good(k) == Behind(items, n + k) \in Seq(V)
<1>1. ASSUME NEW k \in 0..3, Good(k) PROVE Get(r(k), T(k + 1)) = r(k + 1) /\ Good(k + 1)
  <2> DEFINE j == n + k
  <2>1. j \in Nat /\ 1 + (j + 1) <= m /\ 1 + (j + 1) \in 1..m /\ j + 1 = n + (k + 1)  BY DEF Items
  <2>2. Behind(items, j) \in Seq(V) /\ items[1 + (j + 1)][2] \in V  BY <1>1, <2>1
  <2> HIDE DEF j
  <2>3. /\ Get(At(left[1 + j], Behind(items, j)), items[1 + (j + 1)][1])
           = At(left[1 + (j + 1)], Behind(items, j + 1))
        /\ Behind(items, j + 1) \in Seq(V)
    BY <2>1, <2>2, TakesBehind
  <2> QED  BY ONLY <2>1, <2>3, Zenon DEF j
<1>2. n + 0 = n /\ 0 \in 0..3 /\ 1 \in 0..3 /\ 2 \in 0..3 /\ 3 \in 0..3 /\ 0 + 1 = 1 /\ 1 + 1 = 2 /\ 2 + 1 = 3 /\ 3 + 1 = 4
  OBVIOUS
<1>3. r(0) = At(left[1 + n], Behind(items, n)) /\ Good(0)  BY <1>2
<1>4. T(1) = UINT32 /\ T(2) = UINT16 /\ T(3) = UINT16 /\ T(4) = t /\ t \in {UINT16, UINT32, UINT128, STR}
  <2>1. \A k \in 1..4 : 1 + (n + k) = (1 + n) + k  OBVIOUS
  <2> QED  BY <2>1 DEF ElementAt
<1>5. r(3).out[Len(r(3).out)] = t /\ r(3).ok
  <2>1. r(3).out = Behind(items, n + 3) /\ r(3).ok = TRUE  BY AtIs, ZenonT(60)
  <2>2. Len(Behind(items, n + 3)) = n + 3 /\ Behind(items, n + 3)[n + 3] = t
    <3>1. n + 3 \in Nat /\ n + 3 \in 1..(n + 3)  OBVIOUS
    <3> QED  BY <3>1 DEF Behind
  <2> QED  BY ONLY <2>1, <2>2, Zenon
<1> HIDE DEF r, T, Good, t
<1>6. Get(r(0), UINT32) = r(1) /\ Good(1)  BY ONLY <1>1, <1>2, <1>3, <1>4, Zenon
<1>7. Get(r(1), UINT16) = r(2) /\ Good(2)  BY ONLY <1>1, <1>2, <1>6, <1>4, Zenon
<1>8. Get(r(2), UINT16) = r(3) /\ Good(3)  BY ONLY <1>1, <1>2, <1>7, <1>4, Zenon
<1>9. Get(r(3), t) = r(4) /\ Good(4)  BY ONLY <1>1, <1>2, <1>8, <1>4, Zenon
<1> DEFINE h == Get(Get(Get(r(0), UINT32), UINT16), UINT16)
<1>10. ReadElement(r(0)) = IF h.ok /\ h.out[Len(h.out)] \in {UINT16, UINT32, UINT128, STR}
                           THEN Get(h, h.out[Len(h.out)]) ELSE [h EXCEPT !.ok = FALSE]
  BY Zenon DEF ReadElement
<1>11. h = r(3)  BY ONLY <1>6, <1>7, <1>8, Zenon
<1> HIDE DEF h
<1>12. h.ok /\ h.out[Len(h.out)] = t  BY ONLY <1>5, <1>11, Zenon
<1>13. ReadElement(r(0)) = Get(h, t)  BY ONLY <1>4, <1>10, <1>12, Zenon
<1>14. ReadElement(r(0)) = r(4)  BY ONLY <1>9, <1>11, <1>13, Zenon
<1> QED  BY ONLY <1>3, <1>9, <1>14, Zenon DEF r, Good

\* A list is read up to its count.
ListRead(head, n) ==
  LET list[i \in 0..n] == IF i = 0 THEN Having(head, <<>>) ELSE ReadElement(list[i - 1]) IN list[n]

\* A list that is read by element gets as far as f says.
LEMMA ListReadIs ==
  ASSUME NEW head, NEW n \in Nat, NEW f, f[0] = Having(head, <<>>), \A i \in 1..n : f[i] = ReadElement(f[i - 1])
  PROVE  ListRead(head, n) = f[n]
<1> DEFINE Is(r) == r = [i \in 0..n |-> IF i = 0 THEN Having(head, <<>>) ELSE ReadElement(r[i - 1])]
           r == CHOOSE r : Is(r)
           g == [i \in 0..n |-> f[i]]
           G(i) == IF i = 0 THEN Having(head, <<>>) ELSE ReadElement(g[i - 1])
<1>1. ListRead(head, n) = r[n]  BY Zenon DEF ListRead
<1>2. Is(g)
  <2>1. \A i \in 0..n : g[i] = f[i] /\ (i # 0 => i \in 1..n /\ i - 1 \in 0..n)  OBVIOUS
  <2>4. g = [i \in 0..n |-> g[i]]  OBVIOUS
  <2> HIDE DEF g
  <2>5. \A i \in 0..n : g[i] = G(i)  BY <2>1
  <2>6. g = [i \in 0..n |-> G(i)]
    <3> HIDE DEF G
    <3> QED  BY <2>4, <2>5, Zenon
  <2> QED  BY <2>6, Zenon
<1>3. Is(r)  BY <1>2, Zenon
<1>4. \A i \in 0..n : r[i] = IF i = 0 THEN Having(head, <<>>) ELSE ReadElement(r[i - 1])
  <2> HIDE DEF r
  <2>1. r = [i \in 0..n |-> IF i = 0 THEN Having(head, <<>>) ELSE ReadElement(r[i - 1])]  BY <1>3
  <2> QED  BY <2>1, Zenon
<1> HIDE DEF r, g
<1>5. r[n] = f[n]
  <2> DEFINE T == {k \in Nat : k \in 0..n => r[k] = f[k]}
  <2>1. 0 \in T
    <3>1. r[0] = Having(head, <<>>)  BY <1>4
    <3> QED  BY <3>1
  <2>2. ASSUME NEW k \in Nat, k \in T PROVE k + 1 \in T
    <3> SUFFICES ASSUME k + 1 \in 0..n PROVE r[k + 1] = f[k + 1]  OBVIOUS
    <3>1. k \in 0..n /\ k + 1 # 0 /\ (k + 1) - 1 = k /\ k + 1 \in 1..n  OBVIOUS
    <3>2. r[k + 1] = ReadElement(r[k])  BY <3>1, <1>4
    <3>3. f[k + 1] = ReadElement(f[k])  BY <3>1
    <3> QED  BY <3>1, <3>2, <3>3, <2>2
  <2>3. n \in T
    <3> HIDE DEF T
    <3> QED  BY <2>1, <2>2, Induct
  <2> QED  BY <2>3
<1> QED  BY <1>1, <1>5

\* As many elements as there are behind the first item are read as they were written.
LEMMA ElementsRead ==
  ASSUME NEW items, NEW m, Items(items, m), NEW left, Leaves(items, m, left), NEW n \in Nat, 1 + 4 * n <= m,
         \A i \in 0..(n - 1) : ElementAt(items, 1 + 4 * i), NEW out
  PROVE  ListRead(At(left[1], out), n) = At(left[1 + 4 * n], Behind(items, 4 * n))
<1> DEFINE V == {items[i][2] : i \in 1..m}
           f == [i \in 0..n |-> At(left[1 + 4 * i], Behind(items, 4 * i))]
           T == {i \in Nat : i \in 0..n => Behind(items, 4 * i) \in Seq(V)}
           Q(i) == ReadElement(At(left[1 + 4 * i], Behind(items, 4 * i))) = At(left[1 + 4 * (i + 1)], Behind(items, 4 * (i + 1)))
<1>1. \A i \in 1..m : items[i][2] \in V  OBVIOUS
<1> HIDE DEF V
<1>2. ASSUME NEW i \in Nat, i \in 0..(n - 1), Behind(items, 4 * i) \in Seq(V)
      PROVE  Q(i) /\ Behind(items, 4 * (i + 1)) \in Seq(V)
  <2> DEFINE k == 4 * i
  <2>1. k \in Nat /\ 1 + (k + 4) <= m /\ 4 * (i + 1) = k + 4 /\ k = 4 * i  BY <1>2 DEF Items
  <2>2. ElementAt(items, 1 + k)  BY <1>2
  <2>3. Behind(items, k) \in Seq(V)  BY <1>2
  <2> HIDE DEF k
  <2>4. /\ ReadElement(At(left[1 + k], Behind(items, k))) = At(left[1 + (k + 4)], Behind(items, k + 4))
        /\ Behind(items, k + 4) \in Seq(V)
    BY <1>1, <2>1, <2>2, <2>3, ElementRead
  <2> QED  BY ONLY <2>1, <2>4, Zenon
<1> HIDE DEF Q
<1>3. \A i \in Nat : i \in T
  <2>1. 0 \in T
    <3>1. Behind(items, 0) = <<>>  BY DEF Behind
    <3>2. 4 * 0 = 0 /\ <<>> \in Seq(V)  OBVIOUS
    <3> QED  BY <3>1, <3>2
  <2>2. \A i \in Nat : i \in T => i + 1 \in T
    <3> SUFFICES ASSUME NEW i \in Nat, i \in T, i + 1 \in 0..n PROVE Behind(items, 4 * (i + 1)) \in Seq(V)  OBVIOUS
    <3>1. i \in 0..n /\ i \in 0..(n - 1)  OBVIOUS
    <3> QED  BY <3>1, <1>2
  <2> HIDE DEF T
  <2> QED  BY ONLY <2>1, <2>2, Induct
<1>4. \A i \in 1..n : f[i] = ReadElement(f[i - 1])
  <2> SUFFICES ASSUME NEW i \in 1..n PROVE f[i] = ReadElement(f[i - 1])  OBVIOUS
  <2> DEFINE j == i - 1
  <2>1. j \in Nat /\ j \in 0..(n - 1) /\ j \in 0..n /\ j + 1 = i /\ i \in 0..n  OBVIOUS
  <2>2. Q(j)  BY <1>2, <1>3, <2>1
  <2>3. f[j] = At(left[1 + 4 * j], Behind(items, 4 * j)) /\ f[i] = At(left[1 + 4 * i], Behind(items, 4 * i))
    BY <2>1
  <2> HIDE DEF j, f
  <2>4. f[i] = ReadElement(f[j])  BY ONLY <2>1, <2>2, <2>3, Zenon DEF Q
  <2> QED  BY ONLY <2>4, Zenon DEF j
<1>5. f[0] = Having(At(left[1], out), <<>>)
  <2>1. f[0] = At(left[1 + 4 * 0], Behind(items, 4 * 0))  OBVIOUS
  <2>2. 1 + 4 * 0 = 1 /\ 4 * 0 = 0  OBVIOUS
  <2>3. Behind(items, 0) = <<>>  BY DEF Behind
  <2>4. Having(At(left[1], out), <<>>) = At(left[1], <<>>)  BY AtHaving
  <2> HIDE DEF f
  <2> QED  BY ONLY <2>1, <2>2, <2>3, <2>4, Zenon
<1>6. f[n] = At(left[1 + 4 * n], Behind(items, 4 * n))  OBVIOUS
<1> HIDE DEF f
<1>7. ListRead(At(left[1], out), n) = f[n]  BY <1>4, <1>5, ListReadIs
<1> QED  BY ONLY <1>6, <1>7, Zenon

\* The elements of a list: each of an object of S and a property asked for, and, of one property,
\* each of S.
QuadsFor(quads, m, property, S) ==
  /\ quads \in Seq(Seq(SoundItems)) /\ m \in Nat /\ m = Len(quads) /\ \A i \in 1..m : Len(quads[i]) = 4
  /\ \A i \in 1..m : \E g \in S : \E p \in ObjectCodes : quads[i] = Quad(g, p) /\ property \in {All, p}
  /\ property # All => \A g \in S : \E i \in 1..m : quads[i] = Quad(g, property)

\* An element of an object that fits comes back.
LEMMA FitsQuad ==
  ASSUME Database, NEW g \in DOMAIN db, Fits(db[g]), NEW p \in ObjectCodes
  PROVE  Quad(g, p) \in Seq(SoundItems) /\ Len(Quad(g, p)) = 4
BY QuadItems

\* A list of one property has an element for each object.
LEMMA OneQuads ==
  ASSUME Database, NEW S \in SUBSET (DOMAIN db), \A g \in S : Fits(db[g]), NEW property \in ObjectCodes,
         NEW s, Enumerates(s, S)
  PROVE  \E quads : QuadsFor(quads, Cardinality(S), property, S) /\ Body(s, property) = FlattenSeq(quads)
<1> DEFINE n == Cardinality(S)
           q == [i \in 1..n |-> Quad(s[i], property)]
<1>1. n \in Nat /\ DOMAIN s = 1..n /\ \A i \in 1..n : s[i] \in S  BY DEF Enumerates
<1>2. \A i \in 1..n : Elements(s[i], property) = Quad(s[i], property)
  <2>1. \A i \in 1..n : s[i] \in DOMAIN db  BY <1>1
  <2> QED  BY <2>1, ElementsAre
<1>3. Body(s, property) = FlattenSeq(q)
  <2>1. Body(s, property) = FlattenSeq([i \in 1..n |-> Elements(s[i], property)])  BY ONLY <1>1, Zenon DEF Body
  <2>2. [i \in 1..n |-> Elements(s[i], property)] = q  BY ONLY <1>2, Zenon
  <2> QED  BY <2>1, <2>2
<1>4. \A i \in 1..n : q[i] = Quad(s[i], property)  OBVIOUS
<1>5. \A i \in 1..n : q[i] \in Seq(SoundItems) /\ Len(q[i]) = 4
  <2> SUFFICES ASSUME NEW i \in 1..n PROVE q[i] \in Seq(SoundItems) /\ Len(q[i]) = 4  OBVIOUS
  <2>1. s[i] \in DOMAIN db /\ Fits(db[s[i]])  BY <1>1
  <2>2. Quad(s[i], property) \in Seq(SoundItems) /\ Len(Quad(s[i], property)) = 4  BY <2>1, FitsQuad
  <2> HIDE DEF q
  <2> QED  BY <1>4, <2>2
<1>6. q = [i \in 1..n |-> q[i]]  OBVIOUS
<1> HIDE DEF q
<1>7. q \in Seq(Seq(SoundItems)) /\ Len(q) = n  BY <1>1, <1>5, <1>6
<1>8. \A i \in 1..n : \E g \in S : \E p \in ObjectCodes : q[i] = Quad(g, p) /\ property \in {All, p}
  BY <1>1, <1>4
<1>9. \A g \in S : \E i \in 1..n : q[i] = Quad(g, property)
  <2>1. \A g \in S : \E i \in 1..n : s[i] = g  BY DEF Enumerates
  <2> QED  BY ONLY <1>4, <2>1, Zenon
<1>10. QuadsFor(q, n, property, S)  BY <1>1, <1>5, <1>7, <1>8, <1>9, Zenon DEF QuadsFor
<1> QED  BY <1>3, <1>10

\* A list of all properties has those of one object.
LEMMA AllQuads ==
  ASSUME Database, NEW S \in SUBSET (DOMAIN db), \A g \in S : Fits(db[g]), NEW h \in S
  PROVE  \E quads : QuadsFor(quads, 14, All, S) /\ Body(<<h>>, All) = FlattenSeq(quads)
<1> DEFINE q == QuadsOf(h)
<1>1. Elements(h, All) = FlattenSeq(q) /\ Elements(h, All) \in Seq(LooseItems)  BY ElementsAre
<1>2. Body(<<h>>, All) = FlattenSeq(q)
  <2>1. [i \in DOMAIN <<h>> |-> Elements(<<h>>[i], All)] = <<Elements(h, All)>>
    <3> DEFINE E(x) == Elements(x, All)
    <3>1. [i \in DOMAIN <<h>> |-> E(<<h>>[i])] = <<E(h)>>
      <4> HIDE DEF E
      <4> QED  OBVIOUS
    <3> QED  BY <3>1
  <2>2. Body(<<h>>, All) = FlattenSeq(<<Elements(h, All)>>)  BY ONLY <2>1, Zenon DEF Body
  <2>3. FlattenSeq(<<Elements(h, All)>>) = Elements(h, All)  BY <1>1, FlattenOne
  <2> QED  BY ONLY <1>1, <2>2, <2>3, Zenon
<1>3. \A i \in 1..14 : q[i] = Quad(h, ListOrder[i]) /\ ListOrder[i] \in ObjectCodes  BY OrderIs DEF QuadsOf
<1>4. q = [i \in 1..14 |-> q[i]]  BY DEF QuadsOf
<1> HIDE DEF q
<1>5. \A i \in 1..14 : q[i] \in Seq(SoundItems) /\ Len(q[i]) = 4
  <2> SUFFICES ASSUME NEW i \in 1..14 PROVE q[i] \in Seq(SoundItems) /\ Len(q[i]) = 4  OBVIOUS
  <2> DEFINE p == ListOrder[i]
  <2>1. p \in ObjectCodes /\ q[i] = Quad(h, p) /\ h \in DOMAIN db /\ Fits(db[h])  BY <1>3
  <2> HIDE DEF p
  <2>2. Quad(h, p) \in Seq(SoundItems) /\ Len(Quad(h, p)) = 4  BY <2>1, FitsQuad
  <2> QED  BY ONLY <2>1, <2>2, Zenon
<1>6. q \in Seq(Seq(SoundItems)) /\ Len(q) = 14  BY <1>4, <1>5
<1>7. \A i \in 1..14 : \E g \in S : \E p \in ObjectCodes : q[i] = Quad(g, p) /\ All \in {All, p}
  BY ONLY <1>3, h \in S, Zenon
<1>8. 14 \in Nat  OBVIOUS
<1>9. QuadsFor(q, 14, All, S)  BY ONLY <1>5, <1>6, <1>7, <1>8, Zenon DEF QuadsFor
<1> QED  BY <1>2, <1>9

\* There is nothing in a list of no objects.
LEMMA NoQuads ==
  ASSUME NEW property PROVE Body(<<>>, property) = <<>> /\ QuadsFor(<<>>, 0, All, {}) /\ FlattenSeq(<<>>) = <<>>
<1>1. <<>> \in Seq(Seq(SoundItems)) /\ Len(<<>>) = 0  OBVIOUS
<1>2. FlattenSeq(<<>>) = <<>>  BY <1>1, FlattenNone
<1>3. [i \in DOMAIN <<>> |-> Elements(<<>>[i], property)] = <<>>
  <2> DEFINE E(x) == Elements(x, property)
  <2>1. [i \in DOMAIN <<>> |-> E(<<>>[i])] = <<>>
    <3> HIDE DEF E
    <3> QED  OBVIOUS
  <2> QED  BY <2>1
<1>4. Body(<<>>, property) = <<>>  BY ONLY <1>2, <1>3, Zenon DEF Body
<1>5. QuadsFor(<<>>, 0, All, {})  BY <1>1 DEF QuadsFor
<1> QED  BY <1>2, <1>4, <1>5

\* All that is asked for is in the list, unless it is of those that are excepted.
LEMMA ListQuads ==
  ASSUME Database, NEW h, NEW depth, depth = 0 => h \in DOMAIN db, NEW S, S = About(h, depth),
         \A g \in S : Fits(db[g]), NEW property \in ObjectCodes \cup {All},
         ~(property \in {NonConsumed, All} /\ Cardinality(S) > (IF property = All THEN 2 ELSE 1)),
         NEW c, c = Count(Len(Listed(h, depth)), property)
  PROVE  \E quads : \E m \in Nat :
           /\ QuadsFor(quads, m, property, S) /\ Body(Sent(Listed(h, depth), property), property) = FlattenSeq(quads)
           /\ c \in 0..m /\ c < Long /\ (property # All => c = m)
<1> DEFINE s == Listed(h, depth)
           n == Cardinality(S)
<1>1. Enumerates(s, S) /\ S \in SUBSET (DOMAIN db)  BY ListedIs DEF About
<1> HIDE DEF s
<1>2. n \in Nat /\ s \in Seq(S) /\ Len(s) = n /\ n <= MaxHandle /\ n < Long /\ Long > 65536 /\ Long \in Nat
  <2>1. MaxHandle \in Nat /\ MaxHandle < Long - 1 /\ Long > 65536 /\ Long \in Nat  BY HandlesAre, ModulusIs
  <2>2. n \in Nat /\ s \in Seq(S) /\ Len(s) = n /\ n <= MaxHandle  BY <1>1 DEF Enumerates
  <2> QED  BY <2>1, <2>2
<1>3. c = Count(n, property)  BY <1>2 DEF s
<1> HIDE DEF n
<1>4. CASE property \in ObjectCodes
  <2>1. property # All  BY <1>4, AllIsNone
  <2>2. c = n  BY <1>2, <1>3, <2>1 DEF Count
  <2>3. Sent(s, property) = s
    <3>1. property # NonConsumed \/ n <= 1  BY <1>2, <2>1 DEF n
    <3>2. property \notin {All, NonConsumed} \/ n <= 1  BY <2>1, <3>1
    <3> QED  BY <1>2, <3>2, SentIs
  <2>4. PICK quads : QuadsFor(quads, n, property, S) /\ Body(s, property) = FlattenSeq(quads)
    BY <1>1, <1>4, OneQuads DEF n
  <2>5. c \in 0..n /\ c < Long /\ n \in Nat  BY <1>2, <2>2
  <2> QED  BY ONLY <2>1, <2>2, <2>3, <2>4, <2>5, Zenon DEF s
<1>5. CASE property = All
  <2>1. c = 6 * n /\ n <= 2
    <3>1. n <= 2  BY <1>2, <1>5 DEF n
    <3>2. c = 6 * n  BY <1>3, <1>5 DEF Count
    <3> QED  BY <3>1, <3>2
  <2>2. CASE n = 0
    <3>1. s = <<>>  BY <1>2, <2>2, EmptySeq
    <3>2. S = {}
      <4>1. \A x \in S : \E i \in 1..n : s[i] = x  BY <1>1 DEF Enumerates, n
      <4> QED  BY <4>1, <2>2
    <3>3. Sent(s, property) = <<>>
      <4>1. n <= 1  BY <2>2
      <4>2. Sent(s, property) = s  BY <1>2, <4>1, SentIs
      <4> QED  BY ONLY <3>1, <4>2, Zenon
    <3>4. QuadsFor(<<>>, 0, property, S) /\ Body(<<>>, property) = FlattenSeq(<<>>)  BY <1>5, <3>2, NoQuads
    <3>5. c \in 0..0 /\ c < Long /\ 0 \in Nat  BY <1>2, <2>1, <2>2
    <3> QED  BY ONLY <1>5, <3>3, <3>4, <3>5, Zenon DEF s
  <2>3. CASE n > 0
    <3>1. Sent(s, property) = <<s[1]>> /\ s[1] \in S
      <4>1. s[1] \in S  BY <1>2, <2>3
      <4> QED  BY <1>2, <1>5, <2>3, <4>1, SentIs
    <3>2. PICK quads : QuadsFor(quads, 14, All, S) /\ Body(<<s[1]>>, All) = FlattenSeq(quads)
      BY <1>1, <3>1, AllQuads
    <3>3. c \in 0..14 /\ c < Long /\ 14 \in Nat  BY <1>2, <2>1
    <3> QED  BY ONLY <1>5, <3>1, <3>2, <3>3, Zenon DEF s
  <2> QED  BY <1>2, <2>2, <2>3
<1> QED  BY <1>4, <1>5

\* Four values of those that were read.
LEMMA FourOf ==
  ASSUME NEW items, NEW n \in Nat, NEW i \in Nat, i > 0, 4 * i <= n, NEW k \in 1..4
  PROVE  SubSeq(Behind(items, n), 4 * i - 3, 4 * i)[k] = Behind(items, n)[4 * i - 4 + k]
<1> DEFINE out == Behind(items, n)
<1>1. DOMAIN out = 1..n /\ out = [l \in 1..n |-> out[l]]  BY DEF Behind
<1> HIDE DEF out
<1> DEFINE V == {out[l] : l \in 1..n}
<1>2. \A l \in 1..n : out[l] \in V  OBVIOUS
<1> HIDE DEF V
<1>3. out \in Seq(V) /\ Len(out) = n  BY <1>1, <1>2
<1> DEFINE b == 4 * i - 3
           e == 4 * i
<1>4. b \in 1..n /\ e \in 1..n /\ e = b + 3 /\ (4 * i - 4) + k = b + k - 1  OBVIOUS
<1> HIDE DEF b, e
<1>5. \A l \in 1..4 : SubSeq(out, b, e)[l] = out[b + l - 1]
  <2>1. b \in Int /\ e \in Int /\ e - b + 1 = 4 /\ \A j \in b..e : out[j] \in V  BY <1>2, <1>4
  <2>2. \A l \in 1..(e - b + 1) : SubSeq(out, b, e)[l] = out[b + l - 1]  BY ONLY <2>1, SubSeqProperties
  <2> QED  BY ONLY <2>1, <2>2, Zenon
<1>6. SubSeq(out, b, e)[k] = out[(4 * i - 4) + k]  BY <1>4, <1>5
<1> QED  BY ONLY <1>6, Zenon DEF out, b, e

\* What is read of a list is what was put into it.
LEMMA ListReadsBack ==
  ASSUME NEW quads, NEW m \in Nat, NEW property, NEW S, QuadsFor(quads, m, property, S), S \in SUBSET (DOMAIN db),
         NEW c \in 0..m, c < Long,
         \A i \in 1..m : ElementAt(quads[i], 0),
         NEW payload, payload = Write(<<<<UINT32, c>>>> \o FlattenSeq(quads))
  PROVE  LET list == ListRead(Read(<<UINT32>>, payload), c) IN
         /\ Read(<<UINT32>>, payload).out[1] = c /\ list.ok
         /\ \A i \in 1..c : \A k \in 1..4 : SubSeq(list.out, 4 * i - 3, 4 * i)[k] = quads[i][k][2]
<1> DEFINE x == <<UINT32, c>>
           flat == FlattenSeq(quads)
           items == <<x>> \o flat
<1>1. quads \in Seq(Seq(SoundItems)) /\ m = Len(quads) /\ \A i \in 1..m : Len(quads[i]) = 4  BY DEF QuadsFor
<1>2. /\ flat \in Seq(SoundItems) /\ Len(flat) = 4 * m
      /\ \A i \in 1..m : \A k \in 1..4 : flat[4 * i - 4 + k] = quads[i][k]
  <2>1. m \in Nat  OBVIOUS
  <2> HIDE DEF flat
  <2>2. FlattenSeq(quads) \in Seq(SoundItems) /\ Len(FlattenSeq(quads)) = 4 * m  BY ONLY <1>1, <2>1, FlattenFours
  <2>3. \A i \in 1..m : \A k \in 1..4 : FlattenSeq(quads)[4 * i - 4 + k] = quads[i][k]
    <3>1. ASSUME NEW i \in 1..m, NEW k \in 1..4 PROVE FlattenSeq(quads)[4 * i - 4 + k] = quads[i][k]
      BY ONLY <1>1, <2>1, i \in 1..m, k \in 1..4, FlattenFours
    <3> QED  BY <3>1
  <2> QED  BY ONLY <2>2, <2>3, Zenon DEF flat
<1>3. x \in SoundItems /\ x[1] = UINT32 /\ x[2] = c
  <2>1. \A v \in 0..(Long - 1) : <<UINT32, v>> \in SoundItems  BY SmallItems
  <2>2. c \in 0..(Long - 1)  BY ModulusIs
  <2>3. x \in SoundItems  BY ONLY <2>1, <2>2, Zenon
  <2>4. x[1] = UINT32 /\ x[2] = c  OBVIOUS
  <2> QED  BY <2>3, <2>4
<1> HIDE DEF x, flat
<1>4. items \in Seq(SoundItems) /\ Len(items) = 1 + 4 * m /\ items[1] = x /\ \A j \in 1..(4 * m) : items[1 + j] = flat[j]
  <2>1. <<x>> \in Seq(SoundItems) /\ Len(<<x>>) = 1 /\ <<x>>[1] = x  BY <1>3
  <2> DEFINE a == <<x>>
  <2> HIDE DEF a
  <2>2. /\ a \o flat \in Seq(SoundItems) /\ Len(a \o flat) = Len(a) + Len(flat)
        /\ \A i \in 1..(Len(a) + Len(flat)) : (a \o flat)[i] = IF i <= Len(a) THEN a[i] ELSE flat[i - Len(a)]
    BY <1>2, <2>1, ConcatProperties DEF a
  <2>3. Len(a) = 1 /\ a[1] = x /\ items = a \o flat  BY <2>1 DEF a
  <2> HIDE DEF items
  <2>4. Len(items) = 1 + 4 * m /\ items \in Seq(SoundItems)  BY <1>2, <2>2, <2>3
  <2>5. items[1] = x  BY <1>2, <2>2, <2>3
  <2>6. \A j \in 1..(4 * m) : items[1 + j] = flat[j]
    <3> SUFFICES ASSUME NEW j \in 1..(4 * m) PROVE items[1 + j] = flat[j]  OBVIOUS
    <3>1. 1 + j \in 1..(Len(a) + Len(flat)) /\ ~(1 + j <= Len(a)) /\ (1 + j) - Len(a) = j  BY <1>2, <2>3
    <3> QED  BY <2>2, <2>3, <3>1
  <2> QED  BY <2>4, <2>5, <2>6
<1> HIDE DEF items
<1> DEFINE N == 1 + 4 * m
<1>5. Items(items, N) /\ N \in Nat
  <2>1. N = Len(items) /\ N \in Nat  BY <1>4
  <2> HIDE DEF N
  <2> QED  BY ONLY <1>4, <2>1, ItemsSound
<1>6. PICK left : Leaves(items, N, left)  BY <1>5, LeavesExist
<1>7. Read(<<UINT32>>, payload) = At(left[1], <<c>>)
  <2>1. \A y : <<y>> = [i \in 1..1 |-> y]  BY ONLY SMT
  <2>2. \A i \in 1..1 : i = 1  OBVIOUS
  <2>3. TypesOf(items, 1) = [i \in 1..1 |-> UINT32]  BY ONLY <1>3, <1>4, <2>2, Zenon DEF TypesOf
  <2>4. ValuesOf(items, 1) = [i \in 1..1 |-> c]  BY ONLY <1>3, <1>4, <2>2, Zenon DEF ValuesOf
  <2>5. <<UINT32>> = TypesOf(items, 1) /\ <<c>> = ValuesOf(items, 1)  BY ONLY <2>1, <2>3, <2>4, Zenon
  <2>6. 1 \in 0..N  OBVIOUS
  <2>7. Read(<<UINT32>>, Write(items)) = At(left[1], ValuesOf(items, 1))
    BY ONLY <1>5, <1>6, <2>5, <2>6, ReadsBack
  <2>8. payload = Write(items)  BY Zenon DEF items, x, flat
  <2> QED  BY ONLY <2>5, <2>7, <2>8, Zenon
<1>8. \A i \in 1..m : \A k \in 1..4 : items[1 + (4 * i - 4 + k)] = quads[i][k]
  <2> SUFFICES ASSUME NEW i \in 1..m, NEW k \in 1..4 PROVE items[1 + (4 * i - 4 + k)] = quads[i][k]  OBVIOUS
  <2>1. 4 * i - 4 + k \in 1..(4 * m)  OBVIOUS
  <2> QED  BY <1>2, <1>4, <2>1
<1>9. \A i \in 0..(c - 1) : ElementAt(items, 1 + 4 * i)
  <2> SUFFICES ASSUME NEW i \in 0..(c - 1) PROVE ElementAt(items, 1 + 4 * i)  OBVIOUS
  <2> DEFINE j == i + 1
  <2>1. j \in 1..m /\ \A k \in 1..4 : 1 + (4 * j - 4 + k) = (1 + 4 * i) + k  OBVIOUS
  <2> HIDE DEF j
  <2>2. \A k \in 1..4 : items[(1 + 4 * i) + k] = quads[j][k]  BY <1>8, <2>1
  <2>3. ElementAt(quads[j], 0)  BY <2>1
  <2> DEFINE q == quads[j]
             b == 1 + 4 * i
  <2>4. 0 + 1 = 1 /\ 0 + 2 = 2 /\ 0 + 3 = 3 /\ 0 + 4 = 4 /\ 1 \in 1..4 /\ 2 \in 1..4 /\ 3 \in 1..4 /\ 4 \in 1..4  OBVIOUS
  <2>5. items[b + 1] = q[1] /\ items[b + 2] = q[2] /\ items[b + 3] = q[3] /\ items[b + 4] = q[4]
    BY ONLY <2>2, <2>4, Zenon
  <2> HIDE DEF q, b
  <2>6. q[1][1] = UINT32 /\ q[2][1] = UINT16 /\ q[3][1] = UINT16 /\ q[4][1] = q[3][2]
        /\ q[3][2] \in {UINT16, UINT32, UINT128, STR}
    <3>1. ElementAt(q, 0)  BY ONLY <2>3, Zenon DEF q
    <3>2. /\ q[0 + 1][1] = UINT32 /\ q[0 + 2][1] = UINT16 /\ q[0 + 3][1] = UINT16 /\ q[0 + 4][1] = q[0 + 3][2]
          /\ q[0 + 3][2] \in {UINT16, UINT32, UINT128, STR}
      BY ONLY <3>1, Zenon DEF ElementAt
    <3> QED  BY ONLY <3>2, <2>4, Zenon
  <2>7. ElementAt(items, b)  BY ONLY <2>5, <2>6, Zenon DEF ElementAt
  <2> QED  BY ONLY <2>7, Zenon DEF b
<1> DEFINE out == Behind(items, 4 * c)
<1>10. ListRead(At(left[1], <<c>>), c) = At(left[1 + 4 * c], out)
  <2>1. c \in Nat /\ 1 + 4 * c <= N  OBVIOUS
  <2> HIDE DEF N
  <2> QED  BY <1>5, <1>6, <1>9, <2>1, ElementsRead
<1>11. Read(<<UINT32>>, payload).out[1] = c
  <2>1. Read(<<UINT32>>, payload).out = <<c>>
    <3>1. \A in, o : At(in, o).out = o  BY AtIs, ZenonT(60)
    <3> QED  BY ONLY <1>7, <3>1, Zenon
  <2> QED  BY <2>1
<1>12. ListRead(Read(<<UINT32>>, payload), c).ok /\ ListRead(Read(<<UINT32>>, payload), c).out = out
  <2>1. \A in, o : At(in, o).ok /\ At(in, o).out = o  BY AtIs, ZenonT(60)
  <2> HIDE DEF out
  <2> DEFINE L == ListRead(Read(<<UINT32>>, payload), c)
  <2>2. L = At(left[1 + 4 * c], out)  BY ONLY <1>7, <1>10, Zenon
  <2> HIDE DEF L
  <2>3. L.ok /\ L.out = out  BY ONLY <2>1, <2>2, Zenon
  <2> QED  BY ONLY <2>3, Zenon DEF L
<1>13. \A i \in 1..c : \A k \in 1..4 : SubSeq(out, 4 * i - 3, 4 * i)[k] = quads[i][k][2]
  <2> SUFFICES ASSUME NEW i \in 1..c, NEW k \in 1..4 PROVE SubSeq(out, 4 * i - 3, 4 * i)[k] = quads[i][k][2]
    OBVIOUS
  <2> DEFINE j == 4 * i - 4 + k
  <2>1. j \in 1..(4 * c) /\ i \in 1..m /\ 4 * c \in Nat /\ j = k + (4 * i - 3) - 1  OBVIOUS
  <2>2. out[j] = items[1 + j][2]  BY <2>1 DEF Behind
  <2>3. items[1 + j] = quads[i][k]  BY <1>8, <2>1
  <2>4. SubSeq(out, 4 * i - 3, 4 * i)[k] = out[j]
    <3>1. 4 * c \in Nat /\ 4 * i <= 4 * c /\ i \in Nat /\ i > 0  OBVIOUS
    <3> QED  BY ONLY <3>1, k \in 1..4, FourOf
  <2> HIDE DEF out, j
  <2> QED  BY ONLY <2>2, <2>3, <2>4, Zenon
<1> HIDE DEF out
<1> QED  BY ONLY <1>11, <1>12, <1>13, Zenon

\* The four items of an element.
LEMMA QuadIs ==
  ASSUME Database, NEW g \in DOMAIN db, NEW p \in ObjectCodes
  PROVE  LET q == Quad(g, p) IN
         /\ q[1][2] = g /\ q[2][2] = (IF p = Modified THEN Created ELSE p)
         /\ q[3][2] = TypeOf[p] /\ q[4][2] = ValueOf(p, g, db[g])
         /\ ElementAt(q, 0)
<1> DEFINE a == <<UINT32, g>>
           b == <<UINT16, IF p = Modified THEN Created ELSE p>>
           c == <<UINT16, TypeOf[p]>>
           d == <<TypeOf[p], ValueOf(p, g, db[g])>>
           q == Quad(g, p)
<1>1. q = <<a, b, c, d>>  BY DEF Quad
<1>2. TypeOf[p] \in {UINT16, UINT32, UINT128, STR}
  <2>1. EntryOK(db[g]) /\ g \in Int  BY HandlesAre DEF Database
  <2> QED  BY <2>1, ValueItem
<1>3. /\ a[1] = UINT32 /\ b[1] = UINT16 /\ c[1] = UINT16 /\ d[1] = TypeOf[p]
      /\ a[2] = g /\ b[2] = (IF p = Modified THEN Created ELSE p) /\ c[2] = TypeOf[p] /\ d[2] = ValueOf(p, g, db[g])
  OBVIOUS
<1> HIDE DEF a, b, c, d, q
<1>4. q[1] = a /\ q[2] = b /\ q[3] = c /\ q[4] = d  BY ONLY <1>1, SMT
<1>5. q[4][1] = q[3][2]  BY ONLY <1>3, <1>4, Zenon
<1>6. ElementAt(q, 0)
  <2>1. 0 + 1 = 1 /\ 0 + 2 = 2 /\ 0 + 3 = 3 /\ 0 + 4 = 4  OBVIOUS
  <2>2. /\ q[0 + 1][1] = UINT32 /\ q[0 + 2][1] = UINT16 /\ q[0 + 3][1] = UINT16 /\ q[0 + 4][1] = q[0 + 3][2]
        /\ q[0 + 3][2] \in {UINT16, UINT32, UINT128, STR}
    BY ONLY <1>2, <1>3, <1>4, <1>5, <2>1, Zenon
  <2> QED  BY ONLY <2>2, Zenon DEF ElementAt
<1>7. /\ q[1][2] = g /\ q[2][2] = (IF p = Modified THEN Created ELSE p)
      /\ q[3][2] = TypeOf[p] /\ q[4][2] = ValueOf(p, g, db[g])
  BY ONLY <1>3, <1>4, Zenon
<1> QED  BY ONLY <1>6, <1>7, Zenon DEF q

\* An element is of an object asked for, of the property asked for, with its value.
Truth(el, property, asked) ==
  /\ el[1] \in asked
  /\ property \in {All, el[2]} \/ property = Modified
  /\ \/ /\ el[3] = DescribedType[el[2]]
        /\ el[4] = ValueOf(el[2], el[1], card[el[1]])
     \/ el[2] = Created /\ el[4] = Date(card[el[1]].modified)

\* What an element says of an object is true.
LEMMA QuadTells ==
  ASSUME Database, NEW S \in SUBSET (DOMAIN db), S \subseteq DOMAIN card, NEW g \in S, NEW p \in ObjectCodes,
         NEW property, property \in {All, p}, NEW el, \A k \in 1..4 : el[k] = Quad(g, p)[k][2]
  PROVE  Truth(el, property, S)
<1>1. g \in DOMAIN db /\ card[g] = db[g]  BY DEF Database
<1>2. 1 \in 1..4 /\ 2 \in 1..4 /\ 3 \in 1..4 /\ 4 \in 1..4  OBVIOUS
<1>3. LET q == Quad(g, p) IN
      /\ q[1][2] = g /\ q[2][2] = (IF p = Modified THEN Created ELSE p)
      /\ q[3][2] = TypeOf[p] /\ q[4][2] = ValueOf(p, g, db[g])
  BY ONLY Database, <1>1, p \in ObjectCodes, QuadIs, ZenonT(60)
<1>4. el[1] = Quad(g, p)[1][2] /\ el[2] = Quad(g, p)[2][2] /\ el[3] = Quad(g, p)[3][2] /\ el[4] = Quad(g, p)[4][2]
  BY ONLY <1>2, \A k \in 1..4 : el[k] = Quad(g, p)[k][2], Zenon
<1>5. /\ el[1] = g /\ el[2] = (IF p = Modified THEN Created ELSE p) /\ el[3] = TypeOf[p]
      /\ el[4] = ValueOf(p, g, card[g])
  BY ONLY <1>1, <1>3, <1>4, Zenon
<1>6. CASE p = Modified
  <2>1. el[2] = Created  BY ONLY <1>5, <1>6, Zenon
  <2>2. el[4] = Date(card[el[1]].modified)
    <3>1. ValueOf(Modified, g, card[g]) = Date(card[g].modified)  BY ValueOfIs
    <3> QED  BY ONLY <1>5, <1>6, <3>1, Zenon
  <2>3. property \in {All, el[2]} \/ property = Modified  BY <1>6
  <2> QED  BY ONLY <1>5, <2>1, <2>2, <2>3, g \in S, Zenon DEF Truth
<1>7. CASE p # Modified
  <2>1. el[2] = p  BY ONLY <1>5, <1>7, Zenon
  <2>2. DescribedType[p] = TypeOf[p]  BY DescribedTypes
  <2> QED  BY ONLY <1>5, <2>1, <2>2, g \in S, property \in {All, p}, Zenon DEF Truth
<1> QED  BY <1>6, <1>7

\* The answer to a request for a list.
ListSaid(S, property, count, out, ok) ==
  /\ ok
  /\ \A i \in 1..count : Truth(SubSeq(out, 4 * i - 3, 4 * i), property, S)
  /\ property # All => {SubSeq(out, 4 * i - 3, 4 * i)[1] : i \in 1..count} = S

\* What the host reads of a list is true of all objects and properties asked for.
LEMMA ListTells ==
  ASSUME Invs, Answered("GetObjectPropList"), NEW property, property = host.par[3],
         NEW S, S = About(host.par[1], host.par[5]), S \subseteq DOMAIN card, \A h \in S : Fits(card[h]),
         ~(property \in {NonConsumed, All} /\ Cardinality(S) > (IF property = All THEN 2 ELSE 1)),
         NEW head, head = Read(<<UINT32>>, host.payload), NEW count, count = head.out[1],
         NEW list, list = ListRead(head, count)
  PROVE  ListSaid(S, property, count, list.out, list.ok)
<1> DEFINE q == host.heard.of.par
           h == host.par[1]
           depth == host.par[5]
           r == PropertyList(q[1], q[3], q[4], q[5])
           c == Count(Len(Listed(h, depth)), property)
<1>1. Told /\ host.op = "GetObjectPropList" /\ Describes("GetObjectPropList", q, host.payload)  BY AnswerDescribes
<1>2. r[1] = "OK" /\ host.payload = Write(r[2])  BY <1>1 DEF Describes
<1>3. q[1] = h /\ q[3] = property /\ q[5] = depth /\ property \in {0, FileName, Modified, NonConsumed, All}
  <2>1. /\ Len(host.par) = 5 /\ host.par[3] \in {0, FileName, Modified, NonConsumed, All}
        /\ \A i \in 1..Len(host.par) : q[i] = host.par[i]
    BY <1>1, HeardPars DEF Invs, Enough
  <2> QED  BY <2>1
<1>4. /\ depth = 0 => h \in DOMAIN db
      /\ property # 0
      /\ r[2] = <<<<UINT32, c>>>> \o Body(Sent(Listed(h, depth), property), property)
  <2>1. PropertyList(h, property, q[4], depth)[1] = "OK"  BY <1>2, <1>3
  <2>2. LET handles == Listed(h, depth) IN
        /\ depth = 0 => h \in DOMAIN db
        /\ q[4] = 0 /\ property # 0
        /\ PropertyList(h, property, q[4], depth)[2]
           = <<<<UINT32, Count(Len(handles), property)>>>> \o Body(Sent(handles, property), property)
    BY ONLY <2>1, PropertyListIs
  <2> QED  BY ONLY <1>3, <2>2, ZenonT(60)
<1>5. Database /\ S \in SUBSET (DOMAIN db)  BY SMTT(40) DEF Invs, Typed, About
<1>6. property \in ObjectCodes \cup {All}
  <2>1. FileName \in ObjectCodes /\ Modified \in ObjectCodes /\ NonConsumed \in ObjectCodes  BY DEF ObjectCodes
  <2> QED  BY <1>3, <1>4, <2>1
<1>7. \A g \in S : Fits(db[g])  BY <1>5 DEF Database
<1> HIDE DEF c, r, q
<1>8. PICK quads : \E m \in Nat :
        /\ QuadsFor(quads, m, property, S) /\ Body(Sent(Listed(h, depth), property), property) = FlattenSeq(quads)
        /\ c \in 0..m /\ c < Long /\ (property # All => c = m)
  BY <1>4, <1>5, <1>6, <1>7, ListQuads DEF c
<1>9. PICK m \in Nat :
        /\ QuadsFor(quads, m, property, S) /\ Body(Sent(Listed(h, depth), property), property) = FlattenSeq(quads)
        /\ c \in 0..m /\ c < Long /\ (property # All => c = m)
  BY <1>8
<1>10. host.payload = Write(<<<<UINT32, c>>>> \o FlattenSeq(quads))
  BY ONLY <1>2, <1>4, <1>9, Zenon
<1>11. \A i \in 1..m : \E g \in S : \E p \in ObjectCodes : quads[i] = Quad(g, p) /\ property \in {All, p}
  BY <1>9, Zenon DEF QuadsFor
<1>12. \A i \in 1..m : ElementAt(quads[i], 0)
  <2> SUFFICES ASSUME NEW i \in 1..m PROVE ElementAt(quads[i], 0)  OBVIOUS
  <2>1. PICK g \in S, p \in ObjectCodes : quads[i] = Quad(g, p)  BY <1>11
  <2>2. g \in DOMAIN db  BY <1>5, <2>1
  <2>3. ElementAt(Quad(g, p), 0)  BY <1>5, <2>1, <2>2, QuadIs, Zenon
  <2> QED  BY ONLY <2>1, <2>3, Zenon
<1>13. LET l == ListRead(Read(<<UINT32>>, host.payload), c) IN
       /\ Read(<<UINT32>>, host.payload).out[1] = c /\ l.ok
       /\ \A i \in 1..c : \A k \in 1..4 : SubSeq(l.out, 4 * i - 3, 4 * i)[k] = quads[i][k][2]
  BY ONLY <1>5, <1>9, <1>10, <1>12, ListReadsBack
<1>14. count = c /\ list.ok /\ \A i \in 1..c : \A k \in 1..4 : SubSeq(list.out, 4 * i - 3, 4 * i)[k] = quads[i][k][2]
  BY <1>13, Zenon
<1> DEFINE el(i) == SubSeq(list.out, 4 * i - 3, 4 * i)
<1>15. \A i \in 1..count : \A k \in 1..4 : el(i)[k] = quads[i][k][2]  BY ONLY <1>14, Zenon
<1>16. \A i \in 1..count : i \in 1..m  BY <1>9, <1>14
<1> HIDE DEF el
<1>17. \A i \in 1..count : Truth(el(i), property, S)
  <2> SUFFICES ASSUME NEW i \in 1..count PROVE Truth(el(i), property, S)  OBVIOUS
  <2>1. PICK g \in S, p \in ObjectCodes : quads[i] = Quad(g, p) /\ property \in {All, p}  BY <1>11, <1>16
  <2>2. \A k \in 1..4 : el(i)[k] = Quad(g, p)[k][2]  BY ONLY <1>15, <2>1, i \in 1..count, Zenon
  <2>3. S \subseteq DOMAIN card  OBVIOUS
  <2> QED  BY ONLY <1>5, <2>1, <2>2, <2>3, QuadTells
<1>18. ASSUME property # All PROVE {el(i)[1] : i \in 1..count} = S
  <2>1. \A i \in 1..count : el(i)[1] \in S  BY ONLY <1>17, Zenon DEF Truth
  <2>2. ASSUME NEW g \in S PROVE \E i \in 1..count : el(i)[1] = g
    <3>1. PICK i \in 1..m : quads[i] = Quad(g, property)  BY <1>9, <1>18 DEF QuadsFor
    <3>2. i \in 1..count  BY <1>9, <1>14, <1>18, <3>1
    <3>3. property \in ObjectCodes /\ g \in DOMAIN db  BY <1>5, <1>6, <1>18
    <3>4. Quad(g, property)[1][2] = g  BY ONLY <1>5, <3>3, QuadIs, Zenon
    <3>5. 1 \in 1..4  OBVIOUS
    <3> QED  BY ONLY <1>15, <3>1, <3>2, <3>4, <3>5, Zenon
  <2> QED  BY ONLY <2>1, <2>2, Zenon
<1> QED  BY ONLY <1>14, <1>17, <1>18, Zenon DEF ListSaid, el

\* A list of properties tells the truth, for any database whose names and sizes the codec carries:
\* as many elements as it promises, each of an object and a property asked for, with its type and
\* its value; and a list of one property has all the objects (getObjectPropertyList).
THEOREM ListsAreRight == Spec => []ListTellsTruth
<1>1. ASSUME Invs PROVE ListTellsTruth
  <2> DEFINE property == host.par[3]
             asked == {h \in DOMAIN db : IF host.par[5] = 0 THEN h = host.par[1] ELSE db[h].parent = host.par[1]}
             head == Read(<<UINT32>>, host.payload)
             count == head.out[1]
             list == ListRead(head, count)
             el(i) == SubSeq(list.out, 4 * i - 3, 4 * i)
             Excepted == property \in {NonConsumed, All} /\ Cardinality(asked) > (IF property = All THEN 2 ELSE 1)
             Goal == Answered("GetObjectPropList") =>
                       ((asked \subseteq DOMAIN card /\ \A h \in asked : Fits(card[h])) =>
                          Excepted \/ ListSaid(asked, property, count, list.out, list.ok))
  <2>1. Goal
    <3>1. asked = About(host.par[1], host.par[5])  BY Zenon DEF About
    <3> HIDE DEF asked, head, count, list, property
    <3> SUFFICES ASSUME Answered("GetObjectPropList"), asked \subseteq DOMAIN card, \A h \in asked : Fits(card[h]), ~Excepted
                 PROVE  ListSaid(asked, property, count, list.out, list.ok)
      OBVIOUS
    <3>2. property = host.par[3] /\ head = Read(<<UINT32>>, host.payload) /\ count = head.out[1] /\ list = ListRead(head, count)
      BY Zenon DEF property, head, count, list
    <3> QED  BY <1>1, <3>1, <3>2, ListTells
  <2>2. Goal => ListTellsTruth
    BY Zenon DEF ListTellsTruth, ListSaid, Truth, ListRead
  <2> HIDE DEF Goal
  <2> QED  BY <2>1, <2>2
<1>2. PacketsInv /\ Typed /\ Described => ListTellsTruth  BY <1>1 DEF Invs
<1> QED  BY <1>2, PacketsInvariance, TypedInvariance, DescribedInvariance, PTL

=================================================================================
