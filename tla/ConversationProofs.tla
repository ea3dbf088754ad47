------------------------- MODULE ConversationProofs -------------------------
(***************************************************************************)
(* Proofs about Conversation, for any requests, hosts, connections and     *)
(* lengths of the conversation.                                            *)
(***************************************************************************)
EXTENDS Conversation, ListOpsProofs

----------------------------------------------------------------------------
(* The sessions of the server.  Each action gives one of them a new value; *)
(* whatever the session was, its answers have kept their order.            *)
Session(o, t, m, h, e) ==
    [object |-> o, timer |-> t, encoder |-> m, handled |-> h, sent |-> e]

(* Response a is for request q.                                            *)
IsFor(a, q) ==
    a.id = q.id /\ a.ref = q.ref /\ a.kind = ResponseKind(q.kind)

InOrder(s) ==
    /\ Len(s.sent) <= Len(s.handled)
    /\ \A i \in DOMAIN s.sent : IsFor(s.sent[i], s.handled[i])
    /\ Len(s.sent) < Len(s.handled) => s.encoder = "error" \/ s.object = "gone"

SessionOK(s) ==
    /\ s = Session(s.object, s.timer, s.encoder, s.handled, s.sent)
    /\ IsSeq(s.handled) /\ IsSeq(s.sent)
    /\ InOrder(s)

ServerInv ==
    /\ session = [l \in Lines |-> session[l]]
    /\ \A l \in Lines : SessionOK(session[l])

LEMMA OneSession ==
    ASSUME ServerInv, NEW l \in Lines, NEW x, SessionOK(x),
           session' = [session EXCEPT ![l] = x]
    PROVE  ServerInv'
<1>1. session' = [k \in Lines |-> IF k = l THEN x ELSE session[k]]
  BY DEF ServerInv
<1>2. \A k \in Lines : session'[k] = x \/ session'[k] = session[k]
  BY <1>1
<1>3. \A k \in Lines : SessionOK(session'[k])
  BY <1>2 DEF ServerInv
<1>4. session' = [k \in Lines |-> session'[k]]
  BY <1>1
<1> QED BY <1>3, <1>4 DEF ServerInv

(* A session that ends is as good as it was, one more request handled or   *)
(* not: the end of a session excuses the answer that it owes.              *)
LEMMA EndOfSession ==
    ASSUME NEW o, NEW t, NEW m, NEW h, NEW e, NEW r,
           SessionOK(Session(o, t, m, h, e))
    PROVE  /\ SessionOK(FailNotify(Session(o, t, m, h, e)))
           /\ SessionOK(FailNotify(Session(o, t, m, Append(h, r), e)))
           /\ SessionOK(Session(o, t, "error", Append(h, r), e))
<1> DEFINE g == Append(h, r)
<1>1. IsSeq(h) /\ IsSeq(e) /\ InOrder(Session(o, t, m, h, e))
  BY DEF SessionOK, Session
<1>2. /\ IsSeq(g) /\ Len(g) = Len(h) + 1
      /\ \A i \in 1 .. Len(h) : g[i] = h[i]
  BY <1>1, AppendAnything
<1>3. /\ Len(h) \in Nat /\ Len(e) \in Nat /\ DOMAIN e = 1 .. Len(e)
      /\ Len(e) <= Len(h)
      /\ \A i \in DOMAIN e : IsFor(e[i], h[i])
  BY <1>1, IsSeqProperties DEF InOrder, Session
<1> HIDE DEF g
<1>4. ASSUME NEW p, NEW q, NEW n
      PROVE  FailNotify(Session(p, q, n, h, e)) = Session("gone", "off", n, h, e)
             /\ FailNotify(Session(p, q, n, g, e)) = Session("gone", "off", n, g, e)
  <2>1. ASSUME NEW k
        PROVE  FailNotify(Session(p, q, n, k, e)) = Session("gone", "off", n, k, e)
    <3>1. [Session(p, q, n, k, e) EXCEPT !.object = "gone"]
          = Session("gone", q, n, k, e)
      BY DEF Session
    <3>2. [Session("gone", q, n, k, e) EXCEPT !.timer = "off"]
          = Session("gone", "off", n, k, e)
      BY DEF Session
    <3> QED BY <3>1, <3>2 DEF FailNotify
  <2> QED BY <2>1
<1>5. SessionOK(Session("gone", "off", m, h, e))
  BY <1>1, <1>3 DEF SessionOK, InOrder, Session
<1>6. \A i \in DOMAIN e : IsFor(e[i], g[i])
  BY <1>2, <1>3
<1>7. ASSUME NEW p, NEW q, NEW n, n = "error" \/ p = "gone"
      PROVE  SessionOK(Session(p, q, n, g, e))
  <2>1. Len(e) <= Len(g)
    BY <1>2, <1>3
  <2> QED BY <1>1, <1>2, <1>6, <1>7, <2>1 DEF SessionOK, InOrder, Session
<1> QED BY <1>4, <1>5, <1>7 DEF g

(* The response to a request is for it: create_Z_PDU makes no response     *)
(* that has no place for the reference id.                                 *)
LEMMA ResponseIsFor ==
    ASSUME NEW r, NEW body,
           r.kind \in {"initRequest", "searchRequest", "presentRequest",
                       "extendedServicesRequest"}
    PROVE  IsFor(Response(r, body), r)
<1> DEFINE to == CreatePDU(ResponseKind(r.kind), body)
           a == [to EXCEPT !.ref = r.ref]
<1>1. ResponseKind(r.kind) \in ReferenceKinds /\ r.kind \in ReferenceKinds
  BY DEF ResponseKind, ReferenceKinds
<1>2. TransferReferenceId(r, to) = a
  BY <1>1 DEF TransferReferenceId, CreatePDU
<1>3. a = [kind |-> ResponseKind(r.kind), ref |-> r.ref, proxied |-> NoValue,
           id |-> 0, body |-> body]
  BY DEF CreatePDU
<1> HIDE DEF to, a
<1>4. Response(r, body) = [a EXCEPT !.id = r.id]
  BY <1>2 DEF Response, to
<1> QED BY <1>3, <1>4 DEF IsFor

(* The facilities take nothing that create_Z_PDU has no response for.      *)
LEMMA KindsAnswered ==
    ASSUME NEW r, r.kind = "initRequest" \/ TakenBy(r) # {}
    PROVE  r.kind \in {"initRequest", "searchRequest", "presentRequest",
                       "extendedServicesRequest"}
<1>1. ASSUME NEW f \in {"retrieval", "ill", "update"}, Takes(f, r)
      PROVE  r.kind \in {"searchRequest", "presentRequest",
                         "extendedServicesRequest"}
  BY <1>1 DEF Takes, RetrievalTakes, IllTakes, UpdateTakes
<1>2. \A i \in DOMAIN Facilities :
        Facilities[i] \in {"retrieval", "ill", "update"}
  BY DEF Facilities
<1> QED BY <1>1, <1>2 DEF TakenBy

LEMMA StepServer ==
    ASSUME ServerInv, NEW l \in Lines, ServerStep(l)
    PROVE  ServerInv'
<1> DEFINE o == session[l].object
           t == session[l].timer
           m == session[l].encoder
           h == session[l].handled
           e == session[l].sent
           r == Head(up[l])
<1>1. session[l] = Session(o, t, m, h, e) /\ SessionOK(session[l])
  BY DEF ServerInv, SessionOK
<1> HIDE DEF o, t, m, h, e
<1>2. Handles(session[l], r) = Session(o, t, m, Append(h, r), e)
  BY <1>1 DEF Session, Handles
<1>3. CASE Accept(l)
  <2>1. SessionNotify = Session("lives", "set", "ok", <<>>, <<>>)
    <3>1. NoSession = Session("none", "off", "ok", <<>>, <<>>)
      BY DEF NoSession, Session
    <3>2. [Session("none", "off", "ok", <<>>, <<>>) EXCEPT !.object = "lives"]
          = Session("lives", "off", "ok", <<>>, <<>>)
      BY DEF Session
    <3>3. [Session("lives", "off", "ok", <<>>, <<>>) EXCEPT !.timer = "set"]
          = Session("lives", "set", "ok", <<>>, <<>>)
      BY DEF Session
    <3> QED BY <3>1, <3>2, <3>3 DEF SessionNotify
  <2>2. IsSeq(<<>>)
    BY SeqOfAnything, EmptySeq
  <2>3. SessionOK(Session("lives", "set", "ok", <<>>, <<>>))
    BY <2>2, IsSeqProperties, EmptySeq DEF SessionOK, InOrder, Session
  <2> QED BY <1>3, <2>1, <2>3, OneSession DEF Accept
<1>4. CASE Refuse(l)
  <2>1. session' = [session EXCEPT ![l] =
                       FailNotify(Session(o, t, m, Append(h, r), e))]
    BY <1>2, <1>4 DEF Refuse, ServerInv
  <2> QED BY <1>1, <2>1, EndOfSession, OneSession
<1>5. CASE Answer(l)
  <2> DEFINE s == Session(o, t, m, Append(h, r), e)
  <2>1. r.kind \in {"initRequest", "searchRequest", "presentRequest",
                    "extendedServicesRequest"}
    BY <1>5, KindsAnswered DEF Answer
  <2>2. \/ session' = [session EXCEPT ![l] = [s EXCEPT !.encoder = "error"]]
        \/ /\ s.encoder = "ok"
           /\ \E body : session' = [session EXCEPT ![l] =
                             Sends(s, Response(r, body))]
        \/ session' = [session EXCEPT ![l] = FailNotify(s)]
    BY <1>2, <1>5 DEF Answer
  <2>3. CASE session' = [session EXCEPT ![l] = [s EXCEPT !.encoder = "error"]]
    <3>1. [s EXCEPT !.encoder = "error"] = Session(o, t, "error", Append(h, r), e)
      BY DEF Session
    <3>2. SessionOK(Session(o, t, "error", Append(h, r), e))
      BY <1>1, EndOfSession
    <3> HIDE DEF s
    <3> QED BY <2>3, <3>1, <3>2, OneSession
  <2>4. CASE session' = [session EXCEPT ![l] = FailNotify(s)]
    BY <1>1, <2>4, EndOfSession, OneSession
  <2>5. ASSUME s.encoder = "ok", NEW body,
               session' = [session EXCEPT ![l] =
                             Sends(s, Response(r, body))]
        PROVE  ServerInv'
    <3> DEFINE a == Response(r, body)
               g == Append(h, r)
               f == Append(e, a)
    <3>1. Sends(s, a) = Session(o, t, m, g, f)
      <4>1. s.sent = e
        BY DEF Session
      <4>2. [Session(o, t, m, g, e) EXCEPT !.sent = f] = Session(o, t, m, g, f)
        <5> HIDE DEF g, f
        <5> QED BY DEF Session
      <4> QED BY <4>1, <4>2 DEF Sends
    <3>2. /\ IsSeq(h) /\ IsSeq(e) /\ InOrder(Session(o, t, m, h, e)) /\ m = "ok"
          /\ o # "gone"
      BY <1>1, <1>5, <2>5 DEF SessionOK, Session, Answer, o
    <3>3. IsFor(a, r)
      BY <2>1, ResponseIsFor
    <3> HIDE DEF a
    <3>4. /\ Len(h) \in Nat /\ Len(e) = Len(h) /\ DOMAIN e = 1 .. Len(e)
          /\ \A i \in DOMAIN e : IsFor(e[i], h[i])
      BY <3>2, IsSeqProperties DEF InOrder, Session
    <3>5. /\ IsSeq(g) /\ Len(g) = Len(h) + 1
          /\ \A i \in 1 .. Len(h) : g[i] = h[i]
          /\ g[Len(h) + 1] = r
      BY <3>2, AppendAnything
    <3>6. /\ IsSeq(f) /\ Len(f) = Len(e) + 1
          /\ \A i \in 1 .. Len(e) : f[i] = e[i]
          /\ f[Len(e) + 1] = a
      BY <3>2, AppendAnything
    <3> HIDE DEF g, f
    <3>7. DOMAIN f = 1 .. Len(h) + 1
      BY <3>4, <3>6, IsSeqProperties
    <3>8. \A i \in DOMAIN f : IsFor(f[i], g[i])
      BY <3>3, <3>4, <3>5, <3>6, <3>7
    <3>9. SessionOK(Session(o, t, m, g, f))
      BY <3>4, <3>5, <3>6, <3>8 DEF SessionOK, InOrder, Session
    <3> QED BY <2>5, <3>1, <3>9, OneSession DEF a
  <2> QED BY <2>2, <2>3, <2>4, <2>5
<1>6. CASE PeerCloses(l) \/ IdleTimeout(l)
  <2>1. session' = [session EXCEPT ![l] = FailNotify(Session(o, t, m, h, e))]
    BY <1>1, <1>6 DEF PeerCloses, IdleTimeout, ServerInv
  <2> QED BY <1>1, <2>1, EndOfSession, OneSession
<1> QED BY <1>3, <1>4, <1>5, <1>6 DEF ServerStep

LEMMA ServerInvariance == Spec => []ServerInv
<1>1. Init => ServerInv
  <2>1. IsSeq(<<>>) /\ Len(<<>>) = 0
    BY SeqOfAnything, EmptySeq
  <2>2. NoSession = Session("none", "off", "ok", <<>>, <<>>)
    BY DEF NoSession, Session
  <2>3. SessionOK(NoSession)
    BY <2>1, <2>2, IsSeqProperties DEF SessionOK, InOrder, Session
  <2> QED BY <2>3 DEF Init, InitServer, ServerInv
<1>2. ServerInv /\ [Next]_vars => ServerInv'
  <2> SUFFICES ASSUME ServerInv, [Next]_vars PROVE ServerInv'
    OBVIOUS
  <2>1. CASE session' = session
    BY <2>1 DEF ServerInv
  <2>2. CASE Server
    BY <2>2, StepServer DEF Server
  <2> QED BY <2>1, <2>2 DEF Next, ClientWaits, vars
<1> QED BY <1>1, <1>2, PTL DEF Spec

(* Requests are answered once, in order, with the kind and the reference   *)
(* id that belong to them, for any number of requests of any kinds; only   *)
(* an encoder in error or the end of the session owes an answer.           *)
THEOREM AnswersAlwaysKeepOrder == Spec => []AnswersKeepOrder
<1>1. ServerInv => AnswersKeepOrder
  BY DEF ServerInv, SessionOK, InOrder, IsFor, AnswersKeepOrder
<1> QED BY <1>1, ServerInvariance, PTL
----------------------------------------------------------------------------
(* The client.  What it has sent on a connection is named for the host     *)
(* that the connection was opened for, and what it would send next on the  *)
(* connection in use would be too.                                         *)
Fields ==
    {"wait", "line", "dead", "used", "lastReceived", "host", "databases",
     "proxy", "commands", "asked", "got", "opened"}

IsClient(d) == d = [f \in Fields |-> d[f]]

(* Request r may be sent on a connection that was opened with o.           *)
Named(r, o) ==
    /\ r.kind = "searchRequest" /\ o.host.databases # NoValue =>
         r.body.databases = o.host.databases
    /\ r.kind = "initRequest" /\ o.proxy => r.proxied = o.host.name

UsesItsHost(d) ==
    d.line # 0 =>
        /\ d.line \in Lines /\ d.line <= d.used
        /\ d.opened[d.line].host = d.host /\ d.host \in Hosts
        /\ d.opened[d.line].proxy => d.proxy
        /\ d.host.databases # NoValue => d.databases = d.host.databases

WiresInv ==
    /\ up = [l \in Lines |-> up[l]]
    /\ \A l \in Lines : IsSeq(up[l])

NamesInv ==
    /\ c.used \in Nat
    /\ c.opened = [l \in Lines |-> c.opened[l]]
    /\ UsesItsHost(c)
    /\ \A l \in Lines :
         /\ l > c.used => up[l] = <<>>
         /\ \A i \in DOMAIN up[l] : Named(up[l][i], c.opened[l])

ClientInv == IsClient(c) /\ WiresInv /\ (~Foreign => NamesInv)

(* A next value of c that differs from c in nothing that names a host, or  *)
(* has no connection.                                                      *)
Keeps(d) ==
    /\ ~Foreign /\ IsClient(d) /\ d.wait # "foreign"
    /\ d.opened = c.opened /\ d.used = c.used
    /\ \/ d.line = 0
       \/ /\ d.line = c.line
          /\ d.host = c.host /\ d.databases = c.databases
          /\ c.proxy => d.proxy

LEMMA KeptHost ==
    ASSUME NamesInv, NEW d, Keeps(d)
    PROVE  UsesItsHost(d)
<1> QED BY DEF NamesInv, Keeps, UsesItsHost

LEMMA SendsNothing ==
    ASSUME ClientInv, Keeps(c'), up' = up
    PROVE  ClientInv'
<1>1. WiresInv'
  BY DEF ClientInv, WiresInv
<1>2. NamesInv
  BY DEF ClientInv, Keeps
<1>3. UsesItsHost(c)'
  BY <1>2, KeptHost
<1>4. NamesInv'
  BY <1>2, <1>3 DEF NamesInv, Keeps
<1> QED BY <1>1, <1>4 DEF ClientInv, Keeps

LEMMA SendsOne ==
    ASSUME ClientInv, Keeps(c'), c.line # 0,
           NEW r, Named(r, c.opened[c.line]),
           up' = [up EXCEPT ![c.line] = Append(@, r)]
    PROVE  ClientInv'
<1>1. NamesInv /\ WiresInv
  BY DEF ClientInv, Keeps
<1>2. c.line \in Lines /\ c.line <= c.used
  BY <1>1 DEF NamesInv, UsesItsHost
<1>3. up' = [l \in Lines |-> IF l = c.line THEN Append(up[l], r) ELSE up[l]]
  BY <1>1 DEF WiresInv
<1>4. /\ up'[c.line] = Append(up[c.line], r)
      /\ \A l \in Lines \ {c.line} : up'[l] = up[l]
  BY <1>2, <1>3
<1>5. /\ IsSeq(up[c.line]) /\ IsSeq(Append(up[c.line], r))
      /\ Len(Append(up[c.line], r)) = Len(up[c.line]) + 1
      /\ \A i \in 1 .. Len(up[c.line]) : Append(up[c.line], r)[i] = up[c.line][i]
      /\ Append(up[c.line], r)[Len(up[c.line]) + 1] = r
  BY <1>1, <1>2, AppendAnything DEF WiresInv
<1>6. WiresInv'
  <2>1. up' = [l \in Lines |-> up'[l]]
    BY <1>3
  <2> QED BY <1>1, <1>4, <1>5, <2>1 DEF WiresInv
<1>7. \A i \in DOMAIN up'[c.line] : Named(up'[c.line][i], c.opened[c.line])
  <2>1. /\ Len(up[c.line]) \in Nat /\ DOMAIN up[c.line] = 1 .. Len(up[c.line])
        /\ DOMAIN up'[c.line] = 1 .. Len(up[c.line]) + 1
    BY <1>4, <1>5, IsSeqProperties
  <2>2. \A i \in DOMAIN up[c.line] : Named(up[c.line][i], c.opened[c.line])
    BY <1>1, <1>2 DEF NamesInv
  <2>3. ASSUME NEW i \in DOMAIN up'[c.line]
        PROVE  Named(up'[c.line][i], c.opened[c.line])
    <3>1. CASE i \in 1 .. Len(up[c.line])
      BY <1>4, <1>5, <2>1, <2>2, <3>1
    <3>2. CASE i = Len(up[c.line]) + 1
      BY <1>4, <1>5, <3>2
    <3> QED BY <2>1, <2>3, <3>1, <3>2
  <2> QED BY <2>3
<1>8. UsesItsHost(c)'
  BY <1>1, KeptHost
<1>9. NamesInv'
  <2>1. c'.used = c.used /\ c'.opened = c.opened
    BY DEF Keeps
  <2>2. ASSUME NEW l \in Lines
        PROVE  /\ l > c'.used => up'[l] = <<>>
               /\ \A i \in DOMAIN up'[l] : Named(up'[l][i], c'.opened[l])
    <3>1. CASE l = c.line
      BY <1>1, <1>2, <1>7, <2>1, <3>1 DEF NamesInv, Lines
    <3>2. CASE l # c.line
      BY <1>1, <1>4, <2>1, <3>2 DEF NamesInv
    <3> QED BY <3>1, <3>2
  <2> QED BY <1>1, <1>8, <2>1, <2>2 DEF NamesInv
<1> QED BY <1>6, <1>9 DEF ClientInv, Keeps
(* What the client sends is named for its host.                            *)
LEMMA RequestsAreNamed ==
    ASSUME NamesInv, c.line # 0, NEW d, NEW n, NEW number,
           d.host = c.host, d.databases = c.databases, c.proxy => d.proxy
    PROVE  /\ Named([InitRequest(d) EXCEPT !.id = n], c.opened[c.line])
           /\ Named([SearchRequest(d) EXCEPT !.id = n], c.opened[c.line])
           /\ Named([PresentRequest(number) EXCEPT !.id = n], c.opened[c.line])
<1> DEFINE o == c.opened[c.line]
<1>1. /\ o.host = c.host /\ c.host # NoValue
      /\ o.proxy => d.proxy
      /\ c.host.databases # NoValue => d.databases = c.host.databases
  BY HostsAreGiven DEF NamesInv, UsesItsHost
<1> HIDE DEF o
<1>2. Named([SearchRequest(d) EXCEPT !.id = n], o)
  <2> DEFINE q == [SearchRequest(d) EXCEPT !.id = n]
  <2>1. q = [kind |-> "searchRequest", ref |-> NoValue, proxied |-> NoValue,
             id |-> n, body |-> [databases |-> d.databases]]
    BY DEF SearchRequest, CreatePDU
  <2> HIDE DEF q
  <2>2. q.kind = "searchRequest" /\ q.body.databases = d.databases
    BY <2>1
  <2> QED BY <1>1, <2>2 DEF Named, q
<1>3. Named([PresentRequest(number) EXCEPT !.id = n], o)
  BY DEF Named, PresentRequest, CreatePDU
<1>4. Named([InitRequest(d) EXCEPT !.id = n], o)
  <2> DEFINE r == CreatePDU("initRequest", [versions |-> 0..2])
  <2>1. r.kind \in OtherInfoKinds
    BY DEF CreatePDU, OtherInfoKinds
  <2>2. CASE o.proxy
    <3> DEFINE q == [[r EXCEPT !.proxied = c.host.name] EXCEPT !.id = n]
    <3>1. d.proxy /\ d.host # NoValue /\ d.host = c.host
      BY <1>1, <2>2
    <3>2. InitRequest(d) = SetProxied(r, d.host.name)
      BY <3>1 DEF InitRequest
    <3>3. InitRequest(d) = [r EXCEPT !.proxied = c.host.name]
      BY <2>1, <3>1, <3>2 DEF SetProxied
    <3>4. q.kind = "initRequest" /\ q.proxied = c.host.name
      BY DEF CreatePDU
    <3> QED BY <1>1, <3>3, <3>4 DEF Named
  <2>3. CASE ~o.proxy
    <3>1. InitRequest(d).kind = "initRequest"
      BY <2>1 DEF InitRequest, SetProxied, CreatePDU
    <3>2. [InitRequest(d) EXCEPT !.id = n].kind = "initRequest"
      BY <3>1 DEF InitRequest, SetProxied, CreatePDU
    <3> QED BY <2>3, <3>2 DEF Named
  <2> QED BY <2>2, <2>3
<1> QED BY <1>2, <1>3, <1>4 DEF o

(* A shutdown of the client's connection, from a c that was changed to e.  *)
LEMMA ShutdownKeeps ==
    ASSUME ClientInv, ~Foreign, NEW e, Shutdown(c, e), IsClient(e),
           e.wait # "foreign", e.opened = c.opened, e.used = c.used,
           e.line = c.line
    PROVE  ClientInv'
<1>1. up' = up
  BY DEF Shutdown, wires
<1>2. CASE c.line = 0
  BY <1>1, <1>2, SendsNothing DEF Shutdown, Keeps
<1>3. CASE c.line # 0
  <2>1. c' = [e EXCEPT !.line = 0]
    BY <1>3 DEF Shutdown
  <2>2. /\ IsClient(c') /\ c'.line = 0 /\ c'.opened = c.opened
        /\ c'.used = c.used /\ c'.wait # "foreign"
    BY <2>1 DEF IsClient, Fields
  <2> QED BY <1>1, <2>2, SendsNothing DEF Keeps
<1> QED BY <1>2, <1>3

(* A request on the connection in use, from a c that was changed to d.     *)
LEMMA SendAndWaitKeeps ==
    ASSUME ClientInv, c.line # 0, NEW d, Keeps(d), d.line = c.line, NEW r,
           SendAndWait(d, r),
           \A n : Named([r EXCEPT !.id = n], c.opened[c.line])
    PROVE  ClientInv'
<1> DEFINE q == [r EXCEPT !.id = d.asked + 1]
<1>1. c' = Wait([d EXCEPT !.asked = d.asked + 1], "answer")
  BY DEF SendAndWait
<1>2. up' = [up EXCEPT ![c.line] = Append(@, q)]
  BY DEF SendAndWait
<1>3. Keeps(c')
  BY <1>1 DEF Keeps, IsClient, Fields, Wait
<1> HIDE DEF q
<1>4. Named(q, c.opened[c.line])
  BY DEF q
<1> QED BY <1>2, <1>3, <1>4, SendsOne
(* Opening a connection: nothing has been sent on it.                      *)
LEMMA StepOpen ==
    ASSUME ClientInv, NEW h \in Hosts, NEW for \in {"connect", "open"},
           Open(h, for)
    PROVE  ClientInv'
<1> DEFINE l == c.used + 1
           o == [host |-> h, proxy |-> c.proxy]
<1>1. IsClient(c) /\ WiresInv /\ NamesInv /\ l \in Lines /\ l \in Nat
  <2>1. IsClient(c) /\ WiresInv /\ NamesInv /\ c.used < MaxLines
    BY DEF ClientInv, Open, AtPrompt, Foreign
  <2> QED BY <2>1, LinesBound DEF NamesInv, Lines
<1>2. /\ IsClient(c') /\ c'.line = l /\ c'.used = l /\ c'.wait = for
      /\ c'.host = h /\ c'.proxy = c.proxy
      /\ c'.opened = [c.opened EXCEPT ![l] = o]
      /\ h.databases # NoValue => c'.databases = h.databases
  <2>1. /\ IsClient(Client(Typed, h)) /\ Client(Typed, h).host = h
        /\ Client(Typed, h).proxy = c.proxy
        /\ Client(Typed, h).opened = c.opened
        /\ h.databases # NoValue => Client(Typed, h).databases = h.databases
    BY <1>1 DEF Client, Typed, IsClient, Fields
  <2> DEFINE d == Client(Typed, h)
             e == [d EXCEPT !.line = l, !.used = l, !.opened[l] = o]
  <2>2. c' = Wait(e, for)
    BY <2>1 DEF Open
  <2> HIDE DEF d, l, o
  <2>3. /\ IsClient(e) /\ e.line = l /\ e.used = l /\ e.host = d.host
        /\ e.proxy = d.proxy /\ e.opened = [d.opened EXCEPT ![l] = o]
        /\ e.databases = d.databases
    BY <2>1 DEF IsClient, Fields, d
  <2> HIDE DEF e
  <2> QED BY <2>1, <2>2, <2>3 DEF Wait, IsClient, Fields, d
<1>3. up' = up
  BY DEF Open
<1>4. c'.opened = [k \in Lines |-> IF k = l THEN o ELSE c.opened[k]]
  BY <1>1, <1>2 DEF NamesInv
<1>5. /\ c'.opened = [k \in Lines |-> c'.opened[k]]
      /\ c'.opened[l] = o
      /\ \A k \in Lines : k # l => c'.opened[k] = c.opened[k]
  BY <1>1, <1>4
<1>6. UsesItsHost(c)'
  BY <1>1, <1>2, <1>5 DEF UsesItsHost, NamesInv
<1>7. ASSUME NEW k \in Lines
      PROVE  /\ k > c'.used => up'[k] = <<>>
             /\ \A i \in DOMAIN up'[k] : Named(up'[k][i], c'.opened[k])
  <2>1. CASE k = l
    BY <1>1, <1>2, <1>3, <2>1, EmptySeq DEF NamesInv
  <2>2. CASE k # l
    BY <1>1, <1>2, <1>3, <1>5, <2>2 DEF NamesInv, Lines
  <2> QED BY <2>1, <2>2
<1>8. WiresInv'
  BY <1>1, <1>3 DEF WiresInv
<1>9. NamesInv'
  BY <1>1, <1>2, <1>5, <1>6, <1>7 DEF NamesInv
<1> QED BY <1>2, <1>8, <1>9 DEF ClientInv

(* Commands that need a connection.                                        *)
LEMMA StepAsk ==
    ASSUME ClientInv, AtPrompt, NEW lost, NEW r, Ask(r, Typed, lost),
           c.line # 0 => \A n : Named([r EXCEPT !.id = n], c.opened[c.line])
    PROVE  ClientInv'
<1>1. ~Foreign /\ IsClient(c)
  BY DEF AtPrompt, Foreign, ClientInv
<1>2. Keeps(Typed) /\ Typed.line = c.line
  BY <1>1 DEF AtPrompt, Foreign, Keeps, Typed, IsClient, Fields
<1>3. CASE c.line # 0 /\ SendAndWait(Typed, r)
  BY <1>2, <1>3, SendAndWaitKeeps
<1>4. CASE Shutdown(c, Failed(Typed))
  <2>1. /\ IsClient(Failed(Typed)) /\ Failed(Typed).wait # "foreign"
        /\ Failed(Typed).opened = c.opened /\ Failed(Typed).used = c.used
        /\ Failed(Typed).line = c.line
    BY <1>1 DEF Failed, Typed, IsClient, Fields
  <2> QED BY <1>1, <1>4, <2>1, ShutdownKeeps
<1>5. CASE c' = Typed /\ UNCHANGED wires
  BY <1>2, <1>5, SendsNothing DEF wires
<1> QED BY <1>3, <1>4, <1>5 DEF Ask

LEMMA StepCommand ==
    ASSUME ClientInv, NEW lost, ClientCommand(lost)
    PROVE  ClientInv'
<1>1. ASSUME NEW h \in Hosts, OpenRefused(h) PROVE ClientInv'
  <2> DEFINE e == Client(Typed, h)
  <2>1. ~Foreign /\ Shutdown(c, e)
    BY <1>1 DEF OpenRefused, AtPrompt, Foreign
  <2>2. /\ IsClient(e) /\ e.wait # "foreign" /\ e.opened = c.opened
        /\ e.used = c.used /\ e.line = c.line
    BY <1>1 DEF OpenRefused, AtPrompt, ClientInv, Client, Typed, IsClient, Fields
  <2> HIDE DEF e
  <2> QED BY <2>1, <2>2, ShutdownKeeps
<1>2. ASSUME NEW h \in Hosts, Open(h, "connect") \/ Open(h, "open")
      PROVE  ClientInv'
  BY <1>2, StepOpen
<1>3. CASE Quit
  <2> DEFINE e == [c EXCEPT !.wait = "quit"]
  <2>1. ~Foreign /\ Shutdown(c, e)
    BY <1>3 DEF Quit, Foreign
  <2>2. /\ IsClient(e) /\ e.wait # "foreign" /\ e.opened = c.opened
        /\ e.used = c.used /\ e.line = c.line
    BY DEF ClientInv, IsClient, Fields
  <2> HIDE DEF e
  <2> QED BY <2>1, <2>2, ShutdownKeeps
<1>4. CASE AtPrompt
  <2>1. ~Foreign /\ IsClient(c)
    BY <1>4 DEF AtPrompt, Foreign, ClientInv
  <2>2. NamesInv
    BY <2>1 DEF ClientInv
  <2>3. Keeps(Typed) /\ Typed.line = c.line
    BY <1>4, <2>1 DEF AtPrompt, Foreign, Keeps, Typed, IsClient, Fields
  <2>4. c.line # 0 => \A n :
          /\ Named([InitRequest(c) EXCEPT !.id = n], c.opened[c.line])
          /\ Named([SearchRequest(c) EXCEPT !.id = n], c.opened[c.line])
          /\ \A number :
               Named([PresentRequest(number) EXCEPT !.id = n], c.opened[c.line])
    BY <2>2, RequestsAreNamed
  <2> DEFINE dead == Closed(Typed)
  <2>5. /\ IsClient(dead) /\ dead.wait # "foreign" /\ dead.opened = c.opened
        /\ dead.used = c.used /\ dead.line = c.line
    BY <2>1 DEF Closed, Failed, Typed, IsClient, Fields
  <2> HIDE DEF dead
  <2>6. CASE InitCommand(lost)
    <3>1. CASE c.line # 0 /\ SendAndWait(Typed, InitRequest(c))
      BY <2>3, <2>4, <3>1, SendAndWaitKeeps
    <3>2. CASE Shutdown(c, dead)
      BY <2>1, <2>5, <3>2, ShutdownKeeps
    <3> QED BY <2>6, <3>1, <3>2 DEF InitCommand, dead
  <2>7. CASE c' = Typed /\ UNCHANGED wires
    BY <2>3, <2>7, SendsNothing DEF wires
  <2>8. CASE Find(lost)
    BY <1>4, <2>4, <2>7, <2>8, StepAsk DEF Find
  <2>9. CASE Show(lost)
    BY <1>4, <2>4, <2>9, StepAsk DEF Show
  <2>10. CASE Close
    BY <2>1, <2>5, <2>10, ShutdownKeeps DEF Close, dead
  <2>11. CASE Proxy
    <3>1. Keeps([Typed EXCEPT !.proxy = TRUE])
      BY <1>4, <2>1 DEF AtPrompt, Foreign, Keeps, Typed, IsClient, Fields
    <3> QED BY <2>11, <3>1, SendsNothing DEF Proxy, wires
  <2> QED BY <1>1, <1>2, <1>3, <2>6, <2>8, <2>9, <2>10, <2>11 DEF ClientCommand
<1> QED BY <1>1, <1>2, <1>3, <1>4
        DEF ClientCommand, InitCommand, Find, Show, Close, Proxy
LEMMA StepEvent ==
    ASSUME ClientInv, NEW lost, ClientEvent(lost)
    PROVE  ClientInv'
<1>1. ~Foreign /\ IsClient(c)
  BY DEF ClientInv, Foreign, ClientEvent, ConnectNotify, ConnectFails,
         ConnectTimeout, RecvPDU, ConnectionClosed, Waiting
<1>2. NamesInv
  BY <1>1 DEF ClientInv
<1>3. ASSUME NEW e, e = Failed(c) \/ e = Failed([c EXCEPT !.dead = TRUE]),
             Shutdown(c, e)
      PROVE  ClientInv'
  <2>1. /\ IsClient(e) /\ e.wait # "foreign" /\ e.opened = c.opened
        /\ e.used = c.used /\ e.line = c.line
    BY <1>1, <1>3 DEF Failed, IsClient, Fields
  <2> QED BY <1>1, <1>3, <2>1, ShutdownKeeps
<1>4. CASE c.line # 0 /\ AfterConnect([c EXCEPT !.lastReceived = "connect"])
  <2> DEFINE d == [c EXCEPT !.lastReceived = "connect"]
             e == [d EXCEPT !.wait = "prompt"]
  <2>1. /\ IsClient(d) /\ d.opened = c.opened /\ d.used = c.used
        /\ d.line = c.line /\ d.host = c.host /\ d.databases = c.databases
        /\ d.proxy = c.proxy
    BY <1>1 DEF IsClient, Fields
  <2> HIDE DEF d
  <2>2. Keeps(e) /\ e.line = c.line
    BY <1>1, <2>1 DEF Keeps, IsClient, Fields
  <2> HIDE DEF e
  <2>3. CASE SendAndWait(e, InitRequest(d))
    <3>1. \A n : Named([InitRequest(d) EXCEPT !.id = n], c.opened[c.line])
      BY <1>2, <1>4, <2>1, RequestsAreNamed
    <3> QED BY <1>4, <2>2, <2>3, <3>1, SendAndWaitKeeps
  <2>4. CASE c' = e /\ up' = up
    BY <2>2, <2>4, SendsNothing
  <2> QED BY <1>4, <2>3, <2>4 DEF AfterConnect, d, e
<1>5. CASE RecvPDU
  <2> DEFINE a == Head(down[c.line])
             d == [c EXCEPT !.wait = "prompt", !.lastReceived = a.kind,
                            !.got = a.id]
  <2>1. Keeps(d)
    <3> HIDE DEF a
    <3> QED BY <1>1 DEF Keeps, IsClient, Fields
  <2> QED BY <1>5, <2>1, SendsNothing DEF RecvPDU
<1> QED BY <1>3, <1>4, <1>5 DEF ClientEvent, ConnectNotify, ConnectFails,
        ConnectTimeout, ConnectionClosed

(* The server takes requests from the front.                               *)
LEMMA StepServerWires ==
    ASSUME ClientInv, Server
    PROVE  ClientInv'
<1>1. c' = c
  BY DEF Server
<1>2. CASE up' = up
  BY <1>1, <1>2 DEF ClientInv, WiresInv, Foreign, NamesInv, UsesItsHost
<1>3. ASSUME NEW l \in Lines, up[l] # <<>>, up' = [up EXCEPT ![l] = Tail(@)]
      PROVE  ClientInv'
  <2>1. /\ up' = [k \in Lines |-> IF k = l THEN Tail(up[k]) ELSE up[k]]
        /\ IsSeq(up[l])
    BY <1>3 DEF ClientInv, WiresInv
  <2>2. /\ up' = [k \in Lines |-> up'[k]]
        /\ up'[l] = Tail(up[l])
        /\ \A k \in Lines : k # l => up'[k] = up[k]
    BY <2>1
  <2>3. /\ Tail(up[l]) \in Seq(Elements(up[l]))
        /\ Len(Tail(up[l])) = Len(up[l]) - 1
        /\ \A i \in 1 .. Len(Tail(up[l])) : Tail(up[l])[i] = up[l][i + 1]
    <3>1. up[l] \in Seq(Elements(up[l])) /\ up[l] # <<>>
      BY <1>3, <2>1 DEF IsSeq
    <3> QED BY <3>1, HeadTailProperties
  <2>4. IsSeq(Tail(up[l]))
    BY <2>3, SeqOfAnything
  <2>5. WiresInv'
    BY <2>2, <2>4 DEF ClientInv, WiresInv
  <2>6. ASSUME NamesInv PROVE NamesInv'
    <3>1. /\ DOMAIN Tail(up[l]) = 1 .. Len(Tail(up[l]))
          /\ DOMAIN up[l] = 1 .. Len(up[l])
          /\ Len(up[l]) \in Nat /\ Len(Tail(up[l])) \in Nat
      BY <2>1, <2>4, IsSeqProperties
    <3>2. \A i \in DOMAIN up'[l] : Named(up'[l][i], c.opened[l])
      <4>1. \A i \in DOMAIN up[l] : Named(up[l][i], c.opened[l])
        BY <2>6 DEF NamesInv
      <4>2. \A i \in DOMAIN up'[l] :
              up'[l][i] = up[l][i + 1] /\ i + 1 \in DOMAIN up[l]
        BY <2>2, <2>3, <3>1
      <4> QED BY <4>1, <4>2
    <3>3. ~(l > c.used)
      BY <1>3, <2>6 DEF NamesInv
    <3>4. ASSUME NEW k \in Lines
          PROVE  /\ k > c.used => up'[k] = <<>>
                 /\ \A i \in DOMAIN up'[k] : Named(up'[k][i], c.opened[k])
      <4>1. CASE k = l
        BY <3>2, <3>3, <4>1
      <4>2. CASE k # l
        BY <2>2, <2>6, <4>2 DEF NamesInv
      <4> QED BY <4>1, <4>2
    <3> QED BY <1>1, <2>6, <3>4 DEF NamesInv, UsesItsHost
  <2> QED BY <1>1, <2>5, <2>6 DEF ClientInv, Foreign
<1> QED BY <1>2, <1>3 DEF Server, ServerStep, Accept, Refuse, Answer,
        PeerCloses, IdleTimeout, wires

(* A foreign client sends what it likes.                                   *)
LEMMA StepForeign ==
    ASSUME ClientInv, ForeignConnect \/ ForeignSend \/ ForeignClose
    PROVE  ClientInv'
<1>1. CASE ForeignConnect
  <2>1. up' = up
    BY <1>1 DEF ForeignConnect
  <2>2. c' = [c EXCEPT !.wait = "foreign", !.line = 1]
    BY <1>1 DEF ForeignConnect
  <2>3. IsClient(c') /\ c'.wait = "foreign"
    BY <2>2 DEF ClientInv, IsClient, Fields
  <2> QED BY <2>1, <2>3 DEF ClientInv, WiresInv, Foreign
<1>2. CASE ForeignSend
  <2>1. PICK q : up' = [up EXCEPT ![1] = Append(@, q)]
    BY <1>2 DEF ForeignSend
  <2>2. IsClient(c') /\ c'.wait = "foreign"
    BY <1>2 DEF ForeignSend, Foreign, ClientInv, IsClient, Fields
  <2>3. up' = [l \in Lines |-> IF l = 1 THEN Append(up[l], q) ELSE up[l]]
    BY <2>1 DEF ClientInv, WiresInv
  <2>4. /\ up' = [l \in Lines |-> up'[l]]
        /\ \A l \in Lines : up'[l] = up[l] \/ up'[l] = Append(up[l], q)
    BY <2>3
  <2>5. \A l \in Lines : IsSeq(up[l]) /\ IsSeq(Append(up[l], q))
    BY AppendAnything DEF ClientInv, WiresInv
  <2>6. WiresInv'
    BY <2>4, <2>5 DEF WiresInv
  <2> QED BY <2>2, <2>6 DEF ClientInv, Foreign
<1>3. CASE ForeignClose
  BY <1>3 DEF ForeignClose, ClientInv, WiresInv, Foreign
<1> QED BY <1>1, <1>2, <1>3

LEMMA ClientInvariance == Spec => []ClientInv
<1>1. Init => ClientInv
  <2> SUFFICES ASSUME Init PROVE ClientInv
    OBVIOUS
  <2>1. IsClient(c) /\ c.line = 0 /\ c.used = 0
        /\ c.opened = [l \in Lines |-> NoValue]
    BY DEF Init, InitClient, IsClient, Fields
  <2>2. up = [l \in Lines |-> <<>>] /\ IsSeq(<<>>) /\ DOMAIN <<>> = {}
    <3>1. IsSeq(<<>>) /\ Len(<<>>) = 0
      BY SeqOfAnything, EmptySeq
    <3>2. DOMAIN <<>> = 1 .. 0
      BY <3>1, IsSeqProperties
    <3> QED BY <3>1, <3>2 DEF Init, InitWires
  <2>3. WiresInv /\ UsesItsHost(c)
    BY <2>1, <2>2 DEF WiresInv, UsesItsHost
  <2> QED BY <2>1, <2>2, <2>3 DEF ClientInv, NamesInv
<1>2. ClientInv /\ [Next]_vars => ClientInv'
  <2> SUFFICES ASSUME ClientInv, [Next]_vars PROVE ClientInv'
    OBVIOUS
  <2>1. CASE ClientWaits \/ ClientCommand(Lost)
    BY <2>1, StepEvent, StepCommand DEF ClientWaits
  <2>2. CASE UNCHANGED vars
    BY <2>2 DEF vars, wires, ClientInv, WiresInv, Foreign, NamesInv, UsesItsHost
  <2> QED BY <2>1, <2>2, StepServerWires, StepForeign DEF Next
<1> QED BY <1>1, <1>2, PTL DEF Spec

(* Requests name the databases and, through a proxy, the host of the       *)
(* connection that they are sent on, for any hosts and over any sequence   *)
(* of connections and commands.                                            *)
THEOREM RequestsAlwaysNameTheirHost == Spec => []RequestsNameTheirHost
<1>1. ClientInv => RequestsNameTheirHost
  BY DEF ClientInv, NamesInv, Named, RequestsNameTheirHost
<1> QED BY <1>1, ClientInvariance, PTL

----------------------------------------------------------------------------
(* One request at a time.  While the client does not wait for an answer    *)
(* nothing is under way on its connection; while it does, the request that *)
(* it sent last is, or the response to it, or neither.                     *)
Outstanding(l, n) ==
    \/ up[l] = <<>> /\ down[l] = <<>>
    \/ up[l] = <<>> /\ \E a : a.id = n /\ down[l] = <<a>>
    \/ down[l] = <<>> /\ \E r : r.id = n /\ up[l] = <<r>>

Flow ==
    /\ c.wait \in {"prompt", "connect", "open", "answer"}
    /\ c.wait \in {"prompt", "answer"} => peer[c.line] # "dialling"
    /\ c.wait = "answer" => Outstanding(c.line, c.asked)
    /\ c.wait # "answer" => up[c.line] = <<>> /\ down[c.line] = <<>>

Fits(d) ==
    d.wait = "prompt" /\ d.lastReceived \notin {"none", "connect", "fail"}
    => d.got = d.asked

FlowInv ==
    /\ peer = [l \in Lines |-> peer[l]]
    /\ down = [l \in Lines |-> down[l]]
    /\ \A l \in Lines : l > c.used => down[l] = <<>>
    /\ c.line # 0 => Flow
    /\ c.line = 0 => c.wait \in {"prompt", "quit"}
    /\ Fits(c)

OneInv == ClientInv /\ (~Foreign => FlowInv)

(* A queue of one.                                                         *)
LEMMA QueueOfOne ==
    ASSUME NEW r
    PROVE  /\ Append(<<>>, r) = <<r>> /\ <<r>> # <<>>
           /\ Head(<<r>>) = r /\ Tail(<<r>>) = <<>>
<1>1. <<r>> \in Seq({r}) /\ <<>> \in Seq({r}) /\ r \in {r}
  OBVIOUS
<1> QED BY <1>1

(* The client has no connection any more.                                  *)
LEMMA ShutdownFits ==
    ASSUME OneInv, ~Foreign, NEW e, Shutdown(c, e), IsClient(e),
           e.used = c.used, e.line = c.line, e.wait \in {"prompt", "quit"},
           Fits(e)
    PROVE  FlowInv'
<1>1. FlowInv /\ ClientInv
  BY DEF OneInv
<1>2. CASE c.line = 0
  BY <1>1, <1>2 DEF Shutdown, wires, FlowInv
<1>3. CASE c.line # 0
  <2>1. c' = [e EXCEPT !.line = 0] /\ Hangup(c.line)
    BY <1>3 DEF Shutdown
  <2>2. /\ c'.line = 0 /\ c'.used = c.used /\ Fits(c')
        /\ c'.wait \in {"prompt", "quit"}
    BY <2>1 DEF IsClient, Fields, Fits
  <2>3. /\ peer' = [l \in Lines |-> IF l = c.line THEN "closed" ELSE peer[l]]
        /\ down' = [l \in Lines |-> IF l = c.line THEN <<>> ELSE down[l]]
    BY <1>1, <2>1 DEF Hangup, FlowInv
  <2>4. \A l \in Lines : l > c'.used => down'[l] = <<>>
    BY <1>1, <2>2, <2>3 DEF FlowInv
  <2>5. /\ peer' = [l \in Lines |-> peer'[l]]
        /\ down' = [l \in Lines |-> down'[l]]
    BY <2>3
  <2> QED BY <2>2, <2>4, <2>5 DEF FlowInv
<1> QED BY <1>2, <1>3

(* A request on a connection on which nothing is under way.                *)
LEMMA SendFits ==
    ASSUME OneInv, ~Foreign, c.line # 0, c.wait # "answer",
           NEW d, IsClient(d), d.line = c.line, d.used = c.used,
           NEW r, SendAndWait(d, r), \A n : [r EXCEPT !.id = n].id = n,
           down' = down, peer' = [l \in Lines |-> peer'[l]],
           peer'[c.line] # "dialling"
    PROVE  FlowInv'
<1> DEFINE n == d.asked + 1
           q == [r EXCEPT !.id = n]
<1>1. /\ FlowInv /\ WiresInv /\ c.line \in Lines
      /\ up[c.line] = <<>> /\ down[c.line] = <<>>
  BY DEF OneInv, ClientInv, FlowInv, Flow, NamesInv, UsesItsHost
<1>2. c' = Wait([d EXCEPT !.asked = n], "answer")
      /\ up' = [up EXCEPT ![c.line] = Append(@, q)]
  BY DEF SendAndWait
<1>3. q.id = n
  OBVIOUS
<1> HIDE DEF q, n
<1>4. /\ c'.wait = "answer" /\ c'.line = c.line /\ c'.used = c.used
      /\ c'.asked = n
  BY <1>2 DEF Wait, IsClient, Fields
<1>5. up'[c.line] = <<q>>
  <2>1. up'[c.line] = Append(up[c.line], q)
    BY <1>1, <1>2 DEF WiresInv
  <2> QED BY <1>1, <2>1, QueueOfOne
<1>6. Outstanding(c.line, c.asked)'
  BY <1>1, <1>3, <1>4, <1>5 DEF Outstanding
<1>7. Flow'
  BY <1>4, <1>6 DEF Flow
<1>8. Fits(c)'
  BY <1>4 DEF Fits
<1>9. \A l \in Lines : l > c'.used => down'[l] = <<>>
  BY <1>1, <1>4 DEF FlowInv
<1> QED BY <1>1, <1>4, <1>7, <1>8, <1>9 DEF FlowInv

(* Nothing is sent or received, at the prompt.                             *)
LEMMA StayFits ==
    ASSUME OneInv, c.wait = "prompt", UNCHANGED wires,
           c'.wait = "prompt", c'.line = c.line, c'.used = c.used, Fits(c')
    PROVE  FlowInv'
BY DEF OneInv, Foreign, wires, FlowInv, Flow

(* The requests of the client have a place for their number.               *)
LEMMA RequestsHaveNumbers ==
    ASSUME NEW d, NEW n
    PROVE  /\ [InitRequest(d) EXCEPT !.id = n].id = n
           /\ [SearchRequest(d) EXCEPT !.id = n].id = n
           /\ \A number : [PresentRequest(number) EXCEPT !.id = n].id = n
BY DEF InitRequest, SearchRequest, PresentRequest, SetProxied, CreatePDU

LEMMA OpenFits ==
    ASSUME OneInv, NEW h \in Hosts, NEW for \in {"connect", "open"},
           Open(h, for)
    PROVE  FlowInv'
<1> DEFINE l == c.used + 1
<1>1. /\ IsClient(c) /\ WiresInv /\ NamesInv /\ FlowInv
      /\ l \in Lines /\ l \in Nat /\ l > c.used
  <2>1. IsClient(c) /\ WiresInv /\ NamesInv /\ FlowInv /\ c.used < MaxLines
    BY DEF OneInv, ClientInv, Open, AtPrompt, Foreign
  <2> QED BY <2>1, LinesBound DEF NamesInv, Lines
<1>2. c'.line = l /\ c'.used = l /\ c'.wait = for
  <2> DEFINE d == Client(Typed, h)
             o == [host |-> h, proxy |-> d.proxy]
             e == [d EXCEPT !.line = l, !.used = l, !.opened[l] = o]
  <2>1. IsClient(d)
    BY <1>1 DEF Client, Typed, IsClient, Fields
  <2>2. c' = Wait(e, for)
    BY DEF Open
  <2> HIDE DEF d, l, o
  <2>3. IsClient(e) /\ e.line = l /\ e.used = l
    BY <2>1 DEF IsClient, Fields
  <2> HIDE DEF e
  <2> QED BY <2>2, <2>3 DEF Wait, IsClient, Fields
<1>3. /\ up' = up
      /\ peer' = [k \in Lines |-> IF k = l THEN "dialling"
                                  ELSE IF k = c.line THEN "closed" ELSE peer[k]]
      /\ down' = [k \in Lines |-> IF k = c.line THEN <<>> ELSE down[k]]
  BY DEF Open
<1>4. up[l] = <<>> /\ \A k \in Lines : k > c.used => down'[k] = <<>>
  BY <1>1, <1>3 DEF NamesInv, FlowInv
<1>5. \A k \in Lines : k > c'.used => down'[k] = <<>>
  BY <1>1, <1>2, <1>4 DEF Lines, NamesInv
<1>6. up'[l] = <<>> /\ down'[l] = <<>>
  BY <1>1, <1>3, <1>4
<1> HIDE DEF l
<1>7. Flow' /\ Fits(c)'
  BY <1>2, <1>6 DEF Flow, Fits
<1>8. /\ peer' = [k \in Lines |-> peer'[k]]
      /\ down' = [k \in Lines |-> down'[k]]
  BY <1>3
<1>9. c'.line # 0
  BY <1>1, <1>2 DEF Lines
<1> QED BY <1>5, <1>7, <1>8, <1>9 DEF FlowInv

LEMMA CommandFits ==
    ASSUME OneInv, NEW lost, ClientCommand(lost)
    PROVE  FlowInv'
<1>1. ~Foreign /\ IsClient(c) /\ c.wait = "prompt"
  BY DEF OneInv, ClientInv, Foreign, ClientCommand, OpenRefused, Open, AtPrompt,
         InitCommand, Find, Show, Close, Proxy, Quit
<1>2. FlowInv
  BY <1>1 DEF OneInv
<1>3. ASSUME NEW h \in Hosts, OpenRefused(h) PROVE FlowInv'
  <2> DEFINE e == Client(Typed, h)
  <2>1. Shutdown(c, e)
    BY <1>3 DEF OpenRefused
  <2>2. /\ IsClient(e) /\ e.used = c.used /\ e.line = c.line /\ Fits(e)
        /\ e.wait = "prompt"
    BY <1>1, <1>2 DEF Client, Typed, IsClient, Fields, FlowInv, Fits
  <2> HIDE DEF e
  <2> QED BY <1>1, <2>1, <2>2, ShutdownFits
<1>4. ASSUME NEW h \in Hosts, Open(h, "connect") \/ Open(h, "open")
      PROVE  FlowInv'
  BY <1>4, OpenFits
<1>5. CASE Quit
  <2> DEFINE e == [c EXCEPT !.wait = "quit"]
  <2>1. Shutdown(c, e)
    BY <1>5 DEF Quit
  <2>2. /\ IsClient(e) /\ e.used = c.used /\ e.line = c.line /\ Fits(e)
        /\ e.wait = "quit"
    BY <1>1 DEF IsClient, Fields, Fits
  <2> HIDE DEF e
  <2> QED BY <1>1, <2>1, <2>2, ShutdownFits
<1> DEFINE dead == Closed(Typed)
           fail == Failed(Typed)
<1>6. /\ dead.wait \in {"prompt", "quit"} /\ fail.wait = "prompt"
      /\ IsClient(dead) /\ dead.used = c.used /\ dead.line = c.line /\ Fits(dead)
      /\ IsClient(fail) /\ fail.used = c.used /\ fail.line = c.line /\ Fits(fail)
  BY <1>1 DEF Closed, Failed, Typed, IsClient, Fields, Fits
<1>7. /\ IsClient(Typed) /\ Typed.wait = "prompt" /\ Typed.line = c.line
      /\ Typed.used = c.used /\ Fits(Typed)
  BY <1>1, <1>2 DEF Typed, IsClient, Fields, Fits, FlowInv
<1> HIDE DEF dead, fail
<1>8. CASE c' = Typed /\ UNCHANGED wires
  BY <1>1, <1>7, <1>8, StayFits
<1>9. ASSUME c.line # 0, UNCHANGED <<peer, down>>, NEW r, SendAndWait(Typed, r),
             \A n : [r EXCEPT !.id = n].id = n
      PROVE  FlowInv'
  <2>1. peer[c.line] # "dialling"
    BY <1>1, <1>2, <1>9 DEF FlowInv, Flow
  <2>2. peer' = [l \in Lines |-> peer'[l]]
    BY <1>2, <1>9 DEF FlowInv
  <2> QED BY <1>1, <1>7, <1>9, <2>1, <2>2, SendFits
<1>10. CASE InitCommand(lost)
  <2>1. CASE c.line # 0 /\ SendAndWait(Typed, InitRequest(c))
             /\ UNCHANGED <<peer, down>>
    BY <1>9, <2>1, RequestsHaveNumbers
  <2>2. CASE Shutdown(c, dead)
    BY <1>1, <1>6, <2>2, ShutdownFits
  <2> QED BY <1>10, <2>1, <2>2 DEF InitCommand, dead
<1>11. ASSUME NEW r, Ask(r, Typed, lost), \A n : [r EXCEPT !.id = n].id = n
       PROVE  FlowInv'
  <2>1. CASE Shutdown(c, fail)
    BY <1>1, <1>6, <2>1, ShutdownFits
  <2> QED BY <1>8, <1>9, <1>11, <2>1 DEF Ask, fail
<1>12. CASE Find(lost)
  BY <1>8, <1>11, <1>12, RequestsHaveNumbers DEF Find
<1>13. CASE Show(lost)
  BY <1>11, <1>13, RequestsHaveNumbers DEF Show
<1>14. CASE Close
  BY <1>1, <1>6, <1>14, ShutdownFits DEF Close, dead
<1>15. CASE Proxy
  <2>1. c' = [Typed EXCEPT !.proxy = TRUE] /\ UNCHANGED wires
    BY <1>15 DEF Proxy
  <2>2. c'.wait = "prompt" /\ c'.line = c.line /\ c'.used = c.used /\ Fits(c')
    BY <1>7, <2>1 DEF IsClient, Fields, Fits
  <2> QED BY <1>1, <2>1, <2>2, StayFits
<1> QED BY <1>3, <1>4, <1>5, <1>10, <1>12, <1>13, <1>14, <1>15 DEF ClientCommand

LEMMA EventFits ==
    ASSUME OneInv, NEW lost, ClientEvent(lost)
    PROVE  FlowInv'
<1>1. ~Foreign /\ IsClient(c)
  BY DEF OneInv, ClientInv, Foreign, ClientEvent, ConnectNotify, ConnectFails,
         ConnectTimeout, RecvPDU, ConnectionClosed, Waiting
<1>2. FlowInv /\ NamesInv /\ WiresInv
  BY <1>1 DEF OneInv, ClientInv
<1>3. ASSUME NEW e, e = Failed(c) \/ e = Failed([c EXCEPT !.dead = TRUE]),
             Shutdown(c, e)
      PROVE  FlowInv'
  <2>1. /\ IsClient(e) /\ e.used = c.used /\ e.line = c.line /\ Fits(e)
        /\ e.wait = "prompt"
    BY <1>1, <1>3 DEF Failed, IsClient, Fields, Fits
  <2> QED BY <1>1, <1>3, <2>1, ShutdownFits
<1>4. ASSUME Waiting, c.line # 0, peer[c.line] = "dialling",
             AfterConnect([c EXCEPT !.lastReceived = "connect"]),
             NEW p \in {"open", "broken"}, peer' = [peer EXCEPT ![c.line] = p],
             down' = down
      PROVE  FlowInv'
  <2> DEFINE d == [c EXCEPT !.lastReceived = "connect"]
             e == [d EXCEPT !.wait = "prompt"]
  <2>1. /\ c.line \in Lines /\ c.wait \in {"connect", "open"}
        /\ up[c.line] = <<>> /\ down[c.line] = <<>>
    BY <1>2, <1>4 DEF FlowInv, Flow, NamesInv, UsesItsHost
  <2>2. /\ peer' = [l \in Lines |-> peer'[l]] /\ peer'[c.line] # "dialling"
    BY <1>2, <1>4, <2>1 DEF FlowInv
  <2>3. /\ IsClient(d) /\ d.line = c.line /\ d.used = c.used
        /\ IsClient(e) /\ e.line = c.line /\ e.used = c.used
        /\ e.wait = "prompt" /\ e.lastReceived = "connect"
    BY <1>1 DEF IsClient, Fields
  <2>4. \/ SendAndWait(e, InitRequest(d))
        \/ c' = e /\ UNCHANGED up
    BY <1>4 DEF AfterConnect
  <2> HIDE DEF d, e
  <2>5. CASE SendAndWait(e, InitRequest(d))
    <3>1. \A n : [InitRequest(d) EXCEPT !.id = n].id = n
      BY RequestsHaveNumbers
    <3>2. c.wait # "answer"
      BY <2>1
    <3> QED
      BY <1>1, <1>4, <3>1, <3>2, <2>1, <2>2, <2>3, <2>5, SendFits
  <2>6. CASE c' = e /\ UNCHANGED up
    <3>1. Flow'
      BY <1>4, <2>1, <2>2, <2>3, <2>6 DEF Flow
    <3> QED BY <1>2, <1>4, <2>2, <2>3, <2>6, <3>1 DEF FlowInv, Fits
  <2> QED BY <2>4, <2>5, <2>6
<1>5. CASE RecvPDU
  <2> DEFINE a == Head(down[c.line])
  <2>1. /\ c.wait = "answer" /\ down[c.line] # <<>>
        /\ c' = [c EXCEPT !.wait = "prompt", !.lastReceived = a.kind,
                          !.got = a.id]
        /\ down' = [down EXCEPT ![c.line] = Tail(@)]
        /\ UNCHANGED <<peer, up>>
    BY <1>5 DEF RecvPDU
  <2>2. /\ c'.wait = "prompt" /\ c'.got = a.id /\ c'.asked = c.asked
        /\ c'.line = c.line /\ c'.used = c.used
    <3> HIDE DEF a
    <3> QED BY <1>1, <2>1 DEF IsClient, Fields
  <2>3. down' = [l \in Lines |-> IF l = c.line THEN Tail(down[l]) ELSE down[l]]
    BY <1>2, <2>1 DEF FlowInv
  <2>4. down' = [l \in Lines |-> down'[l]]
    BY <2>3
  <2>5. c.line # 0
    BY <1>2, <2>1 DEF FlowInv
  <2>6. c.line \in Lines /\ c.line <= c.used
    BY <1>2, <2>5 DEF NamesInv, UsesItsHost
  <2>7. /\ up[c.line] = <<>>
        /\ \E x : x.id = c.asked /\ down[c.line] = <<x>>
    BY <1>2, <2>1, <2>5 DEF FlowInv, Flow, Outstanding
  <2>8. PICK x : x.id = c.asked /\ down[c.line] = <<x>>
    BY <2>7
  <2>9. a = x /\ Tail(down[c.line]) = <<>>
    BY <2>8, QueueOfOne
  <2>10. down'[c.line] = <<>>
    BY <2>3, <2>6, <2>9
  <2>11. Flow'
    BY <1>2, <2>1, <2>2, <2>5, <2>7, <2>10 DEF FlowInv, Flow
  <2>12. Fits(c)'
    BY <2>2, <2>8, <2>9 DEF Fits
  <2>13. \A l \in Lines : l > c'.used => down'[l] = <<>>
    BY <1>2, <2>2, <2>3, <2>9 DEF FlowInv
  <2> QED BY <1>2, <2>1, <2>4, <2>11, <2>12, <2>13 DEF FlowInv
<1> QED BY <1>3, <1>4, <1>5
        DEF ClientEvent, ConnectNotify, ConnectFails, ConnectTimeout,
            ConnectionClosed

(* The server answers the request that it took, on its connection.         *)
LEMMA ServerFits ==
    ASSUME OneInv, ~Foreign, Server
    PROVE  FlowInv'
<1>1. FlowInv /\ NamesInv /\ WiresInv /\ c' = c
  BY DEF OneInv, ClientInv, Server
<1>2. CASE UNCHANGED wires
  BY <1>1, <1>2 DEF wires, FlowInv, Flow, Outstanding
<1>3. ASSUME NEW l \in Lines, up[l] # <<>>, up' = [up EXCEPT ![l] = Tail(@)],
             peer' = peer,
             \/ down' = down
             \/ \E a : a.id = Head(up[l]).id
                       /\ down' = [down EXCEPT ![l] = Append(@, a)]
      PROVE  FlowInv'
  <2>1. /\ up'[l] = Tail(up[l])
        /\ \A k \in Lines : k # l => up'[k] = up[k]
    BY <1>1, <1>3 DEF WiresInv
  <2>2. /\ down' = [k \in Lines |-> down'[k]]
        /\ \A k \in Lines : k # l => down'[k] = down[k]
        /\ \/ down'[l] = down[l]
           \/ \E a : a.id = Head(up[l]).id /\ down'[l] = Append(down[l], a)
    <3>1. CASE down' = down
      BY <1>1, <3>1 DEF FlowInv
    <3>2. ASSUME NEW a, a.id = Head(up[l]).id,
                 down' = [down EXCEPT ![l] = Append(@, a)]
          PROVE  /\ down' = [k \in Lines |-> down'[k]]
                 /\ \A k \in Lines : k # l => down'[k] = down[k]
                 /\ \E b : b.id = Head(up[l]).id /\ down'[l] = Append(down[l], b)
      <4>1. down' = [k \in Lines |->
                        IF k = l THEN Append(down[k], a) ELSE down[k]]
        BY <1>1, <3>2 DEF FlowInv
      <4> QED BY <3>2, <4>1
    <3> QED BY <1>3, <3>1, <3>2
  <2>3. l <= c.used
    BY <1>1, <1>3 DEF NamesInv, Lines
  <2>4. \A k \in Lines : k > c.used => down'[k] = <<>>
    BY <1>1, <2>2, <2>3 DEF FlowInv, NamesInv, Lines
  <2>5. ASSUME c.line = l PROVE Flow'
    <3>1. l # 0
      BY LinesBound DEF Lines
    <3>2. c.wait = "answer" /\ down[l] = <<>>
          /\ \E r : r.id = c.asked /\ up[l] = <<r>>
      BY <1>1, <1>3, <2>5, <3>1 DEF FlowInv, Flow, Outstanding
    <3>3. PICK r : r.id = c.asked /\ up[l] = <<r>>
      BY <3>2
    <3>4. Head(up[l]) = r /\ up'[l] = <<>>
      BY <2>1, <3>3, QueueOfOne
    <3>5. Outstanding(l, c.asked)'
      <4>1. CASE down'[l] = down[l]
        BY <1>1, <3>2, <3>4, <4>1 DEF Outstanding
      <4>2. ASSUME NEW a, a.id = Head(up[l]).id, down'[l] = Append(down[l], a)
            PROVE  Outstanding(l, c.asked)'
        <5>1. down'[l] = <<a>> /\ a.id = c.asked
          BY <3>2, <3>3, <3>4, <4>2, QueueOfOne
        <5> QED BY <1>1, <3>4, <5>1 DEF Outstanding
      <4> QED BY <2>2, <4>1, <4>2
    <3> QED BY <1>1, <1>3, <2>5, <3>1, <3>2, <3>5 DEF FlowInv, Flow
  <2>6. ASSUME c.line # l, c.line # 0 PROVE Flow'
    <3>1. c.line \in Lines
      BY <1>1, <2>6 DEF NamesInv, UsesItsHost
    <3>2. up'[c.line] = up[c.line] /\ down'[c.line] = down[c.line]
      BY <2>1, <2>2, <2>6, <3>1
    <3> QED BY <1>1, <1>3, <2>6, <3>2 DEF FlowInv, Flow, Outstanding
  <2> QED BY <1>1, <1>3, <2>2, <2>4, <2>5, <2>6 DEF FlowInv
<1>4. ASSUME NEW l \in Lines, Refuse(l) PROVE FlowInv'
  BY <1>3, <1>4 DEF Refuse
<1>5. ASSUME NEW l \in Lines, Answer(l) PROVE FlowInv'
  <2> DEFINE r == Head(up[l])
  <2>1. r.kind \in {"initRequest", "searchRequest", "presentRequest",
                    "extendedServicesRequest"}
    BY <1>5, KindsAnswered DEF Answer
  <2>2. \A body : Response(r, body).id = r.id
    BY <2>1, ResponseIsFor DEF IsFor
  <2>3. \/ down' = down
        \/ \E body : down' = [down EXCEPT ![l] = Append(@, Response(r, body))]
    BY <1>5 DEF Answer
  <2>4. \/ down' = down
        \/ \E a : a.id = r.id /\ down' = [down EXCEPT ![l] = Append(@, a)]
    BY <2>2, <2>3
  <2> QED BY <1>3, <1>5, <2>4 DEF Answer
<1> QED BY <1>2, <1>4, <1>5 DEF Server, ServerStep, Accept, PeerCloses, IdleTimeout

LEMMA OneInvariance == Spec => []OneInv
<1>1. Init => FlowInv
  BY DEF Init, InitWires, InitClient, FlowInv, Fits
<1>2. OneInv /\ ClientInv' /\ [Next]_vars => OneInv'
  <2> SUFFICES ASSUME OneInv, ClientInv', [Next]_vars, ~Foreign'
               PROVE  FlowInv'
    BY DEF OneInv
  <2>1. CASE ClientWaits \/ ClientCommand(Lost)
    BY <2>1, EventFits, CommandFits DEF ClientWaits
  <2>2. CASE Server
    <3>1. ~Foreign
      BY <2>2 DEF Server, Foreign
    <3> QED BY <2>2, <3>1, ServerFits
  <2>3. CASE ForeignConnect \/ ForeignSend \/ ForeignClose
    <3>1. IsClient(c)
      BY DEF OneInv, ClientInv
    <3>2. c'.wait = "foreign"
      BY <2>3, <3>1 DEF ForeignConnect, ForeignSend, ForeignClose, Foreign,
                        IsClient, Fields
    <3> QED BY <3>2 DEF Foreign
  <2>4. CASE UNCHANGED vars
    BY <2>4 DEF vars, wires, OneInv, Foreign, FlowInv, Flow, Outstanding
  <2> QED BY <2>1, <2>2, <2>3, <2>4 DEF Next
<1> QED BY <1>1, <1>2, ClientInvariance, PTL DEF Spec, OneInv

(* What ends a wait for an answer is the answer to the last request, over  *)
(* any sequence of commands, lost connections and reconnects: wait() looks *)
(* at nothing but m_lastReceived.                                          *)
THEOREM AnswersAlwaysFit == Spec => []AnswerFits
<1>1. OneInv => AnswerFits
  BY DEF OneInv, Foreign, FlowInv, Fits, AnswerFits
<1> QED BY <1>1, OneInvariance, PTL

----------------------------------------------------------------------------
(* One connection at a time.  The ends that the client holds are those of  *)
(* the connection in use, which is the last that it made; a session is on  *)
(* a connection that was made.                                             *)
Held == {"dialling", "open", "broken"}

LineInv(l) ==
    /\ peer[l] \in Held \cup {"unused", "closed"}
    /\ peer[l] \in Held => l = c.line
    /\ session[l].object \in {"none", "lives", "gone"}
    /\ session[l].object # "none" => peer[l] \in {"open", "closed"}
    /\ ~Foreign /\ l > c.used => peer[l] = "unused"

UseInv ==
    /\ c.used \in 0 .. MaxLines /\ c.commands \in 0 .. MaxCommands
    /\ c.used # 0 => c.commands # 0
    /\ ~Foreign => (c.line # 0 => peer[c.line] \in Held)
    /\ Foreign => c.line = 1 /\ c.used = 0 /\ peer[1] # "unused"

PeerInv ==
    /\ peer = [l \in Lines |-> peer[l]]
    /\ \A l \in Lines : LineInv(l)
    /\ UseInv

AllInv == OneInv /\ ServerInv /\ PeerInv

(* A next value of c, or one on the way to it, with the same connection.   *)
Counts(d) ==
    \/ d.commands = c.commands
    \/ c.commands < MaxCommands /\ d.commands = c.commands + 1

SameLine(d) ==
    /\ IsClient(d) /\ d.wait # "foreign"
    /\ d.used = c.used /\ d.line = c.line /\ Counts(d)

(* The state of the connection in use changes, or it is given up.          *)
LEMMA LineMoves ==
    ASSUME OneInv, PeerInv, ~Foreign, session' = session,
           c'.wait # "foreign", c'.used = c.used, Counts(c'), NEW p,
           peer' = [l \in Lines |-> IF l = c.line THEN p ELSE peer[l]],
           \/ c'.line = c.line /\ (c.line # 0 => p = peer[c.line])
           \/ /\ c'.line = c.line /\ c.line # 0 /\ peer[c.line] = "dialling"
              /\ p \in {"open", "broken"}
           \/ c'.line = 0 /\ p = "closed"
    PROVE  PeerInv'
<1>1. /\ c.line # 0 => c.line \in Lines /\ c.line <= c.used
      /\ c.line = 0 => c.line \notin Lines
      /\ \A l \in Lines : LineInv(l)
      /\ UseInv
  BY DEF OneInv, ClientInv, NamesInv, UsesItsHost, PeerInv, Lines
<1>2. UseInv'
  <2>1. /\ c'.commands \in 0 .. MaxCommands
        /\ c'.used # 0 => c'.commands # 0
    BY <1>1, CommandsBound DEF Counts, UseInv
  <2>2. c'.line # 0 => peer'[c'.line] \in Held
    <3>1. ASSUME c'.line # 0 PROVE peer'[c'.line] = p /\ p \in Held
      BY <1>1, <3>1 DEF UseInv, Held
    <3> QED BY <3>1
  <2> QED BY <1>1, <2>1, <2>2 DEF UseInv, Foreign
<1>3. ASSUME NEW l \in Lines PROVE LineInv(l)'
  <2>1. CASE l # c.line
    <3>1. peer'[l] = peer[l]
      BY <2>1
    <3> QED BY <1>1, <2>1, <3>1 DEF LineInv, Foreign
  <2>2. CASE l = c.line
    <3>1. /\ peer'[l] = p /\ l # 0 /\ ~(l > c.used) /\ peer[l] \in Held
      BY <1>1, <2>2 DEF UseInv, Lines
    <3>2. LineInv(l)
      BY <1>1
    <3>3. \/ p = peer[l] /\ c'.line = l
          \/ p \in {"open", "broken"} /\ c'.line = l /\ peer[l] = "dialling"
          \/ p = "closed"
      BY <2>2, <3>1
    <3> QED BY <3>1, <3>2, <3>3 DEF LineInv, Foreign, Held
  <2> QED BY <2>1, <2>2
<1>4. peer' = [l \in Lines |-> peer'[l]]
  OBVIOUS
<1> QED BY <1>2, <1>3, <1>4 DEF PeerInv

(* Nothing happens to the connections.                                     *)
LEMMA LineStays ==
    ASSUME OneInv, PeerInv, ~Foreign, session' = session, peer' = peer,
           SameLine(c')
    PROVE  PeerInv'
<1>1. peer' = [l \in Lines |-> IF l = c.line THEN peer[c.line] ELSE peer[l]]
  BY DEF PeerInv
<1> QED BY <1>1, LineMoves DEF SameLine

(* The client has no connection any more.                                  *)
LEMMA ShutdownLeavesNone ==
    ASSUME OneInv, PeerInv, ~Foreign, session' = session,
           NEW e, SameLine(e), Shutdown(c, e)
    PROVE  PeerInv'
<1>1. CASE c.line = 0
  BY <1>1, LineStays DEF Shutdown, wires
<1>2. CASE c.line # 0
  <2>1. c' = [e EXCEPT !.line = 0] /\ Hangup(c.line)
    BY <1>2 DEF Shutdown
  <2>2. /\ c'.line = 0 /\ c'.used = c.used /\ c'.wait # "foreign"
        /\ Counts(c')
    BY <2>1 DEF SameLine, IsClient, Fields, Counts
  <2>3. peer' = [l \in Lines |-> IF l = c.line THEN "closed" ELSE peer[l]]
    BY <2>1 DEF Hangup, PeerInv
  <2> QED BY <2>2, <2>3, LineMoves
<1> QED BY <1>1, <1>2

(* A request is sent on the connection in use.                             *)
LEMMA SendStays ==
    ASSUME NEW d, SameLine(d), NEW r, SendAndWait(d, r)
    PROVE  SameLine(c')
<1> DEFINE e == [d EXCEPT !.asked = d.asked + 1]
<1>1. c' = Wait(e, "answer")
  BY DEF SendAndWait
<1>2. SameLine(e)
  BY DEF SameLine, IsClient, Fields, Counts
<1> HIDE DEF e
<1> QED BY <1>1, <1>2 DEF SameLine, Wait, IsClient, Fields, Counts

(* A connection that was not used yet takes the place of the one in use.   *)
LEMMA OpenTakesOver ==
    ASSUME OneInv, PeerInv, session' = session,
           NEW h \in Hosts, NEW for \in {"connect", "open"}, Open(h, for)
    PROVE  PeerInv'
<1> DEFINE l == c.used + 1
<1>1. /\ ~Foreign /\ IsClient(c) /\ NamesInv /\ c.commands < MaxCommands
      /\ c.used \in 0 .. MaxLines - 1
  BY LinesBound DEF OneInv, ClientInv, PeerInv, UseInv, Foreign, Open, AtPrompt
<1>2. /\ c.line # 0 => c.line \in Lines /\ c.line <= c.used
      /\ \A k \in Lines : LineInv(k)
      /\ UseInv
  BY <1>1 DEF NamesInv, UsesItsHost, PeerInv
<1>3. /\ c'.line = l /\ c'.used = l /\ c'.wait = for
      /\ c'.commands = c.commands + 1
  <2> DEFINE d == Client(Typed, h)
             o == [host |-> h, proxy |-> d.proxy]
             e == [d EXCEPT !.line = l, !.used = l, !.opened[l] = o]
  <2>1. IsClient(d) /\ d.commands = c.commands + 1
    BY <1>1 DEF Client, Typed, IsClient, Fields
  <2>2. c' = Wait(e, for)
    BY DEF Open
  <2> HIDE DEF d, l, o
  <2>3. /\ IsClient(e) /\ e.line = l /\ e.used = l
        /\ e.commands = d.commands
    BY <2>1 DEF IsClient, Fields
  <2> HIDE DEF e
  <2> QED BY <2>1, <2>2, <2>3 DEF Wait, IsClient, Fields
<1>4. peer' = [k \in Lines |-> IF k = l THEN "dialling"
                               ELSE IF k = c.line THEN "closed" ELSE peer[k]]
  BY DEF Open
<1>5. l \in Lines /\ l # 0 /\ l > c.used /\ l \in 0 .. MaxLines
  BY <1>1, LinesBound DEF Lines
<1>6. ~Foreign'
  BY <1>3 DEF Foreign
<1> HIDE DEF l
<1>7. UseInv'
  <2>1. c'.commands \in 0 .. MaxCommands /\ c'.commands # 0
    BY <1>1, <1>2, <1>3, CommandsBound DEF UseInv
  <2>2. peer'[l] = "dialling"
    BY <1>4, <1>5
  <2> QED BY <1>3, <1>5, <1>6, <2>1, <2>2 DEF UseInv, Held
<1>8. ASSUME NEW k \in Lines PROVE LineInv(k)'
  <2>1. LineInv(k)
    BY <1>2
  <2>2. CASE k = l
    <3>1. peer'[k] = "dialling" /\ peer[k] = "unused"
      BY <1>1, <1>4, <1>5, <2>1, <2>2 DEF LineInv
    <3> QED BY <1>3, <1>5, <2>1, <2>2, <3>1 DEF LineInv, Held, l
  <2>3. CASE k # l /\ k = c.line
    <3>1. peer'[k] = "closed" /\ k <= c.used
      BY <1>2, <1>4, <2>3 DEF Lines
    <3>2. ~(k > c'.used)
      BY <1>1, <1>3, <3>1 DEF l, Lines
    <3> QED BY <2>1, <3>1, <3>2 DEF LineInv, Held
  <2>4. CASE k # l /\ k # c.line
    <3>1. peer'[k] = peer[k] /\ peer[k] \notin Held
      BY <1>4, <2>1, <2>4 DEF LineInv
    <3>2. k > c'.used => k > c.used
      BY <1>1, <1>3 DEF l, Lines
    <3> QED BY <1>1, <2>1, <3>1, <3>2 DEF LineInv
  <2> QED BY <2>2, <2>3, <2>4
<1>9. peer' = [k \in Lines |-> peer'[k]]
  BY <1>4
<1> QED BY <1>7, <1>8, <1>9 DEF PeerInv

(* A command of the user leaves one connection at most.                    *)
LEMMA CommandLeavesOne ==
    ASSUME OneInv, PeerInv, session' = session, NEW lost, ClientCommand(lost)
    PROVE  PeerInv'
<1>1. ~Foreign /\ IsClient(c) /\ c.wait = "prompt"
  BY DEF OneInv, ClientInv, Foreign, ClientCommand, OpenRefused, Open, AtPrompt,
         InitCommand, Find, Show, Close, Proxy, Quit
<1>2. ASSUME AtPrompt
      PROVE  /\ SameLine(Typed)
             /\ SameLine(Failed(Typed))
             /\ SameLine(Closed(Typed))
             /\ SameLine([Typed EXCEPT !.proxy = TRUE])
             /\ \A h : SameLine(Client(Typed, h))
  <2>1. SameLine(Typed)
    BY <1>1, <1>2 DEF Typed, SameLine, IsClient, Fields, Counts, AtPrompt
  <2>2. ASSUME NEW d, SameLine(d)
        PROVE  /\ SameLine(Failed(d)) /\ SameLine(Closed(d))
               /\ SameLine([d EXCEPT !.proxy = TRUE])
               /\ \A h : SameLine(Client(d, h))
    BY <2>2 DEF Closed, Failed, Client, SameLine, IsClient, Fields, Counts
  <2> QED BY <2>1, <2>2
<1>3. CASE Quit
  <2> DEFINE e == [c EXCEPT !.wait = "quit"]
  <2>1. Shutdown(c, e)
    BY <1>3 DEF Quit
  <2>2. SameLine(e)
    BY <1>1 DEF SameLine, IsClient, Fields, Counts
  <2> HIDE DEF e
  <2> QED BY <1>1, <2>1, <2>2, ShutdownLeavesNone
<1>4. ASSUME NEW h \in Hosts, OpenRefused(h) PROVE PeerInv'
  BY <1>1, <1>2, <1>4, ShutdownLeavesNone DEF OpenRefused
<1>5. ASSUME NEW h \in Hosts, Open(h, "connect") \/ Open(h, "open")
      PROVE  PeerInv'
  BY <1>5, OpenTakesOver
<1>6. ASSUME AtPrompt, NEW r, Ask(r, Typed, lost) PROVE PeerInv'
  <2>1. CASE SendAndWait(Typed, r) /\ UNCHANGED <<peer, down>>
    BY <1>1, <1>2, <1>6, <2>1, SendStays, LineStays
  <2>2. CASE Shutdown(c, Failed(Typed))
    BY <1>1, <1>2, <1>6, <2>2, ShutdownLeavesNone
  <2>3. CASE c' = Typed /\ UNCHANGED wires
    BY <1>1, <1>2, <1>6, <2>3, LineStays DEF wires
  <2> QED BY <1>6, <2>1, <2>2, <2>3 DEF Ask
<1>7. CASE InitCommand(lost)
  <2>1. AtPrompt
    BY <1>7 DEF InitCommand
  <2>2. CASE SendAndWait(Typed, InitRequest(c)) /\ UNCHANGED <<peer, down>>
    BY <1>1, <1>2, <2>1, <2>2, SendStays, LineStays
  <2>3. CASE Shutdown(c, Closed(Typed))
    BY <1>1, <1>2, <2>1, <2>3, ShutdownLeavesNone
  <2> QED BY <1>7, <2>2, <2>3 DEF InitCommand
<1>8. CASE Find(lost)
  <2>1. CASE c' = Typed /\ UNCHANGED wires
    BY <1>1, <1>2, <1>8, <2>1, LineStays DEF wires, Find
  <2> QED BY <1>6, <1>8, <2>1 DEF Find
<1>9. CASE Show(lost)
  BY <1>6, <1>9 DEF Show
<1>10. CASE Close
  BY <1>1, <1>2, <1>10, ShutdownLeavesNone DEF Close
<1>11. CASE Proxy
  BY <1>1, <1>2, <1>11, LineStays DEF Proxy, wires
<1> QED BY <1>3, <1>4, <1>5, <1>7, <1>8, <1>9, <1>10, <1>11 DEF ClientCommand

(* So does an event in its wait.                                           *)
LEMMA EventLeavesOne ==
    ASSUME OneInv, PeerInv, session' = session, NEW lost, ClientEvent(lost)
    PROVE  PeerInv'
<1>1. ~Foreign /\ IsClient(c) /\ SameLine(c)
  BY DEF OneInv, ClientInv, Foreign, ClientEvent, ConnectNotify, ConnectFails,
         ConnectTimeout, RecvPDU, ConnectionClosed, Waiting, SameLine, Counts
<1>2. /\ SameLine(Failed(c)) /\ SameLine(Failed([c EXCEPT !.dead = TRUE]))
  <2>1. SameLine([c EXCEPT !.dead = TRUE])
    BY <1>1 DEF SameLine, IsClient, Fields, Counts
  <2>2. ASSUME NEW d, SameLine(d) PROVE SameLine(Failed(d))
    BY <2>2 DEF Failed, SameLine, IsClient, Fields, Counts
  <2> QED BY <1>1, <2>1, <2>2
<1>3. ASSUME c.line # 0, peer[c.line] = "dialling",
             AfterConnect([c EXCEPT !.lastReceived = "connect"]),
             NEW p \in {"open", "broken"}, peer' = [peer EXCEPT ![c.line] = p]
      PROVE  PeerInv'
  <2> DEFINE d == [c EXCEPT !.lastReceived = "connect"]
             e == [d EXCEPT !.wait = "prompt"]
  <2>1. SameLine(d)
    BY <1>1 DEF SameLine, IsClient, Fields, Counts
  <2>2. SendAndWait(e, InitRequest(d)) \/ c' = e
    BY <1>3 DEF AfterConnect
  <2> HIDE DEF d
  <2>3. SameLine(e)
    BY <2>1 DEF SameLine, IsClient, Fields, Counts
  <2> HIDE DEF e
  <2>4. SameLine(c')
    BY <2>2, <2>3, SendStays
  <2>5. peer' = [l \in Lines |-> IF l = c.line THEN p ELSE peer[l]]
    BY <1>3 DEF PeerInv
  <2> QED BY <1>1, <1>3, <2>4, <2>5, LineMoves DEF SameLine
<1>4. CASE RecvPDU
  <2> DEFINE a == Head(down[c.line])
  <2>1. c' = [c EXCEPT !.wait = "prompt", !.lastReceived = a.kind,
                       !.got = a.id]
    BY <1>4 DEF RecvPDU
  <2> HIDE DEF a
  <2>2. SameLine(c')
    BY <1>1, <2>1 DEF SameLine, IsClient, Fields, Counts
  <2> QED BY <1>1, <1>4, <2>2, LineStays DEF RecvPDU
<1>5. CASE \E made \in BOOLEAN : ConnectNotify(made)
  BY <1>1, <1>2, <1>3, <1>5, ShutdownLeavesNone DEF ConnectNotify
<1>6. CASE ConnectFails \/ ConnectTimeout \/ ConnectionClosed(lost)
  BY <1>1, <1>2, <1>6, ShutdownLeavesNone
     DEF ConnectFails, ConnectTimeout, ConnectionClosed
<1> QED BY <1>4, <1>5, <1>6 DEF ClientEvent

(* The server takes connections that are open, and touches no other.       *)
LEMMA ServerLeavesLines ==
    ASSUME ServerInv, PeerInv, Server
    PROVE  PeerInv'
<1>1. PICK l \in Lines : ServerStep(l)
  BY DEF Server
<1>2. c' = c /\ peer' = peer
  BY <1>1 DEF Server, ServerStep, Accept, Refuse, Answer, PeerCloses,
              IdleTimeout, wires
<1>3. /\ \A k \in Lines : k # l => session'[k] = session[k]
      /\ \/ session'[l].object = session[l].object
         \/ session'[l].object = "lives" /\ peer[l] = "open"
         \/ session'[l].object = "gone" /\ session[l].object = "lives"
  <2> DEFINE s == session[l]
             r == Head(up[l])
             g == Handles(s, r)
  <2>1. \A k \in Lines : session[k] = Session(session[k].object,
            session[k].timer, session[k].encoder, session[k].handled,
            session[k].sent)
    BY DEF ServerInv, SessionOK
  <2>2. ASSUME NEW x, session' = [session EXCEPT ![l] = x]
        PROVE  session'[l] = x /\ \A k \in Lines : k # l => session'[k] = session[k]
    BY <2>2 DEF ServerInv
  <2>3. \A a : /\ g.object = s.object
               /\ FailNotify(s).object = "gone" /\ FailNotify(g).object = "gone"
               /\ Sends(g, a).object = s.object
               /\ [g EXCEPT !.encoder = "error"].object = s.object
    <3> DEFINE h == Append(s.handled, r)
    <3>1. s = Session(s.object, s.timer, s.encoder, s.handled, s.sent)
      BY <2>1
    <3>2. g = Session(s.object, s.timer, s.encoder, h, s.sent)
      <4>1. ASSUME NEW o, NEW t, NEW m, NEW x, NEW y, NEW e
            PROVE  [Session(o, t, m, x, e) EXCEPT !.handled = y]
                   = Session(o, t, m, y, e)
        BY DEF Session
      <4>2. g = [s EXCEPT !.handled = h]
        BY DEF Handles, g
      <4> HIDE DEF s, g, h
      <4> QED BY <3>1, <4>1, <4>2
    <3> HIDE DEF s, h, g
    <3>3. ASSUME NEW a PROVE Sends(g, a).object = s.object
      BY <3>2 DEF Session, Sends
    <3> QED BY <3>1, <3>2, <3>3 DEF Session, FailNotify
  <2> HIDE DEF g
  <2>4. CASE Accept(l)
    <3>1. SessionNotify.object = "lives"
      BY DEF SessionNotify, NoSession
    <3> QED BY <2>2, <2>4, <3>1 DEF Accept
  <2>5. CASE Refuse(l)
    <3>1. session' = [session EXCEPT ![l] = FailNotify(g)]
          /\ session[l].object = "lives"
      BY <2>5 DEF Refuse, ServerInv, g
    <3> QED BY <2>2, <2>3, <3>1
  <2>6. CASE Answer(l)
    <3>1. /\ session[l].object = "lives"
          /\ \/ session' = [session EXCEPT ![l] = [g EXCEPT !.encoder = "error"]]
             \/ \E a : session' = [session EXCEPT ![l] = Sends(g, a)]
             \/ session' = [session EXCEPT ![l] = FailNotify(g)]
      BY <2>6 DEF Answer, g
    <3>2. CASE \E a : session' = [session EXCEPT ![l] = Sends(g, a)]
      <4>1. PICK a : session' = [session EXCEPT ![l] = Sends(g, a)]
        BY <3>2
      <4> QED BY <2>2, <2>3, <4>1
    <3> QED BY <2>2, <2>3, <3>1, <3>2
  <2>7. CASE PeerCloses(l) \/ IdleTimeout(l)
    <3>1. session' = [session EXCEPT ![l] = FailNotify(s)]
          /\ session[l].object = "lives"
      BY <2>7 DEF PeerCloses, IdleTimeout, ServerInv
    <3> QED BY <2>2, <2>3, <3>1
  <2> QED BY <1>1, <2>4, <2>5, <2>6, <2>7 DEF ServerStep
<1>4. ASSUME NEW k \in Lines PROVE LineInv(k)'
  <2>1. LineInv(k)
    BY DEF PeerInv
  <2>2. CASE k # l
    BY <1>2, <1>3, <2>1, <2>2 DEF LineInv, Foreign
  <2>3. CASE k = l
    BY <1>2, <1>3, <2>1, <2>3 DEF LineInv, Foreign
  <2> QED BY <2>2, <2>3
<1> QED BY <1>2, <1>4 DEF PeerInv, UseInv, Foreign

(* A foreign client comes before the first command, with one connection.   *)
LEMMA ForeignHasOne ==
    ASSUME OneInv, PeerInv, session' = session,
           ForeignConnect \/ ForeignSend \/ ForeignClose
    PROVE  PeerInv'
<1>1. 1 \in Lines /\ IsClient(c) /\ \A l \in Lines : LineInv(l)
  BY LinesBound DEF Lines, OneInv, ClientInv, PeerInv
<1>2. CASE ForeignConnect
  <2>1. /\ c.used = 0 /\ c.line = 0 /\ ~Foreign
        /\ \A l \in Lines : peer[l] = "unused"
    <3>1. c.used = 0 /\ ~Foreign
      BY <1>2 DEF ForeignConnect, Foreign, PeerInv, UseInv
    <3>2. c.line = 0
      BY <3>1 DEF OneInv, ClientInv, NamesInv, UsesItsHost, Lines
    <3> QED BY <1>1, <3>1, <3>2 DEF LineInv, Lines
  <2>2. c' = [c EXCEPT !.wait = "foreign", !.line = 1]
    BY <1>2 DEF ForeignConnect
  <2>3. /\ c'.wait = "foreign" /\ c'.line = 1 /\ c'.used = 0
        /\ c'.commands = c.commands
    BY <1>1, <2>1, <2>2 DEF IsClient, Fields
  <2>4. peer' = [l \in Lines |-> IF l = 1 THEN "open" ELSE peer[l]]
    BY <1>2 DEF ForeignConnect, PeerInv
  <2>5. \A l \in Lines : LineInv(l)'
    BY <1>1, <2>1, <2>3, <2>4 DEF LineInv, Foreign, Held
  <2>6. UseInv'
    <3>1. UseInv /\ peer'[1] = "open" /\ Foreign'
      BY <1>1, <2>3, <2>4 DEF PeerInv, Foreign
    <3> QED BY <2>3, <3>1, LinesBound DEF UseInv
  <2>7. peer' = [l \in Lines |-> peer'[l]]
    BY <2>4
  <2> QED BY <2>5, <2>6, <2>7 DEF PeerInv
<1>3. CASE ForeignSend \/ ForeignClose
  <2>1. /\ Foreign /\ Foreign' /\ c'.used = c.used /\ c'.line = c.line
        /\ c'.commands = c.commands /\ peer[1] = "open"
    BY <1>1, <1>3 DEF ForeignSend, ForeignClose, Foreign, IsClient, Fields
  <2>2. PICK p \in {"open", "closed"} :
          peer' = [l \in Lines |-> IF l = 1 THEN p ELSE peer[l]]
    BY <1>3, <2>1 DEF ForeignSend, ForeignClose, Hangup, PeerInv
  <2>3. UseInv
    BY DEF PeerInv
  <2>4. \A l \in Lines : LineInv(l)'
    BY <1>1, <2>1, <2>2, <2>3 DEF LineInv, UseInv, Held
  <2>5. UseInv'
    BY <1>1, <2>1, <2>2, <2>3 DEF UseInv
  <2> QED BY <2>2, <2>4, <2>5 DEF PeerInv
<1> QED BY <1>2, <1>3

LEMMA PeerInvariance == Spec => []AllInv
<1>1. Init => PeerInv
  <2> SUFFICES ASSUME Init PROVE PeerInv
    OBVIOUS
  <2>1. /\ c.used = 0 /\ c.line = 0 /\ c.commands = 0 /\ ~Foreign
        /\ peer = [l \in Lines |-> "unused"]
        /\ \A l \in Lines : session[l].object = "none"
    BY DEF Init, InitClient, InitWires, InitServer, NoSession, Foreign
  <2> QED BY <2>1, LinesBound, CommandsBound DEF PeerInv, LineInv, UseInv, Held
<1>2. OneInv /\ ServerInv /\ PeerInv /\ [Next]_vars => PeerInv'
  <2> SUFFICES ASSUME OneInv, ServerInv, PeerInv, [Next]_vars PROVE PeerInv'
    OBVIOUS
  <2>1. CASE Server
    BY <2>1, ServerLeavesLines
  <2>2. CASE (ClientWaits \/ ClientCommand(Lost)) /\ UNCHANGED session
    BY <2>2, EventLeavesOne, CommandLeavesOne DEF ClientWaits
  <2>3. CASE (ForeignConnect \/ ForeignSend \/ ForeignClose) /\ UNCHANGED session
    BY <2>3, ForeignHasOne
  <2>4. CASE UNCHANGED vars
    BY <2>4 DEF vars, wires, PeerInv, LineInv, UseInv, Foreign
  <2> QED BY <2>1, <2>2, <2>3, <2>4 DEF Next, ClientWaits
<1> QED BY <1>1, <1>2, OneInvariance, ServerInvariance, PTL DEF Spec, AllInv

(* The client has one connection at most, over any commands, failures and  *)
(* timeouts, and the server no session on one that was never made: connect *)
(* shuts the old one down first, and every failure closes it.              *)
THEOREM OneConnectionAtATime == Spec => []OneConnection
<1>1. AllInv => OneConnection
  BY DEF AllInv, PeerInv, LineInv, Held, OneConnection
<1> QED BY <1>1, PeerInvariance, PTL

(* The variables have their types: a client that waits has a connection,   *)
(* whose end it has not closed.                                            *)
THEOREM TypeCorrect == Spec => []TypeOK
<1>1. AllInv => TypeOK
  <2> SUFFICES ASSUME AllInv PROVE TypeOK
    OBVIOUS
  <2>1. UseInv /\ \A l \in Lines : LineInv(l)
    BY DEF AllInv, PeerInv
  <2>2. /\ c.wait \in {"prompt", "connect", "open", "answer", "quit", "foreign"}
        /\ c.wait \in {"connect", "open", "answer"} => c.line # 0
    BY DEF AllInv, OneInv, Foreign, FlowInv, Flow
  <2>3. c.line \in 0 .. MaxLines /\ (c.line # 0 => c.line \in Lines)
    <3>1. CASE Foreign
      BY <2>1, <3>1, LinesBound DEF UseInv, Lines
    <3>2. CASE ~Foreign
      BY <3>2, LinesBound DEF AllInv, OneInv, ClientInv, NamesInv,
                              UsesItsHost, Lines
    <3> QED BY <3>1, <3>2
  <2>4. /\ c.line # 0 => peer[c.line] # "unused"
        /\ c.wait \in {"connect", "open", "answer"} => peer[c.line] # "closed"
    BY <2>1, <2>2 DEF UseInv, Held, Foreign
  <2> QED BY <2>1, <2>2, <2>3, <2>4 DEF UseInv, LineInv, Held, TypeOK
<1> QED BY <1>1, PeerInvariance, PTL
=============================================================================
