--------------------------- MODULE PduAssocProofs ---------------------------
(***************************************************************************)
(* The safety of an association, for any number of connections, PDUs and   *)
(* nested callbacks and for every use the application makes of it.         *)
(*                                                                         *)
(* The inductive invariant is IInv.  OrderKept is an equality of sequences *)
(* and is proved in the form Numbered, index by index; ClosedIsClean needs *)
(* Linked, which says that the history knows of a connection exactly when  *)
(* there is a COMSTACK, and that a deleted association has none.           *)
(***************************************************************************)
EXTENDS PduAssoc, SequenceTheorems, TLAPS

(* OrderKept, PDU by PDU.                                                  *)
NumberedAt(w, q, n) ==
    /\ Len(w) + Len(q) = n
    /\ \A i \in 1 .. Len(w) : w[i] = i
    /\ \A i \in 1 .. Len(q) : q[i] = Len(w) + i

Numbered == ending = "open" => NumberedAt(wire, queue_out, accepted)

Linked ==
    /\ registered <=> cs # "none"
    /\ ending = "open" <=> cs # "none"
    /\ cs = "none" => /\ state = "Closed"
                      /\ queue_out = <<>>
                      /\ pending = {}
                      /\ partial = 0
    /\ ~alive => cs = "none"

IInv ==
    /\ TypeOK
    /\ Linked
    /\ Numbered
    /\ PartialFirst
    /\ WritingWaits
    /\ NoUseAfterFree

(* What the sequence operations do to a stack, a queue or the wire.        *)
LEMMA PushType ==
    ASSUME NEW frame \in Frames, NEW stk \in Seq(Frames)
    PROVE  /\ Push(frame, stk) \in Seq(Frames)
           /\ Push(frame, stk) # <<>>
           /\ Head(Push(frame, stk)) = frame
           /\ \A i \in DOMAIN Push(frame, stk) :
                  \/ Push(frame, stk)[i] = frame
                  \/ \E j \in DOMAIN stk : Push(frame, stk)[i] = stk[j]
  <1> DEFINE one == <<frame>>
             all == one \o stk
  <1>1. one \in Seq(Frames) /\ Len(one) = 1 /\ one[1] = frame
    OBVIOUS
  <1>2. all \in Seq(Frames) /\ Len(all) = 1 + Len(stk)
        /\ \A i \in 1 .. Len(all) :
               all[i] = IF i <= 1 THEN one[i] ELSE stk[i - 1]
    BY <1>1, ConcatProperties
  <1>3. all # <<>> /\ Head(all) = frame
    BY <1>1, <1>2
  <1>4. ASSUME NEW i \in DOMAIN all
        PROVE  all[i] = frame \/ \E j \in DOMAIN stk : all[i] = stk[j]
    <2>1. i \in 1 .. Len(all)
      BY <1>2
    <2>2. CASE i <= 1
      BY <1>1, <1>2, <2>1, <2>2
    <2>3. CASE ~(i <= 1)
      <3>1. i - 1 \in DOMAIN stk /\ all[i] = stk[i - 1]
        BY <1>2, <2>1, <2>3
      <3> QED BY <3>1
    <2> QED BY <2>2, <2>3
  <1> QED BY <1>2, <1>3, <1>4 DEF Push

LEMMA TailElements ==
    ASSUME NEW S, NEW s \in Seq(S), s # <<>>
    PROVE  /\ Tail(s) \in Seq(S)
           /\ \A i \in DOMAIN Tail(s) : \E j \in DOMAIN s : Tail(s)[i] = s[j]
  OBVIOUS

(* Writing the first PDU of the queue keeps the numbering.                 *)
LEMMA NumberedWrite ==
    ASSUME NEW w \in Seq(Nat), NEW q \in Seq(Nat), NEW n \in Nat,
           NumberedAt(w, q, n), q # <<>>
    PROVE  /\ Append(w, Head(q)) \in Seq(Nat)
           /\ Tail(q) \in Seq(Nat)
           /\ NumberedAt(Append(w, Head(q)), Tail(q), n)
  <1> DEFINE v == Append(w, Head(q))
             r == Tail(q)
  <1>1. Head(q) = Len(w) + 1 /\ Head(q) \in Nat
    BY DEF NumberedAt
  <1>2. v \in Seq(Nat) /\ r \in Seq(Nat)
        /\ Len(v) = Len(w) + 1 /\ Len(r) = Len(q) - 1
    BY <1>1
  <1>3. \A i \in 1 .. Len(v) : v[i] = i
    BY <1>1, <1>2 DEF NumberedAt
  <1>4. \A i \in 1 .. Len(r) : r[i] = Len(v) + i
    BY <1>1, <1>2 DEF NumberedAt
  <1>5. Len(v) + Len(r) = n
    BY <1>2 DEF NumberedAt
  <1> QED BY <1>2, <1>3, <1>4, <1>5 DEF NumberedAt

(* So does accepting one more at the back.                                 *)
LEMMA NumberedAccept ==
    ASSUME NEW w \in Seq(Nat), NEW q \in Seq(Nat), NEW n \in Nat,
           NumberedAt(w, q, n)
    PROVE  /\ Append(q, n + 1) \in Seq(Nat)
           /\ Append(q, n + 1) # <<>>
           /\ q # <<>> => Head(Append(q, n + 1)) = Head(q)
           /\ NumberedAt(w, Append(q, n + 1), n + 1)
  <1> DEFINE r == Append(q, n + 1)
  <1>0. n + 1 \in Nat
    OBVIOUS
  <1>1. r \in Seq(Nat) /\ Len(r) = Len(q) + 1 /\ r # <<>>
    BY <1>0, AppendProperties
  <1>2. \A i \in 1 .. Len(r) : r[i] = IF i <= Len(q) THEN q[i] ELSE n + 1
    BY <1>1
  <1>3. Len(w) \in Nat /\ Len(q) \in Nat /\ Len(w) + Len(q) = n
    BY DEF NumberedAt
  <1>4. \A i \in 1 .. Len(r) : r[i] = Len(w) + i
    BY <1>1, <1>2, <1>3 DEF NumberedAt
  <1>5. q # <<>> => Head(r) = Head(q)
    BY <1>1, <1>2
  <1>6. NumberedAt(w, r, n + 1)
    BY <1>1, <1>3, <1>4 DEF NumberedAt
  <1> QED BY <1>1, <1>5, <1>6

(* Numbered says what OrderKept says.                                      *)
LEMMA NumberedIsOrder ==
    ASSUME TypeOK, Numbered
    PROVE  OrderKept
  <1> SUFFICES ASSUME ending = "open"
               PROVE  wire \o queue_out = [i \in 1 .. accepted |-> i]
    BY DEF OrderKept
  <1>1. NumberedAt(wire, queue_out, accepted)
    BY DEF Numbered
  <1>2. wire \in Seq(Nat) /\ queue_out \in Seq(Nat) /\ accepted \in Nat
    BY DEF TypeOK
  <1> DEFINE all == wire \o queue_out
  <1>3. all \in Seq(Nat) /\ Len(all) = accepted
    BY <1>1, <1>2 DEF NumberedAt
  <1>4. \A i \in 1 .. Len(all) : all[i] = i
    <2>1. \A i \in 1 .. Len(all) :
              all[i] = IF i <= Len(wire) THEN wire[i]
                       ELSE queue_out[i - Len(wire)]
      BY <1>2, ConcatProperties
    <2> QED BY <1>1, <1>2, <1>3, <2>1 DEF NumberedAt
  <1>5. all \in [1 .. Len(all) -> Nat]
    BY <1>3, LenProperties
  <1> QED BY <1>3, <1>4, <1>5

----------------------------------------------------------------------------
(* The parts of the handlers.                                              *)

Comstacks == {"none", "opening", "up", "broken"}

AtType == [state : States, cs : Comstacks, queue : Seq(Nat),
           stack : Seq(Frames), pending : SUBSET (RW \cup {"except", "timeout"})]

(* The variables a handler's last part assigns, with their types.          *)
HandlerTypes ==
    /\ state \in States /\ cs \in Comstacks /\ queue_out \in Seq(Nat)
    /\ registered \in BOOLEAN /\ mask \in SUBSET (RW \cup {"except"})
    /\ timed \in BOOLEAN
    /\ pending \in SUBSET (RW \cup {"except", "timeout"})
    /\ wire \in Seq(Nat) /\ partial \in Nat /\ ending \in Endings

LEMMA ShutdownClears ==
    ASSUME TypeOK, NEW how \in Endings \ {"open"}, Shutdown(how)
    PROVE  /\ state' = "Closed" /\ cs' = "none" /\ queue_out' = <<>>
           /\ registered' = FALSE /\ mask' = {} /\ timed' = FALSE
           /\ pending' = {} /\ partial' = 0
           /\ ending' \in Endings /\ ending' # "open"
  BY DEF TypeOK, Shutdown, Unregister, Endings

LEMMA ShutdownInv ==
    ASSUME TypeOK, NEW how \in Endings \ {"open"}, Shutdown(how),
           wire' \in Seq(Nat)
    PROVE  HandlerTypes' /\ Linked' /\ Numbered' /\ PartialFirst'
           /\ WritingWaits'
  <1>1. /\ state' = "Closed" /\ cs' = "none" /\ queue_out' = <<>>
        /\ registered' = FALSE /\ mask' = {} /\ timed' = FALSE
        /\ pending' = {} /\ partial' = 0
        /\ ending' \in Endings /\ ending' # "open"
    BY ShutdownClears
  <1>2. <<>> \in Seq(Nat)
    OBVIOUS
  <1>3. HandlerTypes'
    BY <1>1, <1>2 DEF HandlerTypes, States, Comstacks
  <1>4. Linked' /\ Numbered' /\ PartialFirst' /\ WritingWaits'
    BY <1>1 DEF Linked, Numbered, PartialFirst, WritingWaits
  <1> QED BY <1>3, <1>4

(* flush_PDU on an open connection keeps the invariant, provided that what *)
(* the handler did before left it true of "at"; it returns with the stack  *)
(* it got or calls failNotify.                                             *)
LEMMA FlushInv ==
    ASSUME TypeOK, NEW at \in AtType,
           registered, at.cs # "none", ending = "open", alive',
           accepted' \in Nat, NumberedAt(wire, at.queue, accepted'),
           partial # 0 => /\ at.state = "Writing" /\ at.queue # <<>>
                          /\ Head(at.queue) = partial,
           at.state = "Writing" => at.queue # <<>> /\ "write" \in mask,
           FlushPDU(at)
    PROVE  /\ HandlerTypes' /\ Linked' /\ Numbered' /\ PartialFirst'
           /\ WritingWaits'
           /\ stack' = at.stack \/ stack' = Push("fail", at.stack)
  <1> USE DEF AtType, Ask, KeepOpen
  <1>1. CASE FlushNotReady(at) /\ at.state \notin {"Ready", "Writing"}
    <2>1. HandlerTypes'
      BY <1>1 DEF FlushNotReady, HandlerTypes, TypeOK, sockVars, Comstacks
    <2> QED BY <1>1, <2>1 DEF FlushNotReady, sockVars, Linked, Numbered,
                 PartialFirst, WritingWaits
  <1>2. CASE FlushNothing(at) /\ at.queue = <<>>
    <2>1. CASE m_session_is_dead
      <3>1. Shutdown("closed") /\ wire' \in Seq(Nat)
            /\ stack' = Push("fail", at.stack)
        BY <1>2, <2>1 DEF FlushNothing, ShutdownAndFail, TypeOK
      <3> QED BY <3>1, ShutdownInv DEF Endings
    <2>2. CASE ~m_session_is_dead
      <3>1. HandlerTypes'
        BY <1>2, <2>2 DEF FlushNothing, HandlerTypes, TypeOK, Comstacks,
             States, RW
      <3> QED BY <1>2, <2>2, <3>1 DEF FlushNothing, Linked, Numbered,
                   PartialFirst, WritingWaits, TypeOK
    <2> QED BY <2>1, <2>2 DEF TypeOK
  <1>3. CASE PutFails(at)
    <2>1. Shutdown("lost") /\ wire' \in Seq(Nat)
          /\ stack' = Push("fail", at.stack)
      BY <1>3 DEF PutFails, ShutdownAndFail, TypeOK
    <2> QED BY <2>1, ShutdownInv DEF Endings
  <1>4. CASE PutIncomplete(at) /\ at.queue # <<>>
    <2>1. Head(at.queue) \in Nat
      BY <1>4
    <2>2. "write" \in mask' /\ mask' \in SUBSET (RW \cup {"except"})
      BY <1>4 DEF PutIncomplete, Wants, RW
    <2>3. HandlerTypes'
      BY <1>4, <2>1, <2>2 DEF PutIncomplete, HandlerTypes, TypeOK, Comstacks,
           States
    <2> QED BY <1>4, <2>2, <2>3 DEF PutIncomplete, Linked, Numbered,
                 PartialFirst, WritingWaits
  <1>5. CASE PutComplete(at) /\ at.queue # <<>>
    <2>1. /\ wire' \in Seq(Nat) /\ Tail(at.queue) \in Seq(Nat)
          /\ NumberedAt(wire', Tail(at.queue), accepted')
          /\ stack' = at.stack
      BY <1>5, NumberedWrite DEF PutComplete, TypeOK
    <2>2. CASE Tail(at.queue) = <<>> /\ m_session_is_dead
      <3>1. Shutdown("silent")
        BY <1>5, <2>2 DEF PutComplete, LastWritten
      <3> QED BY <2>1, <3>1, ShutdownInv DEF Endings
    <2>3. CASE Tail(at.queue) = <<>> /\ ~m_session_is_dead
      <3>1. /\ queue_out' = <<>> /\ partial' = 0 /\ cs' = at.cs
            /\ pending' = at.pending /\ ending' = ending
            /\ state' = "Ready" /\ mask' = {"read", "except"}
            /\ registered' = registered /\ timed' = timed
        BY <1>5, <2>3 DEF PutComplete, LastWritten
      <3>2. HandlerTypes'
        BY <2>1, <2>3, <3>1 DEF HandlerTypes, TypeOK, Comstacks, States, RW
      <3> QED BY <2>1, <2>3, <3>1, <3>2 DEF Linked, Numbered, PartialFirst,
                   WritingWaits
    <2>4. CASE Tail(at.queue) # <<>>
      <3>1. /\ queue_out' = Tail(at.queue) /\ partial' = 0 /\ cs' = at.cs
            /\ pending' = at.pending /\ ending' = ending
            /\ state' = at.state /\ UNCHANGED sockVars
        BY <1>5, <2>4 DEF PutComplete, KeepWriting
      <3>2. HandlerTypes'
        BY <2>1, <3>1 DEF HandlerTypes, TypeOK, Comstacks, States, sockVars
      <3> QED BY <2>1, <2>4, <3>1, <3>2 DEF Linked, Numbered, PartialFirst,
                   WritingWaits, sockVars
    <2> QED BY <2>2, <2>3, <2>4 DEF TypeOK
  <1> QED BY <1>1, <1>2, <1>3, <1>4, <1>5 DEF FlushPDU

(* The frames on a stack after a callback was pushed or has returned.  The *)
(* association lives whenever a frame that uses it afterwards is pushed.   *)
LEMMA StackAfterPush ==
    ASSUME TypeOK, NoUseAfterFree, NEW frame \in Frames, alive' = alive,
           frame \in {"recv", "connect"} => alive,
           NEW stk \in Seq(Frames), stk = stack \/ (stack # <<>> /\ stk = Tail(stack)),
           stack' = Push(frame, stk)
    PROVE  stack' \in Seq(Frames) /\ NoUseAfterFree'
  <1>1. stack' \in Seq(Frames)
    BY PushType
  <1>2. \A i \in DOMAIN stk : \E j \in DOMAIN stack : stk[i] = stack[j]
    <2>1. CASE stk = stack
      BY <2>1
    <2>2. CASE stack # <<>> /\ stk = Tail(stack)
      BY <2>2, TailElements DEF TypeOK
    <2> QED BY <2>1, <2>2
  <1>3. \A i \in DOMAIN stack' :
            stack'[i] = frame \/ \E j \in DOMAIN stack : stack'[i] = stack[j]
    <2>1. \A i \in DOMAIN stack' :
              stack'[i] = frame \/ \E k \in DOMAIN stk : stack'[i] = stk[k]
      BY PushType
    <2> QED BY <1>2, <2>1
  <1> QED BY <1>1, <1>3 DEF NoUseAfterFree

LEMMA StackAfterReturn ==
    ASSUME TypeOK, NoUseAfterFree, alive' = alive,
           stack # <<>>, stack' = Tail(stack)
    PROVE  stack' \in Seq(Frames) /\ NoUseAfterFree'
  BY TailElements DEF TypeOK, NoUseAfterFree

LEMMA StackSame ==
    ASSUME TypeOK, NoUseAfterFree, alive' = alive, stack' = stack
    PROVE  stack' \in Seq(Frames) /\ NoUseAfterFree'
  BY DEF TypeOK, NoUseAfterFree

(* A step of an open, living association that ends with flush_PDU.         *)
LEMMA FlushStep ==
    ASSUME IInv, NEW at \in AtType,
           registered, alive, at.cs # "none", ending = "open",
           accepted' \in Nat, NumberedAt(wire, at.queue, accepted'),
           partial # 0 => /\ at.state = "Writing" /\ at.queue # <<>>
                          /\ Head(at.queue) = partial,
           at.state = "Writing" => at.queue # <<>> /\ "write" \in mask,
           at.stack = stack \/ (stack # <<>> /\ at.stack = Tail(stack)),
           FlushPDU(at), alive' = alive, connects' = connects,
           closing' = closing, m_session_is_dead' = m_session_is_dead
    PROVE  IInv'
  <1>1. TypeOK /\ NoUseAfterFree
    BY DEF IInv
  <1>2. /\ HandlerTypes' /\ Linked' /\ Numbered' /\ PartialFirst'
        /\ WritingWaits'
        /\ stack' = at.stack \/ stack' = Push("fail", at.stack)
    BY <1>1, FlushInv
  <1>3. stack' \in Seq(Frames) /\ NoUseAfterFree'
    <2>0. at.stack \in Seq(Frames)
      BY DEF AtType
    <2>1. CASE stack' = Push("fail", at.stack)
      BY <1>1, <2>0, <2>1, StackAfterPush DEF Frames
    <2>2. CASE stack' = at.stack
      BY <1>1, <2>2, StackSame, StackAfterReturn
    <2> QED BY <1>2, <2>1, <2>2
  <1> QED BY <1>1, <1>2, <1>3 DEF IInv, TypeOK, HandlerTypes, Comstacks

(* A step that shuts down and leaves a stack it may leave.                 *)
LEMMA ShutdownStep ==
    ASSUME IInv, NEW how \in Endings \ {"open"}, Shutdown(how),
           wire' = wire, accepted' = accepted, connects' = connects,
           alive' \in BOOLEAN, closing' \in BOOLEAN,
           m_session_is_dead' \in BOOLEAN,
           stack' \in Seq(Frames), NoUseAfterFree'
    PROVE  IInv'
  <1>1. HandlerTypes' /\ Linked' /\ Numbered' /\ PartialFirst'
        /\ WritingWaits'
    BY ShutdownInv DEF IInv, TypeOK
  <1> QED BY <1>1 DEF IInv, TypeOK, HandlerTypes, Comstacks

----------------------------------------------------------------------------
(* The actions.                                                            *)

(* What a step leaves alone when it touches neither the queue nor the      *)
(* connection.                                                             *)
LEMMA MaskStep ==
    ASSUME IInv,
           UNCHANGED <<assocVars, registered, alive, connects, historyVars>>,
           m_session_is_dead' \in BOOLEAN, timed' \in BOOLEAN,
           mask' = mask \/ (state # "Writing"
                            /\ mask' \in SUBSET (RW \cup {"except"})),
           pending' \in SUBSET (RW \cup {"except", "timeout"}),
           cs = "none" => pending' = {},
           stack' \in Seq(Frames), NoUseAfterFree'
    PROVE  IInv'
  <1>1. TypeOK'
    BY DEF IInv, TypeOK, assocVars, historyVars
  <1>2. Linked' /\ Numbered' /\ PartialFirst' /\ WritingWaits'
    BY DEF IInv, Linked, Numbered, PartialFirst, WritingWaits, assocVars,
       historyVars
  <1> QED BY <1>1, <1>2 DEF IInv

LEMMA InitInv == Init => IInv
  <1> SUFFICES ASSUME Init PROVE IInv
    OBVIOUS
  <1>1. mask \in SUBSET (RW \cup {"except"})
    BY DEF Init, InitClient, InitSession, Wants, RW
  <1>2. queue_out \in Seq(Nat) /\ wire \in Seq(Nat) /\ stack \in Seq(Frames)
    BY DEF Init
  <1>3. TypeOK
    BY <1>1, <1>2 DEF Init, InitClient, InitSession, TypeOK, States, Endings
  <1>4. Linked
    BY DEF Init, InitClient, InitSession, Linked
  <1>5. Numbered /\ PartialFirst /\ WritingWaits /\ NoUseAfterFree
    BY DEF Init, InitClient, InitSession, Numbered, NumberedAt, PartialFirst,
       WritingWaits, NoUseAfterFree
  <1> QED BY <1>3, <1>4, <1>5 DEF IInv

(* The state as flush_PDU sees it when nothing was changed before.         *)
LEMMA HereType == IInv => Here \in AtType
  BY DEF IInv, TypeOK, Here, AtType, Comstacks

LEMMA SendPDUInv == IInv /\ SendPDU => IInv'
  <1> SUFFICES ASSUME IInv, SendPDU PROVE IInv'
    OBVIOUS
  <1> DEFINE q == Append(queue_out, accepted + 1)
             at == [Here EXCEPT !.queue = q]
  <1>1. /\ TypeOK /\ registered /\ ending = "open" /\ alive /\ cs # "none"
        /\ NumberedAt(wire, queue_out, accepted)
        /\ accepted' = accepted + 1 /\ accepted' \in Nat
        /\ UNCHANGED <<m_session_is_dead, alive, connects, closing>>
    BY DEF IInv, SendPDU, Calling, Linked, Numbered, TypeOK
  <1>2. /\ q \in Seq(Nat) /\ q # <<>>
        /\ queue_out # <<>> => Head(q) = Head(queue_out)
        /\ NumberedAt(wire, q, accepted')
    BY <1>1, NumberedAccept DEF TypeOK
  <1>3. CASE queue_out = <<>>
    <2>1. /\ at \in AtType /\ at.state = state /\ at.cs = cs /\ at.queue = q
          /\ at.stack = stack
      BY <1>2, HereType DEF AtType, Here
    <2>2. FlushPDU(at)
      BY <1>3 DEF SendPDU
    <2>3. state # "Writing" /\ partial = 0
      BY <1>3 DEF IInv, WritingWaits, PartialFirst
    <2> HIDE DEF q, at
    <2> QED BY <1>1, <1>2, <2>1, <2>2, <2>3, FlushStep
  <1>4. CASE queue_out # <<>>
    <2>1. /\ queue_out' = q
          /\ UNCHANGED <<state, cs, sockVars, pending, stack, wire, partial,
                         ending>>
      BY <1>4 DEF SendPDU
    <2>2. TypeOK'
      BY <1>1, <1>2, <2>1 DEF TypeOK, sockVars
    <2>3. NoUseAfterFree'
      BY <1>1, <2>1 DEF IInv, NoUseAfterFree
    <2>4. Linked' /\ Numbered' /\ PartialFirst' /\ WritingWaits'
      BY <1>1, <1>2, <1>4, <2>1 DEF IInv, Linked, Numbered, PartialFirst,
         WritingWaits, sockVars
    <2> QED BY <2>2, <2>3, <2>4 DEF IInv
  <1> QED BY <1>3, <1>4

LEMMA CloseSessionInv == IInv /\ CloseSession => IInv'
  <1> SUFFICES ASSUME IInv, CloseSession PROVE IInv'
    OBVIOUS
  <1>0. TypeOK /\ NoUseAfterFree /\ UNCHANGED <<alive, connects, accepted, wire>>
        /\ closing' \in BOOLEAN /\ m_session_is_dead' \in BOOLEAN
    BY DEF IInv, CloseSession
  <1>1. CASE queue_out = <<>>
    <2>1. Shutdown("closed") /\ stack' = Push("fail", stack)
      BY <1>1 DEF CloseSession, ShutdownAndFail
    <2>2. stack' \in Seq(Frames) /\ NoUseAfterFree'
      BY <1>0, <2>1, StackAfterPush DEF Frames, TypeOK
    <2>3. alive' \in BOOLEAN
      BY <1>0 DEF TypeOK
    <2> QED BY <1>0, <2>1, <2>2, <2>3, ShutdownStep DEF Endings
  <1>2. CASE queue_out # <<>>
    <2>1. UNCHANGED <<assocVars, sockVars, pending, stack, partial, ending>>
      BY <1>2 DEF CloseSession
    <2>2. stack' \in Seq(Frames) /\ NoUseAfterFree'
      BY <1>0, <2>1, StackSame
    <2>3. TypeOK'
      BY <1>0, <2>1 DEF TypeOK, assocVars, sockVars
    <2>4. Linked' /\ Numbered' /\ PartialFirst' /\ WritingWaits'
      BY <1>0, <2>1 DEF IInv, Linked, Numbered, PartialFirst, WritingWaits,
         assocVars, sockVars
    <2> QED BY <2>2, <2>3, <2>4 DEF IInv
  <1> QED BY <1>1, <1>2

LEMMA AppShutdownInv == IInv /\ AppShutdown => IInv'
  <1> SUFFICES ASSUME IInv, AppShutdown PROVE IInv'
    OBVIOUS
  <1>1. Shutdown("left")
        /\ UNCHANGED <<m_session_is_dead, alive, stack, connects, accepted,
                       wire, closing>>
    BY DEF AppShutdown
  <1>2. stack' \in Seq(Frames) /\ NoUseAfterFree'
    BY <1>1, StackSame DEF IInv
  <1>3. alive' \in BOOLEAN /\ closing' \in BOOLEAN
        /\ m_session_is_dead' \in BOOLEAN
    BY <1>1 DEF IInv, TypeOK
  <1> QED BY <1>1, <1>2, <1>3, ShutdownStep DEF Endings

LEMMA ConnectInv == IInv /\ Connect => IInv'
  <1> SUFFICES ASSUME IInv, Connect PROVE IInv'
    OBVIOUS
  <1>1. /\ UNCHANGED <<m_session_is_dead, alive, stack>> /\ alive
        /\ connects' \in Nat /\ pending' = {} /\ queue_out' = <<>>
        /\ timed' = FALSE /\ accepted' = 0 /\ wire' = <<>> /\ partial' = 0
        /\ closing' = FALSE
    BY DEF IInv, TypeOK, Connect, Calling
  <1>2. stack' \in Seq(Frames) /\ NoUseAfterFree'
    BY <1>1, StackSame DEF IInv
  <1>3. /\ state' \in {"Connecting", "Closed"}
        /\ cs' \in {"none", "opening", "broken"}
        /\ mask' \in SUBSET (RW \cup {"except"})
        /\ registered' \in BOOLEAN /\ ending' \in Endings
        /\ registered' <=> cs' # "none"
        /\ ending' = "open" <=> cs' # "none"
        /\ cs' = "none" => state' = "Closed"
    BY DEF Connect, Opening, Wants, RW, Endings
  <1>4. TypeOK'
    <2>1. <<>> \in Seq(Nat)
      OBVIOUS
    <2>2. /\ TypeOK /\ m_session_is_dead' \in BOOLEAN /\ alive' \in BOOLEAN
          /\ state' \in States
      BY <1>1, <1>3 DEF IInv, TypeOK, States
    <2> QED BY <1>1, <1>2, <1>3, <2>1, <2>2 DEF TypeOK
  <1>5. Linked' /\ Numbered' /\ PartialFirst' /\ WritingWaits'
    BY <1>1, <1>3 DEF Linked, Numbered, NumberedAt, PartialFirst,
       WritingWaits
  <1> QED BY <1>2, <1>4, <1>5 DEF IInv

LEMMA DestroyInv == IInv /\ Destroy => IInv'
  <1> SUFFICES ASSUME IInv, Destroy PROVE IInv'
    OBVIOUS
  <1>1. /\ Shutdown("left") /\ alive' = FALSE
        /\ stack' = MarkDestroyed(stack)
        /\ UNCHANGED <<m_session_is_dead, connects, accepted, wire, closing>>
    BY DEF Destroy
  <1>2. stack \in Seq(Frames)
    BY DEF IInv, TypeOK
  <1>3. stack' \in Seq(Frames) /\ DOMAIN stack' = DOMAIN stack
    BY <1>1, <1>2 DEF MarkDestroyed, Frames
  <1>4. NoUseAfterFree'
    BY <1>1, <1>2, <1>3 DEF Destroy, NotConnecting, NoUseAfterFree,
       MarkDestroyed
  <1>5. closing' \in BOOLEAN /\ m_session_is_dead' \in BOOLEAN
    BY <1>1 DEF IInv, TypeOK
  <1> QED BY <1>1, <1>3, <1>4, <1>5, ShutdownStep DEF Endings

LEMMA IdleTimeInv == IInv /\ IdleTime => IInv'
  <1> SUFFICES ASSUME IInv, IdleTime PROVE IInv'
    OBVIOUS
  <1>1. stack' \in Seq(Frames) /\ NoUseAfterFree'
    BY StackSame DEF IInv, IdleTime
  <1> QED BY <1>1, MaskStep DEF IInv, IdleTime, TypeOK, Linked

LEMMA GatherInv == IInv /\ Gather => IInv'
  <1> SUFFICES ASSUME IInv, Gather PROVE IInv'
    OBVIOUS
  <1>1. stack' \in Seq(Frames) /\ NoUseAfterFree'
    BY StackSame DEF IInv, Gather
  <1>2. pending' \in SUBSET (RW \cup {"except", "timeout"})
    BY DEF Gather, IInv, TypeOK
  <1>3. cs # "none"
    BY DEF IInv, Linked, Gather
  <1> QED BY <1>1, <1>2, <1>3, MaskStep DEF IInv, Gather, TypeOK, sockVars

(* The cases of socketNotify.  An event comes only to an association that  *)
(* is alive and open.                                                      *)
LEMMA NotifiedFacts ==
    ASSUME IInv, Notified
    PROVE  /\ TypeOK /\ NoUseAfterFree /\ Linked
           /\ alive /\ registered /\ cs # "none" /\ ending = "open"
           /\ NumberedAt(wire, queue_out, accepted) /\ accepted \in Nat
           /\ stack = <<>> /\ stack \in Seq(Frames)
  BY DEF IInv, Notified, Linked, Numbered, TypeOK

(* A callback that a handler of socketNotify makes.                        *)
LEMMA FirstFrame ==
    ASSUME IInv, Notified, NEW frame \in Frames, alive' = alive,
           stack' = <<frame>>
    PROVE  stack' \in Seq(Frames) /\ NoUseAfterFree'
  BY NotifiedFacts DEF NoUseAfterFree

LEMMA NotifyFails ==
    ASSUME IInv, Notified, ShutdownAndFail("lost", <<>>), wire' = wire,
           NotifyUnchanged
    PROVE  IInv'
  <1>1. /\ Shutdown("lost") /\ stack' = Push("fail", <<>>)
        /\ UNCHANGED <<m_session_is_dead, alive, connects, accepted, closing>>
    BY DEF ShutdownAndFail, NotifyUnchanged
  <1>2. stack' \in Seq(Frames) /\ NoUseAfterFree'
    BY <1>1, NotifiedFacts, StackAfterPush DEF Frames
  <1>3. alive' \in BOOLEAN /\ closing' \in BOOLEAN
        /\ m_session_is_dead' \in BOOLEAN
    BY <1>1 DEF IInv, TypeOK
  <1> QED BY <1>1, <1>2, <1>3, ShutdownStep DEF Endings

LEMMA NotifyExceptInv == IInv /\ NotifyExcept => IInv'
  BY NotifyFails DEF NotifyExcept

LEMMA NotifyClosedInv == IInv /\ NotifyClosed => IInv'
  BY NotifyFails DEF NotifyClosed, Switch

LEMMA NotifyTimeoutInv == IInv /\ NotifyTimeout => IInv'
  <1> SUFFICES ASSUME IInv, NotifyTimeout PROVE IInv'
    OBVIOUS
  <1>1. Notified /\ stack' = <<"timeout">> /\ alive' = alive
    BY DEF NotifyTimeout, NotifyUnchanged
  <1>2. stack' \in Seq(Frames) /\ NoUseAfterFree'
    BY <1>1, FirstFrame DEF Frames
  <1> QED BY <1>2, MaskStep DEF IInv, NotifyTimeout, NotifyUnchanged, TypeOK,
               sockVars, historyVars

(* A handler that only asks for other events, in a state other than        *)
(* Writing.                                                                *)
LEMMA NotifyWaits ==
    ASSUME IInv, Notified, NotifyUnchanged, state # "Writing",
           \E want \in Wants : Ask(want), pending' = {}, stack' = stack,
           UNCHANGED <<assocVars, wire, partial, ending>>
    PROVE  IInv'
  <1>1. stack' \in Seq(Frames) /\ NoUseAfterFree'
    BY StackSame DEF IInv, NotifyUnchanged
  <1>2. mask' \in SUBSET (RW \cup {"except"})
        /\ UNCHANGED <<registered, timed>>
    BY DEF Ask, Wants, RW
  <1> QED BY <1>1, <1>2, MaskStep DEF IInv, NotifyUnchanged, TypeOK,
               historyVars

(* A handler that ends with flush_PDU.                                     *)
LEMMA NotifyFlushes ==
    ASSUME IInv, Notified, NotifyUnchanged,
           NEW at \in AtType, at.cs # "none",
           at.queue = queue_out, at.stack = stack,
           partial # 0 => at.state = "Writing",
           at.state = "Writing" => queue_out # <<>> /\ "write" \in mask,
           FlushPDU(at)
    PROVE  IInv'
  <1>1. UNCHANGED <<m_session_is_dead, alive, connects, accepted, closing>>
    BY DEF NotifyUnchanged
  <1>2. partial # 0 => queue_out # <<>> /\ Head(queue_out) = partial
    BY DEF IInv, PartialFirst
  <1> QED BY <1>1, <1>2, NotifiedFacts, FlushStep

LEMMA NotifyAcceptingInv == IInv /\ NotifyAccepting => IInv'
  <1> SUFFICES ASSUME IInv, NotifyAccepting PROVE IInv'
    OBVIOUS
  <1>1. Notified /\ NotifyUnchanged /\ state = "Accepting"
    BY DEF NotifyAccepting, Switch
  <1>2. CASE ShutdownAndFail("lost", <<>>) /\ UNCHANGED wire
    BY <1>1, <1>2, NotifyFails
  <1>3. CASE FlushPDU([Here EXCEPT !.state = "Ready", !.cs = "up",
                                   !.pending = {}])
    <2> DEFINE at == [Here EXCEPT !.state = "Ready", !.cs = "up",
                                  !.pending = {}]
    <2>1. partial = 0
      BY <1>1 DEF IInv, PartialFirst
    <2>2. Here \in AtType
      BY HereType
    <2>3. /\ at \in AtType /\ at.state = "Ready" /\ at.cs = "up"
          /\ at.queue = queue_out /\ at.stack = stack
      BY <2>2 DEF AtType, Here, States, Comstacks
    <2>4. FlushPDU(at)
      BY <1>3
    <2> HIDE DEF at
    <2> QED BY <1>1, <2>1, <2>3, <2>4, NotifyFlushes
  <1>4. CASE /\ \E want \in Wants : Ask(want)
             /\ pending' = {}
             /\ UNCHANGED <<assocVars, stack, wire, partial, ending>>
    BY <1>1, <1>4, NotifyWaits
  <1> QED BY <1>2, <1>3, <1>4 DEF NotifyAccepting

LEMMA NotifyWritingInv == IInv /\ NotifyWriting => IInv'
  <1> SUFFICES ASSUME IInv, NotifyWriting PROVE IInv'
    OBVIOUS
  <1> DEFINE at == [Here EXCEPT !.pending = {}]
  <1>1. /\ Notified /\ NotifyUnchanged /\ state = "Writing"
        /\ FlushPDU(at)
    BY DEF NotifyWriting, Switch
  <1>2. Here \in AtType
    BY HereType
  <1>3. /\ at \in AtType /\ at.state = state /\ at.cs = cs
        /\ at.queue = queue_out /\ at.stack = stack
    BY <1>2 DEF AtType, Here
  <1>4. queue_out # <<>> /\ "write" \in mask /\ cs # "none"
    BY <1>1, NotifiedFacts DEF IInv, WritingWaits
  <1> HIDE DEF at
  <1> QED BY <1>1, <1>3, <1>4, NotifyFlushes

LEMMA NotifyConnectingInv == IInv /\ NotifyConnecting => IInv'
  <1> SUFFICES ASSUME IInv, NotifyConnecting PROVE IInv'
    OBVIOUS
  <1>1. /\ Notified /\ NotifyUnchanged /\ state = "Connecting"
        /\ pending' = {} /\ UNCHANGED <<queue_out, wire, partial, ending>>
    BY DEF NotifyConnecting, Switch
  <1>2. CASE (\E want \in Wants : Ask(want)) /\ UNCHANGED <<state, cs, stack>>
    BY <1>1, <1>2, NotifyWaits DEF assocVars
  <1>3. CASE /\ state' = "Ready" /\ cs' \in {"up", "broken"}
             /\ stack' = <<"connect">> /\ UNCHANGED sockVars
    <2>1. stack' \in Seq(Frames) /\ NoUseAfterFree'
      BY <1>1, <1>3, FirstFrame DEF Frames, NotifyUnchanged
    <2>2. TypeOK'
      BY <1>1, <1>3, <2>1 DEF IInv, TypeOK, NotifyUnchanged, sockVars, States
    <2>3. partial = 0
      BY <1>1 DEF IInv, PartialFirst
    <2>4. Linked' /\ Numbered' /\ PartialFirst' /\ WritingWaits'
      BY <1>1, <1>3, <2>3, NotifiedFacts DEF Linked, Numbered, PartialFirst,
         WritingWaits, NotifyUnchanged, sockVars
    <2> QED BY <2>1, <2>2, <2>4 DEF IInv
  <1> QED BY <1>2, <1>3 DEF NotifyConnecting

LEMMA NotifyReadyInv == IInv /\ NotifyReady => IInv'
  <1> SUFFICES ASSUME IInv, NotifyReady PROVE IInv'
    OBVIOUS
  <1>1. Notified /\ NotifyUnchanged /\ state = "Ready" /\ wire' = wire
    BY DEF NotifyReady, Switch
  <1>2. CASE ShutdownAndFail("lost", <<>>)
    BY <1>1, <1>2, NotifyFails
  <1>3. CASE /\ pending' = {} /\ \E want \in Wants : Ask(want)
             /\ UNCHANGED stack /\ UNCHANGED <<assocVars, partial, ending>>
    BY <1>1, <1>3, NotifyWaits
  <1>4. CASE /\ pending' = {} /\ stack' = <<"recv">>
             /\ UNCHANGED sockVars
             /\ UNCHANGED <<assocVars, partial, ending>>
    <2>1. stack' \in Seq(Frames) /\ NoUseAfterFree'
      BY <1>1, <1>4, FirstFrame DEF Frames, NotifyUnchanged
    <2> QED BY <1>1, <1>4, <2>1, MaskStep DEF IInv, TypeOK, NotifyUnchanged,
                 sockVars, historyVars
  <1> QED BY <1>2, <1>3, <1>4 DEF NotifyReady

(* Callbacks return.                                                       *)
LEMMA ReturnPlainInv == IInv /\ (ReturnPlain \/ ReturnRecvDestroyed) => IInv'
  <1> SUFFICES ASSUME IInv, ReturnPlain \/ ReturnRecvDestroyed PROVE IInv'
    OBVIOUS
  <1>1. /\ stack # <<>> /\ stack' = Tail(stack)
        /\ UNCHANGED <<assocVars, m_session_is_dead, alive, sockVars, pending,
                       connects, historyVars>>
    BY DEF ReturnPlain, ReturnRecvDestroyed, Returning
  <1>2. stack' \in Seq(Frames) /\ NoUseAfterFree'
    BY <1>1, StackAfterReturn DEF IInv
  <1> QED BY <1>1, <1>2, MaskStep DEF IInv, TypeOK, Linked, sockVars

LEMMA ReturnRecvInv == IInv /\ ReturnRecv => IInv'
  <1> SUFFICES ASSUME IInv, ReturnRecv PROVE IInv'
    OBVIOUS
  <1>1. /\ stack # <<>> /\ stack' = Tail(stack)
        /\ UNCHANGED <<assocVars, m_session_is_dead, alive, pending, connects,
                       historyVars>>
    BY DEF ReturnRecv, Returning
  <1>2. stack' \in Seq(Frames) /\ NoUseAfterFree'
    BY <1>1, StackAfterReturn DEF IInv
  <1>3. /\ registered' = registered /\ timed' = timed
        /\ \/ mask' = mask
           \/ state = "Ready" /\ mask' = {"read", "except"}
    BY DEF ReturnRecv, Ask, sockVars
  <1> QED BY <1>1, <1>2, <1>3, MaskStep DEF IInv, TypeOK, Linked, RW

LEMMA ReturnConnectInv == IInv /\ ReturnConnect => IInv'
  <1> SUFFICES ASSUME IInv, ReturnConnect PROVE IInv'
    OBVIOUS
  <1> DEFINE at == [Here EXCEPT !.stack = Tail(stack)]
  <1>1. /\ stack # <<>> /\ Head(stack) = "connect" /\ stack \in Seq(Frames)
        /\ UNCHANGED <<m_session_is_dead, alive, connects, accepted, closing>>
        /\ TypeOK /\ NoUseAfterFree /\ FlushPDU(at)
    BY DEF IInv, TypeOK, ReturnConnect, Returning, NotifyUnchanged
  <1>2. alive
    BY <1>1 DEF NoUseAfterFree
  <1>3. /\ at \in AtType /\ at.state = state /\ at.cs = cs
        /\ at.queue = queue_out /\ at.stack = Tail(stack)
        /\ at.pending = pending
    <2>1. Tail(stack) \in Seq(Frames)
      BY <1>1
    <2>2. Here \in AtType
      BY HereType
    <2> QED BY <2>1, <2>2 DEF AtType, Here
  <1> HIDE DEF at
  <1>4. CASE cs = "none"
    <2>1. FlushNotReady(at)
      BY <1>1, <1>3, <1>4 DEF IInv, Linked, FlushPDU
    <2>2. UNCHANGED <<assocVars, sockVars, pending, wire, partial, ending>>
          /\ stack' = Tail(stack)
      BY <1>3, <2>1 DEF FlushNotReady, assocVars
    <2>3. stack' \in Seq(Frames) /\ NoUseAfterFree'
      BY <1>1, <2>2, StackAfterReturn
    <2> QED BY <1>1, <2>2, <2>3, MaskStep DEF IInv, TypeOK, Linked, sockVars,
                 historyVars
  <1>5. CASE cs # "none"
    <2>1. /\ registered /\ ending = "open"
          /\ NumberedAt(wire, queue_out, accepted) /\ accepted' \in Nat
      BY <1>1, <1>5 DEF IInv, Linked, Numbered, TypeOK
    <2>2. PartialFirst /\ WritingWaits
      BY DEF IInv
    <2> QED BY <1>1, <1>2, <1>3, <1>5, <2>1, <2>2, FlushStep
                 DEF PartialFirst, WritingWaits
  <1> QED BY <1>4, <1>5

----------------------------------------------------------------------------
LEMMA StutterInv == IInv /\ UNCHANGED vars => IInv'
  BY DEF IInv, TypeOK, Linked, Numbered, PartialFirst, WritingWaits,
     NoUseAfterFree, vars, assocVars, sockVars, historyVars

LEMMA NextInv == IInv /\ [Next]_vars => IInv'
  <1>1. IInv /\ Operation => IInv'
    BY SendPDUInv, CloseSessionInv, AppShutdownInv, IdleTimeInv, ConnectInv,
       DestroyInv DEF Operation
  <1>2. IInv /\ SocketNotify => IInv'
    BY NotifyExceptInv, NotifyTimeoutInv, NotifyAcceptingInv,
       NotifyConnectingInv, NotifyWritingInv, NotifyReadyInv, NotifyClosedInv
       DEF SocketNotify
  <1>3. IInv /\ Return => IInv'
    BY ReturnPlainInv, ReturnRecvInv, ReturnConnectInv DEF Return
  <1> QED BY <1>1, <1>2, <1>3, GatherInv, StutterInv DEF Next

(* The invariant holds in every state that the association reaches.        *)
THEOREM Invariance == Spec => []IInv
  BY InitInv, NextInv, PTL DEF Spec

(* Every variable keeps its type, whatever the observer does.              *)
THEOREM TypeCorrect == Spec => []TypeOK
  <1>1. IInv => TypeOK
    BY DEF IInv
  <1> QED BY <1>1, Invariance, PTL

(* PDUs are written in the order of the calls of send_PDU, each once, for  *)
(* any number of PDUs and any nesting of callbacks (flush_PDU, send_PDU).  *)
THEOREM OrderIsKept == Spec => []OrderKept
  <1>1. IInv => OrderKept
    BY NumberedIsOrder DEF IInv
  <1> QED BY <1>1, Invariance, PTL

(* The rest of a partly written PDU stays in front of the queue.           *)
THEOREM PartialStaysFirst == Spec => []PartialFirst
  <1>1. IInv => PartialFirst
    BY DEF IInv
  <1> QED BY <1>1, Invariance, PTL

(* Nothing is left of a connection that was shut down, and cs exists in    *)
(* every state in which socketNotify and flush_PDU use it.                 *)
THEOREM ClosedStaysClean == Spec => []ClosedIsClean
  <1>1. IInv => ClosedIsClean
    BY DEF IInv, Linked, ClosedIsClean
  <1> QED BY <1>1, Invariance, PTL

(* However deep callbacks nest, none returns into a handler that goes on   *)
(* to use a deleted association.                                           *)
THEOREM NeverUsedAfterFree == Spec => []NoUseAfterFree
  <1>1. IInv => NoUseAfterFree
    BY DEF IInv
  <1> QED BY <1>1, Invariance, PTL

(* Write interest is never lost while a PDU is half written.               *)
THEOREM WritingAlwaysWaits == Spec => []WritingWaits
  <1>1. IInv => WritingWaits
    BY DEF IInv
  <1> QED BY <1>1, Invariance, PTL

----------------------------------------------------------------------------
(* What a step does to the history of the connection: it keeps Drained,    *)
(* which is CloseLosesNothing, PDU by PDU; it calls failNotify for nothing *)
(* but the end of an open connection; and it is a step of IPduObservable.  *)
(* The last needs that the session is not dead before close_session was    *)
(* called on this connection (CloseAsked), hence that no association is    *)
(* used again after close_session.                                         *)

Drained ==
    ending \in {"closed", "silent"} => NumberedAt(wire, <<>>, accepted)

CloseAsked == m_session_is_dead => closing

FailureIsNews ==
    FailNotified =>
        /\ cs' = "none"
        /\ \/ ending = "open" /\ ending' \in {"lost", "closed"}
           \/ CloseSession

Effect ==
    /\ Drained'
    /\ FailureIsNews
    /\ CloseAsked => [Observable!Next]_(Observable!vars)

(* Steps after which nothing is heard of a failure.                        *)
LEMMA NoFailure ==
    ASSUME IInv,
           \/ stack' = stack
           \/ stack # <<>> /\ stack' = Tail(stack)
           \/ stack' = MarkDestroyed(stack)
           \/ \E frame \in Frames \ {"fail"} : stack' = <<frame>>
    PROVE  ~FailNotified
<1>1. stack \in Seq(Frames)
  BY DEF IInv, TypeOK
<1>2. CASE stack' = stack
  BY <1>1, <1>2 DEF FailNotified
<1>3. CASE stack # <<>> /\ stack' = Tail(stack)
  <2>1. Len(stack') = Len(stack) - 1 /\ Len(stack) \in Nat
    BY <1>1, <1>3
  <2> QED BY <2>1 DEF FailNotified
<1>4. CASE stack' = MarkDestroyed(stack)
  <2>1. stack' \in Seq(Frames) /\ Len(stack') = Len(stack)
    BY <1>1, <1>4 DEF MarkDestroyed, Frames
  <2>2. stack # <<>> => (Head(stack') = "fail" => Head(stack) = "fail")
    BY <1>1, <1>4 DEF MarkDestroyed
  <2>3. stack' # <<>> => stack # <<>>
    BY <1>1, <2>1
  <2> QED BY <1>1, <2>1, <2>2, <2>3 DEF FailNotified
<1>5. CASE \E frame \in Frames \ {"fail"} : stack' = <<frame>>
  BY <1>5 DEF FailNotified
<1> QED BY <1>2, <1>3, <1>4, <1>5

LEMMA QuietEffect ==
    ASSUME IInv, Drained, UNCHANGED <<accepted, wire, closing, ending>>,
           ~FailNotified
    PROVE  Effect
BY DEF Effect, Drained, FailureIsNews, Observable!vars

(* The connection is lost, or the application leaves it.                   *)
LEMMA EndEffect ==
    ASSUME IInv, Drained, UNCHANGED <<accepted, wire, closing>>,
           NEW how \in {"lost", "left"}, Shutdown(how),
           FailNotified => how = "lost" /\ ending = "open"
    PROVE  Effect
<1>1. cs' = "none" /\ ending' = IF ending = "open" THEN how ELSE ending
  BY DEF Shutdown
<1>2. Drained'
  BY <1>1 DEF Drained
<1>3. FailureIsNews
  BY <1>1 DEF FailureIsNews
<1>4. CASE ending = "open"
  <2>1. Observable!End
    BY <1>1, <1>4 DEF Observable!End, Observable!Settle
  <2> QED BY <1>2, <1>3, <2>1 DEF Effect, Observable!Next
<1>5. CASE ending # "open"
  <2>1. UNCHANGED Observable!vars
    BY <1>1, <1>5 DEF Observable!vars
  <2> QED BY <1>2, <1>3, <2>1 DEF Effect
<1> QED BY <1>4, <1>5

(* What flush_PDU does to the history.                                     *)
LEMMA FlushHistory ==
    ASSUME TypeOK, NEW at \in AtType, ending = "open", accepted' \in Nat,
           NumberedAt(wire, at.queue, accepted'), FlushPDU(at)
    PROVE  /\ \/ wire' = wire
              \/ at.queue # <<>> /\ wire' = Append(wire, Len(wire) + 1)
           /\ \/ ending' \in {"open", "lost"}
              \/ /\ ending' \in {"closed", "silent"} /\ m_session_is_dead
                 /\ NumberedAt(wire', <<>>, accepted')
           /\ \/ stack' = at.stack
              \/ /\ stack' = Push("fail", at.stack)
                 /\ cs' = "none" /\ ending' \in {"lost", "closed"}
<1> USE DEF AtType
<1>1. CASE FlushNotReady(at)
  BY <1>1 DEF FlushNotReady
<1>2. CASE FlushNothing(at) /\ at.queue = <<>>
  BY <1>2 DEF FlushNothing, ShutdownAndFail, Shutdown
<1>3. CASE PutFails(at)
  BY <1>3 DEF PutFails, ShutdownAndFail, Shutdown
<1>4. CASE PutIncomplete(at)
  BY <1>4 DEF PutIncomplete
<1>5. CASE PutComplete(at) /\ at.queue # <<>>
  <2>1. /\ wire' = Append(wire, Head(at.queue)) /\ stack' = at.stack
        /\ NumberedAt(wire', Tail(at.queue), accepted')
    BY <1>5, NumberedWrite DEF PutComplete, TypeOK
  <2>2. Head(at.queue) = Len(wire) + 1
    BY <1>5 DEF NumberedAt
  <2>3. \/ ending' = "open"
        \/ /\ ending' = "silent" /\ m_session_is_dead
           /\ Tail(at.queue) = <<>>
    BY <1>5 DEF PutComplete, LastWritten, KeepOpen, Shutdown
  <2> QED BY <1>5, <2>1, <2>2, <2>3
<1> QED BY <1>1, <1>2, <1>3, <1>4, <1>5 DEF FlushPDU

(* A step of an open connection that ends with flush_PDU; a PDU that it    *)
(* accepts is the only one that waits.                                     *)
LEMMA FlushEffect ==
    ASSUME IInv, NEW at \in AtType, ending = "open", FlushPDU(at),
           \/ accepted' = accepted
           \/ accepted' = accepted + 1 /\ Len(wire) = accepted,
           NumberedAt(wire, at.queue, accepted'), closing' = closing,
           \/ at.stack = stack
           \/ stack # <<>> /\ Head(stack) # "fail" /\ at.stack = Tail(stack)
    PROVE  Effect
<1>1. /\ TypeOK /\ accepted' \in Nat /\ wire \in Seq(Nat) /\ accepted \in Nat
      /\ stack \in Seq(Frames)
  BY DEF IInv, TypeOK
<1>2. /\ \/ wire' = wire
         \/ at.queue # <<>> /\ wire' = Append(wire, Len(wire) + 1)
      /\ \/ ending' \in {"open", "lost"}
         \/ /\ ending' \in {"closed", "silent"} /\ m_session_is_dead
            /\ NumberedAt(wire', <<>>, accepted')
      /\ \/ stack' = at.stack
         \/ /\ stack' = Push("fail", at.stack)
            /\ cs' = "none" /\ ending' \in {"lost", "closed"}
  BY <1>1, FlushHistory
<1>3. Drained'
  BY <1>2 DEF Drained
<1>4. FailureIsNews
  <2>1. CASE stack' = at.stack
    BY <2>1, NoFailure DEF FailureIsNews
  <2>2. CASE cs' = "none" /\ ending' \in {"lost", "closed"}
    BY <2>2 DEF FailureIsNews
  <2> QED BY <1>2, <2>1, <2>2
<1>5. ASSUME CloseAsked PROVE [Observable!Next]_(Observable!vars)
  <2>1. Observable!Settle
    <3>1. CASE ending' \in {"open", "lost"}
      BY <3>1 DEF Observable!Settle
    <3>2. CASE /\ ending' \in {"closed", "silent"} /\ m_session_is_dead
               /\ NumberedAt(wire', <<>>, accepted')
      <4>1. Len(wire') = accepted'
        <5>1. wire' \in Seq(Nat)
          BY <1>1, <1>2
        <5> QED BY <1>1, <3>2, <5>1 DEF NumberedAt
      <4> QED BY <1>5, <3>2, <4>1 DEF Observable!Settle, CloseAsked
    <3> QED BY <1>2, <3>1, <3>2
  <2>2. CASE accepted' = accepted /\ wire' = wire
    <3>1. Observable!End
      BY <2>1, <2>2 DEF Observable!End
    <3> QED BY <3>1 DEF Observable!Next
  <2>3. CASE accepted' = accepted /\ wire' # wire
    <3>1. Len(wire) < accepted
      <4>1. at.queue \in Seq(Nat) /\ at.queue # <<>>
        BY <1>2, <2>3 DEF AtType
      <4>2. Len(at.queue) \in Nat /\ Len(at.queue) # 0 /\ Len(wire) \in Nat
        BY <1>1, <4>1
      <4> QED BY <1>1, <2>3, <4>2 DEF NumberedAt
    <3>2. Observable!Write
      BY <1>2, <2>1, <2>3, <3>1 DEF Observable!Write, Observable!WriteNext
    <3> QED BY <3>2 DEF Observable!Next
  <2>4. CASE accepted' = accepted + 1 /\ Len(wire) = accepted
    <3>1. Observable!Send
      BY <1>2, <2>1, <2>4 DEF Observable!Send, Observable!WriteNext
    <3> QED BY <3>1 DEF Observable!Next
  <2> QED BY <2>2, <2>3, <2>4
<1> QED BY <1>3, <1>4, <1>5 DEF Effect

LEMMA SendPDUEffect == IInv /\ Drained /\ SendPDU => Effect
<1> SUFFICES ASSUME IInv, Drained, SendPDU PROVE Effect
  OBVIOUS
<1> DEFINE q == Append(queue_out, accepted + 1)
           at == [Here EXCEPT !.queue = q]
<1>1. /\ TypeOK /\ ending = "open" /\ NumberedAt(wire, queue_out, accepted)
      /\ accepted' = accepted + 1 /\ closing' = closing
  BY DEF IInv, SendPDU, Linked, Numbered
<1>2. q \in Seq(Nat) /\ NumberedAt(wire, q, accepted')
  BY <1>1, NumberedAccept DEF TypeOK
<1>3. CASE queue_out = <<>>
  <2>1. at \in AtType /\ at.queue = q /\ at.stack = stack
    BY <1>2, HereType DEF AtType, Here
  <2>2. FlushPDU(at)
    BY <1>3 DEF SendPDU
  <2>3. Len(wire) = accepted
    <3>1. Len(queue_out) = 0 /\ Len(wire) \in Nat
      BY <1>1, <1>3 DEF TypeOK
    <3> QED BY <1>1, <3>1 DEF NumberedAt
  <2> HIDE DEF q, at
  <2> QED BY <1>1, <1>2, <2>1, <2>2, <2>3, FlushEffect
<1>4. CASE queue_out # <<>>
  <2>1. UNCHANGED <<stack, wire, ending>>
    BY <1>4 DEF SendPDU
  <2>2. ~FailNotified
    BY <2>1, NoFailure
  <2>3. Observable!Send
    BY <1>1, <2>1 DEF Observable!Send, Observable!Settle
  <2>4. Drained'
    BY <1>1, <2>1 DEF Drained
  <2> QED BY <2>2, <2>3, <2>4 DEF Effect, FailureIsNews, Observable!Next
<1> QED BY <1>3, <1>4

LEMMA CloseSessionEffect == IInv /\ Drained /\ CloseSession => Effect
<1> SUFFICES ASSUME IInv, Drained, CloseSession PROVE Effect
  OBVIOUS
<1>1. UNCHANGED <<accepted, wire>> /\ closing' = TRUE
  BY DEF CloseSession
<1>2. /\ \/ ending' = ending
         \/ ending = "open" /\ ending' = "closed" /\ queue_out = <<>>
      /\ FailNotified => cs' = "none"
  <2>1. CASE queue_out = <<>>
    BY <2>1 DEF CloseSession, ShutdownAndFail, Shutdown
  <2>2. CASE queue_out # <<>>
    BY <2>2, NoFailure DEF CloseSession
  <2> QED BY <2>1, <2>2
<1>3. ending = "open" /\ queue_out = <<>> => NumberedAt(wire, <<>>, accepted)
  BY DEF IInv, Numbered
<1>4. Drained'
  BY <1>1, <1>2, <1>3 DEF Drained
<1>5. Observable!CloseSession
  <2>1. ending = "open" /\ queue_out = <<>> => Len(wire) = accepted
    <3>1. Len(wire) \in Nat /\ accepted \in Nat /\ Len(<<>>) = 0
      BY DEF IInv, TypeOK
    <3> QED BY <1>3, <3>1 DEF NumberedAt
  <2> QED BY <1>1, <1>2, <2>1 DEF Observable!CloseSession, Observable!Settle
<1> QED BY <1>2, <1>4, <1>5 DEF Effect, FailureIsNews, Observable!Next

LEMMA ConnectEffect == IInv /\ Drained /\ Connect => Effect
<1> SUFFICES ASSUME IInv, Drained, Connect PROVE Effect
  OBVIOUS
<1>1. /\ ending' \in {"never", "open"} /\ UNCHANGED stack
      /\ accepted' = 0 /\ wire' = <<>> /\ closing' = FALSE
  BY DEF Connect
<1>2. ~FailNotified
  BY <1>1, NoFailure
<1>3. Observable!Connect
  BY <1>1 DEF Observable!Connect
<1> QED BY <1>1, <1>2, <1>3 DEF Effect, Drained, FailureIsNews, Observable!Next

LEMMA OperationEffect == IInv /\ Drained /\ Operation => Effect
<1>1. IInv /\ Drained /\ AppShutdown => Effect
  BY EndEffect, NoFailure DEF AppShutdown
<1>2. IInv /\ Drained /\ IdleTime => Effect
  BY QuietEffect, NoFailure DEF IdleTime, historyVars
<1>3. IInv /\ Drained /\ Destroy => Effect
  BY EndEffect, NoFailure DEF Destroy
<1> QED BY <1>1, <1>2, <1>3, SendPDUEffect, CloseSessionEffect, ConnectEffect
        DEF Operation

LEMMA NotifyFailsEffect ==
    ASSUME IInv, Drained, Notified, ShutdownAndFail("lost", <<>>),
           wire' = wire, NotifyUnchanged
    PROVE  Effect
<1>1. ending = "open"
  BY NotifiedFacts
<1> QED BY <1>1, EndEffect DEF ShutdownAndFail, NotifyUnchanged

LEMMA NotifyFlushEffect ==
    ASSUME IInv, Notified, NotifyUnchanged, NEW at \in AtType,
           at.queue = queue_out, at.stack = stack, FlushPDU(at)
    PROVE  Effect
<1>1. ending = "open" /\ NumberedAt(wire, queue_out, accepted)
  BY NotifiedFacts
<1>2. accepted' = accepted /\ closing' = closing
  BY DEF NotifyUnchanged
<1>3. NumberedAt(wire, at.queue, accepted')
  BY <1>1, <1>2
<1> QED BY <1>1, <1>2, <1>3, FlushEffect

LEMMA NotifyQuietEffect ==
    ASSUME IInv, Drained, NotifyUnchanged, UNCHANGED <<wire, ending>>,
           \/ stack' = stack
           \/ \E frame \in Frames \ {"fail"} : stack' = <<frame>>
    PROVE  Effect
BY QuietEffect, NoFailure DEF NotifyUnchanged

LEMMA SocketNotifyEffect == IInv /\ Drained /\ SocketNotify => Effect
<1> SUFFICES ASSUME IInv, Drained, SocketNotify PROVE Effect
  OBVIOUS
<1>1. Notified /\ NotifyUnchanged
  BY DEF SocketNotify, NotifyExcept, NotifyTimeout, NotifyAccepting,
     NotifyConnecting, NotifyWriting, NotifyReady, NotifyClosed, Switch
<1>2. Here \in AtType
  BY HereType
<1>3. CASE NotifyExcept \/ NotifyClosed
  BY <1>1, <1>3, NotifyFailsEffect DEF NotifyExcept, NotifyClosed
<1>4. CASE NotifyTimeout
  BY <1>1, <1>4, NotifyQuietEffect DEF NotifyTimeout, Frames
<1>5. CASE NotifyAccepting
  <2> DEFINE at == [Here EXCEPT !.state = "Ready", !.cs = "up",
                                !.pending = {}]
  <2>1. CASE ShutdownAndFail("lost", <<>>) /\ UNCHANGED wire
    BY <1>1, <2>1, NotifyFailsEffect
  <2>2. CASE FlushPDU(at)
    <3>1. at \in AtType /\ at.queue = queue_out /\ at.stack = stack
      BY <1>2 DEF AtType, Here, States, Comstacks
    <3> HIDE DEF at
    <3> QED BY <1>1, <2>2, <3>1, NotifyFlushEffect
  <2>3. CASE UNCHANGED <<assocVars, stack, wire, partial, ending>>
    BY <1>1, <2>3, NotifyQuietEffect
  <2> QED BY <1>5, <2>1, <2>2, <2>3 DEF NotifyAccepting
<1>6. CASE NotifyConnecting
  BY <1>1, <1>6, NotifyQuietEffect DEF NotifyConnecting, Frames
<1>7. CASE NotifyWriting
  <2> DEFINE at == [Here EXCEPT !.pending = {}]
  <2>1. at \in AtType /\ at.queue = queue_out /\ at.stack = stack
    BY <1>2 DEF AtType, Here
  <2>2. FlushPDU(at)
    BY <1>7 DEF NotifyWriting
  <2> HIDE DEF at
  <2> QED BY <1>1, <2>1, <2>2, NotifyFlushEffect
<1>8. CASE NotifyReady
  <2>1. CASE ShutdownAndFail("lost", <<>>)
    BY <1>1, <1>8, <2>1, NotifyFailsEffect DEF NotifyReady
  <2>2. CASE /\ stack' = stack \/ stack' = <<"recv">>
             /\ ending' = ending
    BY <1>1, <1>8, <2>2, NotifyQuietEffect DEF NotifyReady, Frames
  <2> QED BY <1>8, <2>1, <2>2 DEF NotifyReady
<1> QED BY <1>3, <1>4, <1>5, <1>6, <1>7, <1>8 DEF SocketNotify

LEMMA ReturnEffect == IInv /\ Drained /\ Return => Effect
<1> SUFFICES ASSUME IInv, Drained, Return PROVE Effect
  OBVIOUS
<1>1. CASE ReturnPlain \/ ReturnRecv \/ ReturnRecvDestroyed
  BY <1>1, QuietEffect, NoFailure
     DEF ReturnPlain, ReturnRecv, ReturnRecvDestroyed, Returning, historyVars
<1>2. CASE ReturnConnect
  <2> DEFINE at == [Here EXCEPT !.stack = Tail(stack)]
  <2>1. /\ stack # <<>> /\ Head(stack) = "connect" /\ FlushPDU(at)
        /\ accepted' = accepted /\ closing' = closing
    BY <1>2 DEF ReturnConnect, Returning, NotifyUnchanged
  <2>2. /\ at \in AtType /\ at.state = state /\ at.queue = queue_out
        /\ at.stack = Tail(stack)
    <3>1. stack \in Seq(Frames)
      BY DEF IInv, TypeOK
    <3>2. Tail(stack) \in Seq(Frames)
      BY <2>1, <3>1
    <3>3. Here \in AtType
      BY HereType
    <3> QED BY <3>2, <3>3 DEF AtType, Here
  <2> HIDE DEF at
  <2>3. CASE ending = "open"
    <3>1. NumberedAt(wire, queue_out, accepted)
      BY <2>3 DEF IInv, Numbered
    <3>2. NumberedAt(wire, at.queue, accepted')
      BY <2>1, <2>2, <3>1
    <3>3. Head(stack) # "fail"
      BY <2>1
    <3> QED BY <2>1, <2>2, <2>3, <3>2, <3>3, FlushEffect
  <2>4. CASE ending # "open"
    <3>1. FlushNotReady(at)
      BY <2>1, <2>2, <2>4 DEF IInv, Linked, FlushPDU
    <3> QED BY <2>1, <2>2, <3>1, QuietEffect, NoFailure DEF FlushNotReady
  <2> QED BY <2>3, <2>4
<1> QED BY <1>1, <1>2 DEF Return

LEMMA NextEffect == IInv /\ Drained /\ [Next]_vars => Effect
<1>1. IInv /\ Drained /\ Gather => Effect
  BY QuietEffect, NoFailure DEF Gather, historyVars
<1>2. IInv /\ Drained /\ UNCHANGED vars => Effect
  BY QuietEffect, NoFailure DEF vars, historyVars
<1> QED BY <1>1, <1>2, OperationEffect, SocketNotifyEffect, ReturnEffect
        DEF Next

LEMMA InitDrained == Init => Drained
BY DEF Init, InitClient, InitSession, Drained

(* A connection that close_session ended has written what it accepted, PDU *)
(* by PDU (flush_PDU, close_session).                                      *)
THEOREM DrainedAtClose == Spec => []Drained
<1>1. IInv /\ Drained /\ [Next]_vars => Drained'
  BY NextEffect DEF Effect
<1> QED BY <1>1, InitDrained, Invariance, PTL DEF Spec

(* When close_session has taken effect, at once or after the queue was     *)
(* written (close_session, flush_PDU), every PDU that the connection       *)
(* accepted was written, for any number of PDUs and however callbacks nest.*)
THEOREM GracefulCloseLosesNothing == Spec => []CloseLosesNothing
<1>1. IInv /\ Drained => CloseLosesNothing
  <2> SUFFICES ASSUME IInv, Drained, ending \in {"closed", "silent"}
               PROVE  wire = [i \in 1 .. accepted |-> i]
    BY DEF CloseLosesNothing
  <2>1. wire \in Seq(Nat) /\ accepted \in Nat
    BY DEF IInv, TypeOK
  <2>2. Len(wire) = accepted /\ \A i \in 1 .. Len(wire) : wire[i] = i
    <3>1. Len(<<>>) = 0 /\ Len(wire) \in Nat
      BY <2>1
    <3> QED BY <2>1, <3>1 DEF Drained, NumberedAt
  <2>3. wire \in [1 .. Len(wire) -> Nat]
    BY <2>1, LenProperties
  <2> QED BY <2>2, <2>3
<1> QED BY <1>1, Invariance, DrainedAtClose, PTL

(* failNotify is called once for each connection that ends, when it is     *)
(* shut down already, except by close_session (the calls of failNotify in  *)
(* socketNotify, flush_PDU and close_session).                             *)
THEOREM FailuresAreToldOnce == Spec => FailedOnce
<1>1. IInv /\ Drained /\ [Next]_vars => [FailureIsNews]_vars
  BY NextEffect DEF Effect
<1>2. [FailureIsNews]_vars =>
        [FailNotified => /\ cs' = "none"
                         /\ \/ ending = "open" /\ ending' \in {"lost", "closed"}
                            \/ CloseSession]_vars
  BY DEF FailureIsNews
<1> QED BY <1>1, <1>2, Invariance, DrainedAtClose, PTL DEF Spec, FailedOnce

----------------------------------------------------------------------------
(* A registered association asks for reading or for writing, whatever      *)
(* callback runs: each mask that is ever set has one of the two.           *)
Listens == registered => "read" \in mask \/ "write" \in mask

LEMMA WantsSomething ==
    ASSUME NEW want \in Wants
    PROVE  "read" \in want \/ "write" \in want
<1>1. want # {} /\ want \subseteq RW
  BY DEF Wants
<1>2. PICK e \in want : TRUE
  BY <1>1
<1> QED BY <1>1, <1>2 DEF RW

LEMMA AskListens ==
    ASSUME \E want \in Wants : Ask(want)
    PROVE  Listens'
BY WantsSomething DEF Ask, Listens

LEMMA FlushListens ==
    ASSUME Listens, NEW at, FlushPDU(at)
    PROVE  Listens'
BY DEF Listens, FlushPDU, FlushNotReady, FlushNothing, PutFails,
   PutIncomplete, PutComplete, LastWritten, KeepOpen, KeepWriting,
   ShutdownAndFail, Shutdown, Unregister, Ask, Wants, RW, sockVars

LEMMA NextListens == Listens /\ [Next]_vars => Listens'
<1> SUFFICES ASSUME Listens, [Next]_vars PROVE Listens'
  OBVIOUS
<1>1. CASE SendPDU
  <2>1. CASE UNCHANGED sockVars
    BY <2>1 DEF Listens, sockVars
  <2>2. CASE FlushPDU([Here EXCEPT !.queue = Append(queue_out, accepted + 1)])
    BY <2>2, FlushListens
  <2> QED BY <1>1, <2>1, <2>2 DEF SendPDU, sockVars
<1>2. CASE CloseSession \/ AppShutdown \/ IdleTime \/ Destroy
  BY <1>2 DEF CloseSession, AppShutdown, IdleTime, Destroy, Listens,
     ShutdownAndFail, Shutdown, Unregister, sockVars
<1>3. CASE Connect
  <2>1. CASE Opening
    BY <2>1, WantsSomething DEF Opening, RW, Listens
  <2> QED BY <1>3, <2>1 DEF Connect, Listens
<1>4. CASE Gather \/ NotifyTimeout
  BY <1>4 DEF Gather, NotifyTimeout, Listens, sockVars
<1>5. CASE NotifyExcept \/ NotifyClosed
  BY <1>5 DEF NotifyExcept, NotifyClosed, ShutdownAndFail, Shutdown,
     Unregister, Listens
<1>6. CASE NotifyAccepting
  <2>1. CASE FlushPDU([Here EXCEPT !.state = "Ready", !.cs = "up",
                                   !.pending = {}])
    BY <2>1, FlushListens
  <2>2. CASE ShutdownAndFail("lost", <<>>)
    BY <2>2 DEF ShutdownAndFail, Shutdown, Unregister, Listens
  <2> QED BY <1>6, <2>1, <2>2, AskListens DEF NotifyAccepting
<1>7. CASE NotifyConnecting \/ NotifyReady
  <2>1. CASE ShutdownAndFail("lost", <<>>)
    BY <2>1 DEF ShutdownAndFail, Shutdown, Unregister, Listens
  <2>2. CASE UNCHANGED sockVars
    BY <2>2 DEF sockVars, Listens
  <2> QED BY <1>7, <2>1, <2>2, AskListens DEF NotifyConnecting, NotifyReady
<1>8. CASE NotifyWriting
  BY <1>8, FlushListens DEF NotifyWriting
<1>9. CASE ReturnPlain \/ ReturnRecv \/ ReturnRecvDestroyed
  BY <1>9 DEF ReturnPlain, ReturnRecv, ReturnRecvDestroyed, Ask, RW, Listens,
     sockVars
<1>10. CASE ReturnConnect
  BY <1>10, FlushListens DEF ReturnConnect
<1>11. CASE UNCHANGED vars
  BY <1>11 DEF vars, sockVars, Listens
<1> QED BY <1>1, <1>2, <1>3, <1>4, <1>5, <1>6, <1>7, <1>8, <1>9, <1>10, <1>11
        DEF Next, Operation, SocketNotify, Return

(* Between two events a registered association waits for reading or for    *)
(* writing (every maskObserver of PDU_Assoc), in every use of it.          *)
THEOREM NeverDeaf == Spec => []NotDeaf
<1>1. Init => Listens
  <2>1. InitSession => Listens
    BY WantsSomething DEF InitSession, RW, Listens
  <2> QED BY <2>1 DEF Init, InitClient, Listens
<1>2. Listens => NotDeaf
  BY DEF Listens, NotDeaf, RW
<1> QED BY <1>1, <1>2, NextListens, PTL DEF Spec

----------------------------------------------------------------------------
(* If an association is not connected again after close_session, it is     *)
(* dead only on the connection for which close_session was called.         *)
LEMMA NextAsked ==
    ~ReuseClosed /\ CloseAsked /\ [Next]_vars => CloseAsked'
<1> SUFFICES ASSUME ~ReuseClosed, CloseAsked, [Next]_vars PROVE CloseAsked'
  OBVIOUS
<1>1. CASE UNCHANGED <<m_session_is_dead, closing>>
  BY <1>1 DEF CloseAsked
<1>2. CASE CloseSession
  BY <1>2 DEF CloseSession, CloseAsked
<1>3. CASE Connect
  BY <1>3 DEF Connect, CloseAsked
<1>4. \/ CloseSession \/ Connect
      \/ UNCHANGED <<m_session_is_dead, closing>>
  BY DEF Next, Operation, SendPDU, AppShutdown, IdleTime, Destroy, Gather,
     SocketNotify, NotifyExcept, NotifyTimeout, NotifyAccepting,
     NotifyConnecting, NotifyWriting, NotifyReady, NotifyClosed,
     NotifyUnchanged, Return, ReturnPlain, ReturnRecv, ReturnRecvDestroyed,
     ReturnConnect, historyVars, vars
<1> QED BY <1>1, <1>2, <1>3, <1>4

(* An association that is not connected again after close_session          *)
(* implements IPduObservable: PDUs leave once and in order, and only       *)
(* close_session closes a connection, after all was written (send_PDU,     *)
(* flush_PDU, close_session, shutdown).                                    *)
THEOREM AssocImplementsObservable ==
    ASSUME ~ReuseClosed
    PROVE  Spec => ImplementsPduObservable
<1>1. Init => Observable!Init /\ CloseAsked
  BY DEF Init, InitClient, InitSession, Observable!Init, CloseAsked
<1>2. CloseAsked /\ [Next]_vars => CloseAsked'
  BY NextAsked
<1>3. IInv /\ Drained /\ CloseAsked /\ [Next]_vars
        => [Observable!Next]_(Observable!vars)
  BY NextEffect DEF Effect
<1> QED BY <1>1, <1>2, <1>3, Invariance, DrainedAtClose, PTL
        DEF Spec, ImplementsPduObservable, Observable!Spec
=============================================================================
