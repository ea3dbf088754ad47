------------------------- MODULE SessionTreeProofs -------------------------
(***************************************************************************)
(* Theorems about SessionTree, for any number of sessions and any nesting  *)
(* of callbacks.                                                           *)
(*                                                                         *)
(* A session object that lives and has its association is exactly one      *)
(* whose association has a parent (OwnersMatch), the parent's list and the *)
(* pointers to it agree (ListMatchesParents), and sessionNotify runs only  *)
(* below everything else and for an association nobody owns yet            *)
(* (FramesKept).  So whatever ends the listener reaches every association. *)
(***************************************************************************)
EXTENDS SessionTree, ListOpsProofs

(* Associations have a parent while a session object owns them.            *)
OwnersMatch ==
    \A s \in Sessions :
        /\ parent[s] <=> owner[s] = "lives" /\ assoc[s] \in {"open", "closed"}
        /\ assoc[s] = "none" => owner[s] = "none"

(* Nothing is left of a listener whose server was deleted.                 *)
ServerGone == ~server => children = <<>> /\ lstate = "closed"

(* What the callbacks that run go on to use.                               *)
FramesKept ==
    \A i \in DOMAIN stack :
        /\ stack[i].call = "session" =>
               /\ i = Len(stack)
               /\ server
               /\ stack[i].of \in Sessions
               /\ owner[stack[i].of] = "none"
               /\ assoc[stack[i].of] = "open"
        /\ stack[i].call = "recv" =>
               /\ stack[i].of \in Sessions
               /\ ~ServerDies => assoc[stack[i].of] # "deleted"

IInv ==
    /\ TypeOK /\ ListMatchesParents /\ OwnersMatch /\ ServerGone
    /\ FramesKept /\ EventsHaveReceivers /\ NothingLeaks

Call == [call : Calls, of : Parties]

----------------------------------------------------------------------------
(* Facts about the stack of callbacks.                                     *)

(* A call puts its frame in front of the others.                           *)
LEMMA PushProperties ==
    ASSUME stack \in Seq(Call), NEW c \in Calls, NEW x \in Parties, Push(c, x)
    PROVE  /\ stack' \in Seq(Call)
           /\ Len(stack') = Len(stack) + 1 /\ Len(stack) \in Nat
           /\ DOMAIN stack' = 1 .. Len(stack) + 1
           /\ DOMAIN stack = 1 .. Len(stack)
           /\ stack'[1] = [call |-> c, of |-> x]
           /\ \A i \in DOMAIN stack : stack'[i + 1] = stack[i]
           /\ Head(stack') = [call |-> c, of |-> x]
  <1>1. Frame(c, x) \in Call /\ Frame(c, x) = [call |-> c, of |-> x]
    BY DEF Frame, Call
  <1>2. stack' = <<Frame(c, x)>> \o stack
    BY DEF Push
  <1> QED
    BY <1>1, <1>2

(* A return takes the front frame away.                                    *)
LEMMA PopProperties ==
    ASSUME stack \in Seq(Call), stack # <<>>, stack' = Tail(stack)
    PROVE  /\ stack' \in Seq(Call) /\ Head(stack) \in Call
           /\ Head(stack) = stack[1] /\ 1 \in DOMAIN stack
           /\ Len(stack') = Len(stack) - 1 /\ Len(stack) \in Nat
           /\ DOMAIN stack' = 1 .. Len(stack) - 1
           /\ DOMAIN stack = 1 .. Len(stack)
           /\ \A i \in DOMAIN stack' :
                  i + 1 \in DOMAIN stack /\ stack'[i] = stack[i + 1]
  OBVIOUS

(* The callback that a step may start on top of those that run, other than *)
(* sessionNotify.                                                          *)
Calls1(c, x) ==
    /\ c \in {"recv", "fail", "timeout"} /\ x \in Parties
    /\ c = "recv" => x \in Sessions /\ assoc'[x] # "deleted"
    /\ Push(c, x)

(* Shutting down associations that have a parent and starting a callback   *)
(* keeps what the frames promise.                                          *)
LEMMA FramesAfterClose ==
    ASSUME IInv, NEW S \in SUBSET Sessions, \A s \in S : parent[s],
           assoc' = Closed(S), server' = server, owner' = owner,
           stack' = stack \/ \E c \in Calls, x \in Parties : Calls1(c, x)
    PROVE  /\ stack' \in Seq(Call)
           /\ FramesKept'
           /\ \A s \in Sessions :
                  (\E i \in DOMAIN stack : stack[i] = Frame("session", s))
                  => (\E i \in DOMAIN stack' : stack'[i] = Frame("session", s))
  <1>1. stack \in Seq(Call)
    BY DEF IInv, TypeOK, Call
  <1>2. \A s \in Sessions :
            /\ s \notin S => assoc'[s] = assoc[s]
            /\ s \in S => assoc'[s] = "closed"
    BY DEF Closed
  <1>3. ASSUME NEW s \in Sessions, owner[s] = "none"
        PROVE  s \notin S
    BY <1>3 DEF IInv, OwnersMatch
  <1>4. ASSUME NEW i \in DOMAIN stack
        PROVE  /\ stack[i].call = "session" =>
                      /\ i = Len(stack) /\ server
                      /\ stack[i].of \in Sessions
                      /\ owner[stack[i].of] = "none"
                      /\ assoc'[stack[i].of] = "open"
               /\ stack[i].call = "recv" =>
                      /\ stack[i].of \in Sessions
                      /\ ~ServerDies => assoc'[stack[i].of] # "deleted"
    BY <1>2, <1>3 DEF IInv, FramesKept
  <1>5. CASE stack' = stack
    BY <1>1, <1>4, <1>5 DEF FramesKept
  <1>6. ASSUME NEW c \in Calls, NEW x \in Parties, Calls1(c, x)
        PROVE  /\ stack' \in Seq(Call)
               /\ FramesKept'
               /\ \A i \in DOMAIN stack :
                      i + 1 \in DOMAIN stack' /\ stack'[i + 1] = stack[i]
    <2>1. /\ stack' \in Seq(Call)
          /\ Len(stack') = Len(stack) + 1 /\ Len(stack) \in Nat
          /\ DOMAIN stack' = 1 .. Len(stack) + 1
          /\ DOMAIN stack = 1 .. Len(stack)
          /\ stack'[1] = [call |-> c, of |-> x]
          /\ \A i \in DOMAIN stack : stack'[i + 1] = stack[i]
      BY <1>1, <1>6, PushProperties DEF Calls1
    <2>2. \A i \in DOMAIN stack' :
              \/ i = 1
              \/ i - 1 \in DOMAIN stack /\ stack'[i] = stack[i - 1]
      BY <2>1
    <2>3. /\ c # "session"
          /\ c = "recv" => x \in Sessions /\ assoc'[x] # "deleted"
      BY <1>6 DEF Calls1
    <2>4. FramesKept'
      BY <1>4, <2>1, <2>2, <2>3 DEF FramesKept
    <2> QED
      BY <2>1, <2>4
  <1> QED
    BY <1>5, <1>6

(* A step that shuts down associations which have a parent, and maybe the  *)
(* listener, and maybe starts a callback.                                  *)
LEMMA CloseStep ==
    ASSUME IInv, NEW S \in SUBSET Sessions, \A s \in S : parent[s],
           assoc' = Closed(S), pending' \subseteq pending \ S,
           UNCHANGED <<server, children, parent, owner>>,
           \/ lstate' = lstate
           \/ /\ lstate' \in {"closed", "bound", "listening"}
              /\ Listener \notin pending'
              /\ server \/ lstate' = "closed",
           asked' \in [Sessions -> BOOLEAN], told' \in [Sessions -> BOOLEAN],
           stack' = stack \/ \E c \in Calls, x \in Parties : Calls1(c, x)
    PROVE  IInv'
  <1>1. /\ stack' \in Seq(Call)
        /\ FramesKept'
        /\ \A s \in Sessions :
               (\E i \in DOMAIN stack : stack[i] = Frame("session", s))
               => (\E i \in DOMAIN stack' : stack'[i] = Frame("session", s))
    BY FramesAfterClose
  <1>2. \A s \in Sessions :
            /\ s \notin S => assoc'[s] = assoc[s]
            /\ s \in S => assoc'[s] = "closed"
    BY DEF Closed
  <1>3. \A s \in S : owner[s] = "lives" /\ assoc[s] \in {"open", "closed"}
    BY DEF IInv, OwnersMatch
  <1>4. TypeOK'
    <2>1. assoc' \in [Sessions -> {"none", "open", "closed", "deleted"}]
      BY DEF IInv, TypeOK, Closed
    <2>2. pending' \in SUBSET Parties
      BY DEF IInv, TypeOK
    <2>3. lstate' \in {"closed", "bound", "listening"}
      BY DEF IInv, TypeOK
    <2> QED
      BY <1>1, <2>1, <2>2, <2>3 DEF IInv, TypeOK, Call
  <1>5. ListMatchesParents'
    <2>1. Elements(children)' = Elements(children)
          /\ Elements(children) \subseteq Sessions
      BY DEF Elements, IInv, TypeOK
    <2> QED
      BY <1>2, <2>1 DEF IInv, ListMatchesParents, NoRepeats
  <1>6. OwnersMatch'
    BY <1>2, <1>3 DEF IInv, OwnersMatch
  <1>7. ServerGone'
    BY DEF IInv, ServerGone
  <1>8. EventsHaveReceivers'
    <2>1. ASSUME NEW x \in pending'
          PROVE  x \in Registered'
      <3>1. x \in Registered /\ x \notin S
        BY DEF IInv, EventsHaveReceivers
      <3>2. CASE x \in Sessions
        BY <1>2, <3>1, <3>2, TreeConstants DEF Registered, TreeConstants
      <3>3. CASE x \notin Sessions
        <4>1. x = Listener /\ lstate = "listening"
          BY <3>1, <3>3 DEF Registered
        <4>2. lstate' = "listening"
          BY <2>1, <4>1
        <4> QED
          BY <4>1, <4>2 DEF Registered
      <3> QED
        BY <3>2, <3>3
    <2> QED
      BY <2>1 DEF EventsHaveReceivers
  <1>9. NothingLeaks'
    BY <1>1, <1>2, <1>3 DEF IInv, NothingLeaks, Frame
  <1> QED
    BY <1>1, <1>4, <1>5, <1>6, <1>7, <1>8, <1>9 DEF IInv

----------------------------------------------------------------------------
(* The actions.                                                            *)

LEMMA InitIInv == Init => IInv
  <1> SUFFICES ASSUME Init
               PROVE  IInv
    OBVIOUS
  <1> USE DEF Init
  <1>1. TypeOK
    BY DEF TypeOK
  <1>2. ListMatchesParents
    BY DEF ListMatchesParents, NoRepeats, Elements
  <1>3. OwnersMatch /\ ServerGone /\ FramesKept
    BY DEF OwnersMatch, ServerGone, FramesKept
  <1>4. EventsHaveReceivers /\ NothingLeaks
    BY DEF EventsHaveReceivers, NothingLeaks
  <1> QED
    BY <1>1, <1>2, <1>3, <1>4 DEF IInv

(* The children of the listener are the associations with a parent.        *)
LEMMA ChildrenHaveParents ==
    ASSUME IInv
    PROVE  /\ Elements(children) \in SUBSET Sessions
           /\ \A s \in Elements(children) : parent[s]
  BY DEF IInv, ListMatchesParents

LEMMA StepListener ==
    ASSUME IInv, Listen \/ ListenNowhere \/ ShutdownServer
    PROVE  IInv'
  <1>1. CASE Listen \/ ShutdownServer
    <2> DEFINE S == Elements(children)
    <2>1. /\ assoc' = Closed(S) /\ pending' = pending \ (S \cup {Listener})
          /\ UNCHANGED <<server, children, parent, owner, stack, asked, told>>
          /\ lstate' \in {"closed", "bound", "listening"} /\ server
      BY <1>1 DEF Listen, ShutdownServer, ShutdownListener, Unqueue
    <2>2. S \in SUBSET Sessions /\ \A s \in S : parent[s]
      BY ChildrenHaveParents
    <2>3. asked' \in [Sessions -> BOOLEAN] /\ told' \in [Sessions -> BOOLEAN]
      BY <2>1 DEF IInv, TypeOK
    <2> HIDE DEF S
    <2>4. pending' \subseteq pending \ S /\ Listener \notin pending'
      BY <2>1
    <2> QED
      BY <2>1, <2>2, <2>3, <2>4, CloseStep
  <1>2. CASE ListenNowhere
    <2>1. /\ pending' = pending \ {Listener} /\ lstate' = "closed"
          /\ UNCHANGED <<server, children, assoc, parent, owner, stack, asked,
                         told>>
      BY <1>2 DEF ListenNowhere, Unqueue, treeVars
    <2>2. assoc' = Closed({})
      BY <2>1 DEF IInv, TypeOK, Closed
    <2>3. asked' \in [Sessions -> BOOLEAN] /\ told' \in [Sessions -> BOOLEAN]
      BY <2>1 DEF IInv, TypeOK
    <2>4. pending' \subseteq pending \ {} /\ Listener \notin pending'
      BY <2>1
    <2> QED
      BY <2>1, <2>2, <2>3, <2>4, CloseStep
  <1> QED
    BY <1>1, <1>2

(* failNotify for a session.                                               *)
LEMMA TellFailedCalls ==
    ASSUME IInv, NEW s \in Sessions, TellFailed(s)
    PROVE  /\ told' \in [Sessions -> BOOLEAN]
           /\ \E c \in Calls, x \in Parties : Calls1(c, x)
  <1>1. "fail" \in Calls /\ s \in Parties /\ Push("fail", s)
    BY DEF TellFailed, Calls, Parties
  <1>2. Calls1("fail", s)
    BY <1>1 DEF Calls1
  <1>3. told' \in [Sessions -> BOOLEAN]
    BY DEF TellFailed, IInv, TypeOK
  <1> QED
    BY <1>1, <1>2, <1>3

LEMMA StepSession ==
    ASSUME IInv, NEW s \in Sessions,
           ShutdownSession(s) \/ CloseSession(s) \/ SendFails(s)
    PROVE  IInv'
  <1>1. parent[s]
    BY DEF ShutdownSession, CloseSession, SendFails, Owns, IInv, OwnersMatch
  <1>2. UNCHANGED <<server, lstate, children, parent, owner>>
    BY DEF ShutdownSession, CloseSession, SendFails
  <1>3. asked' \in [Sessions -> BOOLEAN]
    BY DEF ShutdownSession, CloseSession, SendFails, IInv, TypeOK
  <1>4. CASE UNCHANGED <<assoc, pending, stack, told>>
    <2>1. assoc' = Closed({})
      BY <1>4 DEF IInv, TypeOK, Closed
    <2>2. told' \in [Sessions -> BOOLEAN]
      BY <1>4 DEF IInv, TypeOK
    <2>3. pending' \subseteq pending \ {}
      BY <1>4
    <2> QED
      BY <1>2, <1>3, <1>4, <2>1, <2>2, <2>3, CloseStep
  <1>5. CASE ShutdownOf(s) /\ UNCHANGED <<stack, told>>
    <2>1. assoc' = Closed({s}) /\ pending' \subseteq pending \ {s}
      BY <1>5 DEF ShutdownOf, Unqueue
    <2>2. told' \in [Sessions -> BOOLEAN]
      BY <1>5 DEF IInv, TypeOK
    <2>3. {s} \in SUBSET Sessions /\ \A t \in {s} : parent[t]
      BY <1>1
    <2> QED
      BY <1>2, <1>3, <1>5, <2>1, <2>2, <2>3, CloseStep
  <1>6. CASE ShutdownOf(s) /\ TellFailed(s)
    <2>1. assoc' = Closed({s}) /\ pending' \subseteq pending \ {s}
      BY <1>6 DEF ShutdownOf, Unqueue
    <2>2. /\ told' \in [Sessions -> BOOLEAN]
          /\ \E c \in Calls, x \in Parties : Calls1(c, x)
      BY <1>6, TellFailedCalls
    <2>3. {s} \in SUBSET Sessions /\ \A t \in {s} : parent[t]
      BY <1>1
    <2> QED
      BY <1>2, <1>3, <2>1, <2>2, <2>3, CloseStep
  <1>7. \/ UNCHANGED <<assoc, pending, stack, told>>
        \/ ShutdownOf(s) /\ UNCHANGED <<stack, told>>
        \/ ShutdownOf(s) /\ TellFailed(s)
    BY DEF ShutdownSession, CloseSession, SendFails
  <1> QED
    BY <1>4, <1>5, <1>6, <1>7

(* What the socket manager reports for an association that exists.         *)
LEMMA DeliveredToOwner ==
    ASSUME IInv, NEW s \in Sessions, Delivered(s)
    PROVE  parent[s] /\ assoc[s] = "open" /\ owner[s] = "lives"
  <1>1. s \in Registered /\ stack = <<>>
    BY DEF Delivered, IInv, EventsHaveReceivers
  <1>2. assoc[s] = "open"
    BY <1>1, TreeConstants DEF Registered, TreeConstants
  <1>3. owner[s] = "lives"
    BY <1>1, <1>2 DEF IInv, NothingLeaks
  <1> QED
    BY <1>2, <1>3 DEF IInv, OwnersMatch

LEMMA StepSessionEvent ==
    ASSUME IInv, NEW s \in Sessions,
           SessionEvent(s) \/ SessionLost(s) \/ SessionCloses(s)
    PROVE  IInv'
  <1>1. parent[s] /\ assoc[s] = "open"
    BY DeliveredToOwner DEF SessionEvent, SessionLost, SessionCloses
  <1>2. UNCHANGED <<server, lstate, children, parent, owner, asked>>
    BY DEF SessionEvent, SessionLost, SessionCloses, treeVars
  <1>3. asked' \in [Sessions -> BOOLEAN]
    BY <1>2 DEF IInv, TypeOK
  <1>4. {s} \in SUBSET Sessions /\ \A t \in {s} : parent[t]
    BY <1>1
  <1>5. CASE SessionEvent(s)
    <2>1. /\ pending' \subseteq pending \ {} /\ UNCHANGED <<assoc, told>>
          /\ Push("recv", s) \/ Push("timeout", s) \/ UNCHANGED stack
      BY <1>5 DEF SessionEvent, Unqueue, treeVars
    <2>2. assoc' = Closed({}) /\ told' \in [Sessions -> BOOLEAN]
      BY <2>1 DEF IInv, TypeOK, Closed
    <2>3. \A c \in {"recv", "timeout"} : Push(c, s) => Calls1(c, s)
      BY <1>1, <2>1 DEF Calls1, Parties
    <2>4. stack' = stack \/ \E c \in Calls, x \in Parties : Calls1(c, x)
      BY <2>1, <2>3 DEF Calls, Parties
    <2> QED
      BY <1>2, <1>3, <2>1, <2>2, <2>4, CloseStep
  <1>6. CASE SessionLost(s)
    <2>1. assoc' = Closed({s}) /\ pending' \subseteq pending \ {s}
          /\ TellFailed(s)
      BY <1>6 DEF SessionLost, ShutdownOf, Unqueue
    <2>2. /\ told' \in [Sessions -> BOOLEAN]
          /\ \E c \in Calls, x \in Parties : Calls1(c, x)
      BY <2>1, TellFailedCalls
    <2> QED
      BY <1>2, <1>3, <1>4, <2>1, <2>2, CloseStep
  <1>7. CASE SessionCloses(s)
    <2>1. assoc' = Closed({s}) /\ pending' \subseteq pending \ {s}
          /\ UNCHANGED <<stack, told>>
      BY <1>7 DEF SessionCloses, ShutdownOf, Unqueue
    <2>2. told' \in [Sessions -> BOOLEAN]
      BY <2>1 DEF IInv, TypeOK
    <2> QED
      BY <1>2, <1>3, <1>4, <2>1, <2>2, CloseStep
  <1> QED
    BY <1>5, <1>6, <1>7

(* An event for the listener means that the server is there.               *)
LEMMA DeliveredToServer ==
    ASSUME IInv, Delivered(Listener)
    PROVE  server /\ stack = <<>>
  <1>1. Listener \in Registered /\ stack = <<>>
    BY DEF Delivered, IInv, EventsHaveReceivers
  <1>2. lstate = "listening"
    BY <1>1, TreeConstants DEF Registered, TreeConstants
  <1> QED
    BY <1>1, <1>2 DEF IInv, ServerGone, TypeOK

LEMMA StepListenerEvent ==
    ASSUME IInv, ListenerIdle \/ ListenerFails
    PROVE  IInv'
  <1>1. server
    BY DeliveredToServer DEF ListenerIdle, ListenerFails
  <1>2. /\ UNCHANGED <<server, children, parent, owner, asked, told>>
        /\ asked' \in [Sessions -> BOOLEAN] /\ told' \in [Sessions -> BOOLEAN]
    BY DEF ListenerIdle, ListenerFails, treeVars, IInv, TypeOK
  <1>3. \A c \in {"fail", "timeout"} : Push(c, Listener) => Calls1(c, Listener)
    BY DEF Calls1, Parties
  <1>4. CASE ListenerIdle
    <2>1. /\ pending' \subseteq pending \ {} /\ UNCHANGED <<assoc, lstate>>
          /\ Push("timeout", Listener) \/ UNCHANGED stack
      BY <1>4 DEF ListenerIdle, Unqueue, treeVars
    <2>2. assoc' = Closed({})
      BY <2>1 DEF IInv, TypeOK, Closed
    <2>3. stack' = stack \/ \E c \in Calls, x \in Parties : Calls1(c, x)
      BY <1>3, <2>1 DEF Calls, Parties
    <2> QED
      BY <1>2, <2>1, <2>2, <2>3, CloseStep
  <1>5. CASE ListenerFails
    <2> DEFINE S == Elements(children)
    <2>1. /\ assoc' = Closed(S) /\ pending' = pending \ (S \cup {Listener})
          /\ lstate' = "closed" /\ Push("fail", Listener)
      BY <1>5 DEF ListenerFails, ShutdownListener, Unqueue
    <2>2. S \in SUBSET Sessions /\ \A s \in S : parent[s]
      BY ChildrenHaveParents
    <2> HIDE DEF S
    <2>3. pending' \subseteq pending \ S /\ Listener \notin pending'
      BY <2>1
    <2>4. \E c \in Calls, x \in Parties : Calls1(c, x)
      BY <1>3, <2>1 DEF Calls, Parties
    <2> QED
      BY <1>1, <1>2, <2>1, <2>2, <2>3, <2>4, CloseStep
  <1> QED
    BY <1>4, <1>5

LEMMA StepDeleteServer ==
    ASSUME IInv, DeleteServer
    PROVE  IInv'
  <1> USE DEF DeleteServer
  <1> DEFINE S == Elements(children)
  <1>1. S \in SUBSET Sessions /\ S = {s \in Sessions : parent[s]}
    BY DEF IInv, ListMatchesParents
  <1> HIDE DEF S
  <1>2. /\ server' = FALSE /\ lstate' = "closed" /\ children' = <<>>
        /\ UNCHANGED <<owner, stack, asked, told>>
        /\ pending' = pending \ (S \cup {Listener})
    BY DEF Unqueue, S
  <1>3. /\ \A s \in S : assoc'[s] = "deleted" /\ owner[s] = "lives"
        /\ \A s \in Sessions \ S : assoc'[s] = assoc[s]
        /\ \A s \in Sessions : ~parent'[s]
    BY <1>1 DEF S, IInv, OwnersMatch
  <1>4. \A i \in DOMAIN stack :
            /\ stack[i].call # "session"
            /\ stack[i].call = "recv" => ServerDies
    BY DEF MayDeleteServer
  <1>5. TypeOK'
    <2>1. /\ assoc' \in [Sessions -> {"none", "open", "closed", "deleted"}]
          /\ parent' \in [Sessions -> BOOLEAN]
      BY DEF IInv, TypeOK
    <2>2. children' \in Seq(Sessions) /\ pending' \in SUBSET Parties
      BY <1>2 DEF IInv, TypeOK
    <2> QED
      BY <1>2, <2>1, <2>2 DEF IInv, TypeOK
  <1>6. ListMatchesParents'
    BY <1>2, <1>3 DEF ListMatchesParents, NoRepeats, Elements
  <1>7. OwnersMatch'
    BY <1>1, <1>2, <1>3 DEF IInv, OwnersMatch
  <1>8. ServerGone'
    BY <1>2 DEF ServerGone
  <1>9. FramesKept'
    BY <1>2, <1>4 DEF IInv, FramesKept
  <1>10. EventsHaveReceivers'
    <2>1. ASSUME NEW x \in pending'
          PROVE  x \in Sessions /\ assoc'[x] = "open"
      <3>1. x \in Registered /\ x \notin S /\ x # Listener
        BY <1>2 DEF IInv, EventsHaveReceivers
      <3> QED
        BY <1>3, <3>1 DEF Registered
    <2> QED
      BY <2>1 DEF EventsHaveReceivers, Registered
  <1>11. NothingLeaks'
    BY <1>2, <1>3, <1>4 DEF IInv, NothingLeaks
  <1> QED
    BY <1>5, <1>6, <1>7, <1>8, <1>9, <1>10, <1>11 DEF IInv

LEMMA StepDeleteSession ==
    ASSUME IInv, NEW s \in Sessions, DeleteSession(s)
    PROVE  IInv'
  <1> USE DEF DeleteSession
  <1>1. /\ parent[s] /\ owner[s] = "lives"
        /\ pending' = pending \ {s} /\ children' = Unlink(s)
        /\ stack' = MarkDestroyed(s)
        /\ UNCHANGED <<server, lstate, asked, told>>
    BY DEF Owns, Unqueue, IInv, OwnersMatch
  <1>2. /\ assoc'[s] = "deleted" /\ owner'[s] = "gone" /\ ~parent'[s]
        /\ \A t \in Sessions \ {s} :
               /\ assoc'[t] = assoc[t] /\ owner'[t] = owner[t]
               /\ parent'[t] = parent[t]
    BY DEF IInv, TypeOK
  <1>3. /\ children' \in Seq(Sessions)
        /\ Elements(children)' = Elements(children) \ {s}
        /\ NoRepeats(children)'
    <2> DEFINE K == {i \in DOMAIN children : children[i] # s}
    <2>1. children \in Seq(Sessions) /\ K \in SUBSET (DOMAIN children)
          /\ NoRepeats(children)
      BY DEF IInv, TypeOK, ListMatchesParents
    <2>2. children' = Subsequence(children, K)
      BY <1>1 DEF Unlink
    <2>3. /\ Subsequence(children, K) \in Seq(Sessions)
          /\ Elements(Subsequence(children, K)) = {children[i] : i \in K}
          /\ NoRepeats(Subsequence(children, K))
      BY <2>1, SubsequenceProperties
    <2>4. {children[i] : i \in K} = Elements(children) \ {s}
      BY DEF Elements
    <2>5. /\ Elements(children)' = Elements(Subsequence(children, K))
          /\ NoRepeats(children)' = NoRepeats(Subsequence(children, K))
      BY <2>2 DEF Elements, NoRepeats
    <2> QED
      BY <2>2, <2>3, <2>4, <2>5
  <1>4. /\ stack' \in Seq(Call) /\ DOMAIN stack' = DOMAIN stack
        /\ Len(stack') = Len(stack)
        /\ \A i \in DOMAIN stack :
               \/ stack'[i] = stack[i] /\ stack[i] # Frame("recv", s)
               \/ stack'[i] = [call |-> "recv_destroyed", of |-> s]
                  /\ stack[i] = [call |-> "recv", of |-> s]
    <2>1. stack \in Seq(Call)
      BY DEF IInv, TypeOK, Call
    <2>2. Frame("recv_destroyed", s) \in Call
      BY DEF Frame, Call, Calls, Parties
    <2> DEFINE mark(i) == IF stack[i] = Frame("recv", s)
                          THEN Frame("recv_destroyed", s) ELSE stack[i]
    <2>3. stack' = [i \in DOMAIN stack |-> mark(i)]
      BY <1>1 DEF MarkDestroyed
    <2>4. \A i \in DOMAIN stack : mark(i) \in Call
      BY <2>1, <2>2
    <2>5. \A i \in DOMAIN stack :
              \/ mark(i) = stack[i] /\ stack[i] # Frame("recv", s)
              \/ mark(i) = Frame("recv_destroyed", s)
                 /\ stack[i] = Frame("recv", s)
      OBVIOUS
    <2> HIDE DEF mark, DeleteSession
    <2>6. DOMAIN stack = 1 .. Len(stack) /\ Len(stack) \in Nat
      BY <2>1
    <2>7. stack' \in Seq(Call)
      BY <2>3, <2>4, <2>6
    <2>8. DOMAIN stack' = DOMAIN stack /\ Len(stack') = Len(stack)
      BY <2>3, <2>6
    <2>9. \A i \in DOMAIN stack : stack'[i] = mark(i)
      BY <2>3
    <2> QED
      BY <2>5, <2>7, <2>8, <2>9 DEF Frame
  <1>5. TypeOK'
    <2>1. /\ assoc' \in [Sessions -> {"none", "open", "closed", "deleted"}]
          /\ parent' \in [Sessions -> BOOLEAN]
          /\ owner' \in [Sessions -> {"none", "lives", "gone"}]
      BY DEF IInv, TypeOK
    <2>2. pending' \in SUBSET Parties
      BY <1>1 DEF IInv, TypeOK
    <2> QED
      BY <1>1, <1>3, <1>4, <2>1, <2>2 DEF IInv, TypeOK, Call
  <1>6. ListMatchesParents'
    BY <1>2, <1>3 DEF IInv, ListMatchesParents
  <1>7. OwnersMatch'
    BY <1>2 DEF IInv, OwnersMatch
  <1>8. ServerGone'
    <2>1. ~server => Elements(children) = {}
      BY DEF IInv, ServerGone, Elements
    <2>2. server
      BY <1>1, <2>1 DEF IInv, ListMatchesParents
    <2> QED
      BY <1>1, <2>2 DEF ServerGone
  <1>9. FramesKept'
    <2>1. ASSUME NEW i \in DOMAIN stack', stack'[i].call = "session"
          PROVE  stack'[i] = stack[i] /\ stack[i].of # s
      <3>1. stack'[i] = stack[i] /\ stack[i].call = "session"
        BY <1>4, <2>1
      <3> QED
        BY <1>1, <1>4, <3>1 DEF IInv, FramesKept
    <2>2. ASSUME NEW i \in DOMAIN stack', stack'[i].call = "recv"
          PROVE  stack'[i] = stack[i] /\ stack[i].of # s
      <3>1. stack'[i] = stack[i] /\ stack[i] # Frame("recv", s)
        BY <1>4, <2>2
      <3>2. stack[i] \in Call
        <4>1. stack \in Seq(Call) /\ i \in DOMAIN stack
          BY <1>4 DEF IInv, TypeOK, Call
        <4> QED
          BY <4>1
      <3> QED
        BY <2>2, <3>1, <3>2 DEF Frame, Call
    <2> QED
      BY <1>1, <1>2, <1>4, <2>1, <2>2 DEF IInv, FramesKept
  <1>10. EventsHaveReceivers'
    <2>1. ASSUME NEW x \in pending'
          PROVE  x \in Registered'
      <3>1. x \in Registered /\ x # s
        BY <1>1 DEF IInv, EventsHaveReceivers
      <3> QED
        BY <1>1, <1>2, <3>1 DEF Registered
    <2> QED
      BY <2>1 DEF EventsHaveReceivers
  <1>11. NothingLeaks'
    <2>1. ASSUME NEW t \in Sessions, assoc'[t] \in {"open", "closed"},
                 owner'[t] # "lives"
          PROVE  \E i \in DOMAIN stack' : stack'[i] = Frame("session", t)
      <3>1. t # s /\ assoc[t] \in {"open", "closed"} /\ owner[t] # "lives"
        BY <1>2, <2>1
      <3>2. PICK i \in DOMAIN stack : stack[i] = Frame("session", t)
        BY <3>1 DEF IInv, NothingLeaks
      <3>3. stack'[i] = stack[i]
        BY <1>4, <3>2 DEF Frame
      <3> QED
        BY <1>4, <3>2, <3>3
    <2> QED
      BY <2>1 DEF NothingLeaks
  <1> QED
    BY <1>5, <1>6, <1>7, <1>8, <1>9, <1>10, <1>11 DEF IInv

LEMMA StepGather ==
    ASSUME IInv, Gather
    PROVE  IInv'
  <1> USE DEF Gather, treeVars
  <1>1. UNCHANGED <<server, lstate, children, assoc, parent, owner, stack,
                    asked, told>>
    OBVIOUS
  <1>2. pending' \subseteq Registered /\ Registered' = Registered
    BY <1>1 DEF Registered
  <1>3. TypeOK'
    <2>1. pending' \in SUBSET Parties
      BY <1>2 DEF Registered, Parties
    <2> QED
      BY <1>1, <2>1 DEF IInv, TypeOK
  <1>4. ListMatchesParents'
    BY <1>1 DEF IInv, ListMatchesParents, NoRepeats, Elements
  <1>5. OwnersMatch' /\ ServerGone' /\ FramesKept'
    BY <1>1 DEF IInv, OwnersMatch, ServerGone, FramesKept
  <1>6. EventsHaveReceivers' /\ NothingLeaks'
    BY <1>1, <1>2 DEF IInv, EventsHaveReceivers, NothingLeaks
  <1> QED
    BY <1>3, <1>4, <1>5, <1>6 DEF IInv

LEMMA StepChildNotify ==
    ASSUME IInv, ChildNotify
    PROVE  IInv'
  <1> USE DEF ChildNotify
  <1>1. PICK s \in Sessions :
            /\ assoc[s] = "none"
            /\ assoc' = [assoc EXCEPT ![s] = "open"]
            /\ Push("session", s)
    OBVIOUS
  <1>2. /\ UNCHANGED <<server, lstate, children, parent, owner, asked, told>>
        /\ pending' = pending \ {Listener}
        /\ server /\ stack = <<>>
    BY DeliveredToServer DEF Unqueue
  <1>3. /\ owner[s] = "none" /\ ~parent[s]
        /\ assoc'[s] = "open"
        /\ \A t \in Sessions \ {s} : assoc'[t] = assoc[t]
    BY <1>1 DEF IInv, TypeOK, OwnersMatch
  <1>4. /\ stack' \in Seq(Call)
        /\ DOMAIN stack' = {1} /\ Len(stack') = 1
        /\ stack'[1] = [call |-> "session", of |-> s]
    <2>1. stack' = <<[call |-> "session", of |-> s]>>
      BY <1>1, <1>2 DEF Push, Frame
    <2>2. [call |-> "session", of |-> s] \in Call
      BY DEF Call, Calls, Parties
    <2> QED
      BY <2>1, <2>2
  <1>5. TypeOK'
    <2>1. assoc' \in [Sessions -> {"none", "open", "closed", "deleted"}]
      BY <1>1 DEF IInv, TypeOK
    <2>2. pending' \in SUBSET Parties
      BY <1>2 DEF IInv, TypeOK
    <2> QED
      BY <1>2, <1>4, <2>1, <2>2 DEF IInv, TypeOK, Call
  <1>6. ListMatchesParents'
    BY <1>2, <1>3 DEF IInv, ListMatchesParents, NoRepeats, Elements
  <1>7. OwnersMatch' /\ ServerGone'
    BY <1>2, <1>3 DEF IInv, OwnersMatch, ServerGone
  <1>8. FramesKept'
    BY <1>2, <1>3, <1>4 DEF FramesKept
  <1>9. EventsHaveReceivers'
    <2>1. ASSUME NEW x \in pending'
          PROVE  x \in Registered'
      <3>1. x \in Registered /\ x # Listener
        BY <1>2 DEF IInv, EventsHaveReceivers
      <3> QED
        BY <1>2, <1>3, <3>1 DEF Registered
    <2> QED
      BY <2>1 DEF EventsHaveReceivers
  <1>10. NothingLeaks'
    <2>1. stack'[1] = Frame("session", s) /\ 1 \in DOMAIN stack'
      BY <1>4 DEF Frame
    <2>2. ASSUME NEW t \in Sessions \ {s}, assoc[t] \in {"open", "closed"}
          PROVE  owner[t] = "lives"
      BY <1>2, <2>2 DEF IInv, NothingLeaks
    <2> QED
      BY <1>2, <1>3, <2>1, <2>2 DEF NothingLeaks
  <1> QED
    BY <1>5, <1>6, <1>7, <1>8, <1>9, <1>10 DEF IInv

(* When sessionNotify returns nothing else runs: it is called between      *)
(* events only.                                                            *)
LEMMA SessionReturnsAlone ==
    ASSUME IInv, Returning("session"), stack' = Tail(stack)
    PROVE  LET s == Head(stack).of
           IN  /\ s \in Sessions /\ server
               /\ owner[s] = "none" /\ assoc[s] = "open" /\ ~parent[s]
               /\ stack' = <<>>
               /\ \A i \in DOMAIN stack : stack[i].of = s
  <1>1. stack \in Seq(Call) /\ stack # <<>>
    BY DEF IInv, TypeOK, Call, Returning
  <1>2. /\ Head(stack) = stack[1] /\ 1 \in DOMAIN stack
        /\ DOMAIN stack = 1 .. Len(stack) /\ stack[1].call = "session"
    BY <1>1, PopProperties DEF Returning
  <1>3. Len(stack) = 1
    BY <1>2 DEF IInv, FramesKept
  <1>4. stack' = <<>>
    BY <1>1, <1>3
  <1> QED
    BY <1>2, <1>3, <1>4 DEF IInv, FramesKept, OwnersMatch

LEMMA StepSessionAccepted ==
    ASSUME IInv, SessionAccepted
    PROVE  IInv'
  <1> DEFINE s == Head(stack).of
  <1>1. /\ owner' = [owner EXCEPT ![s] = "lives"]
        /\ children' = <<s>> \o children
        /\ parent' = [parent EXCEPT ![s] = TRUE]
        /\ UNCHANGED <<server, lstate, assoc, pending, asked, told>>
    BY DEF SessionAccepted
  <1>2. /\ s \in Sessions /\ server
        /\ owner[s] = "none" /\ assoc[s] = "open" /\ ~parent[s]
        /\ stack' = <<>>
        /\ \A i \in DOMAIN stack : stack[i].of = s
    BY SessionReturnsAlone DEF SessionAccepted
  <1> HIDE DEF s
  <1>3. /\ owner'[s] = "lives" /\ parent'[s]
        /\ \A t \in Sessions \ {s} : owner'[t] = owner[t] /\ parent'[t] = parent[t]
    BY <1>1, <1>2 DEF IInv, TypeOK
  <1>4. s \notin Elements(children)
    BY <1>2 DEF IInv, ListMatchesParents
  <1>5. /\ children' \in Seq(Sessions)
        /\ DOMAIN children' = 1 .. Len(children) + 1
        /\ DOMAIN children = 1 .. Len(children) /\ Len(children) \in Nat
        /\ children'[1] = s
        /\ \A i \in DOMAIN children : children'[i + 1] = children[i]
    BY <1>1, <1>2 DEF IInv, TypeOK
  <1>6. \A i \in DOMAIN children' :
            \/ i = 1
            \/ i - 1 \in DOMAIN children /\ children'[i] = children[i - 1]
    BY <1>5
  <1>7. Elements(children)' = Elements(children) \cup {s}
    <2>1. 1 \in DOMAIN children'
          /\ \A i \in DOMAIN children : i + 1 \in DOMAIN children'
      BY <1>5
    <2> QED
      BY <1>5, <1>6, <2>1 DEF Elements
  <1>8. NoRepeats(children)'
    <2>1. ASSUME NEW i \in DOMAIN children', NEW j \in DOMAIN children',
                 children'[i] = children'[j]
          PROVE  i = j
      <3>1. \A k \in DOMAIN children : children[k] # s
        BY <1>4 DEF Elements
      <3>2. CASE i = 1 \/ j = 1
        BY <1>5, <1>6, <2>1, <3>1, <3>2
      <3>3. CASE i # 1 /\ j # 1
        <4>1. i - 1 = j - 1
          BY <1>6, <2>1, <3>3 DEF IInv, ListMatchesParents, NoRepeats
        <4> QED
          BY <1>5, <4>1
      <3> QED
        BY <3>2, <3>3
    <2> QED
      BY <2>1 DEF NoRepeats
  <1>9. TypeOK'
    <2>1. /\ owner' \in [Sessions -> {"none", "lives", "gone"}]
          /\ parent' \in [Sessions -> BOOLEAN]
      BY <1>1 DEF IInv, TypeOK
    <2> QED
      BY <1>1, <1>2, <1>5, <2>1 DEF IInv, TypeOK
  <1>10. ListMatchesParents'
    BY <1>1, <1>2, <1>3, <1>7, <1>8 DEF IInv, ListMatchesParents
  <1>11. OwnersMatch'
    BY <1>1, <1>2, <1>3 DEF IInv, OwnersMatch
  <1>12. ServerGone' /\ FramesKept'
    BY <1>1, <1>2 DEF ServerGone, FramesKept
  <1>13. EventsHaveReceivers'
    BY <1>1 DEF IInv, EventsHaveReceivers, Registered
  <1>14. NothingLeaks'
    <2>1. ASSUME NEW t \in Sessions \ {s}, assoc[t] \in {"open", "closed"}
          PROVE  owner[t] = "lives"
      BY <1>2, <2>1 DEF IInv, NothingLeaks, Frame
    <2> QED
      BY <1>1, <1>3, <2>1 DEF NothingLeaks
  <1> QED
    BY <1>9, <1>10, <1>11, <1>12, <1>13, <1>14 DEF IInv

LEMMA StepSessionRefused ==
    ASSUME IInv, SessionRefused
    PROVE  IInv'
  <1> DEFINE s == Head(stack).of
  <1>1. /\ assoc' = [assoc EXCEPT ![s] = "deleted"]
        /\ pending' = pending \ {s}
        /\ UNCHANGED <<server, lstate, children, parent, owner, asked, told>>
    BY DEF SessionRefused, Unqueue
  <1>2. /\ s \in Sessions /\ server
        /\ owner[s] = "none" /\ assoc[s] = "open" /\ ~parent[s]
        /\ stack' = <<>>
        /\ \A i \in DOMAIN stack : stack[i].of = s
    BY SessionReturnsAlone DEF SessionRefused
  <1> HIDE DEF s
  <1>3. /\ assoc'[s] = "deleted"
        /\ \A t \in Sessions \ {s} : assoc'[t] = assoc[t]
    BY <1>1, <1>2 DEF IInv, TypeOK
  <1>4. TypeOK'
    <2>1. /\ assoc' \in [Sessions -> {"none", "open", "closed", "deleted"}]
          /\ pending' \in SUBSET Parties
      BY <1>1 DEF IInv, TypeOK
    <2> QED
      BY <1>1, <1>2, <2>1 DEF IInv, TypeOK
  <1>5. ListMatchesParents'
    BY <1>1, <1>2, <1>3 DEF IInv, ListMatchesParents, NoRepeats, Elements
  <1>6. OwnersMatch'
    BY <1>1, <1>2, <1>3 DEF IInv, OwnersMatch
  <1>7. ServerGone' /\ FramesKept'
    BY <1>1, <1>2 DEF ServerGone, FramesKept
  <1>8. EventsHaveReceivers'
    <2>1. ASSUME NEW x \in pending'
          PROVE  x \in Registered'
      <3>1. x \in Registered /\ x # s
        BY <1>1 DEF IInv, EventsHaveReceivers
      <3> QED
        BY <1>1, <1>3, <3>1 DEF Registered
    <2> QED
      BY <2>1 DEF EventsHaveReceivers
  <1>9. NothingLeaks'
    <2>1. ASSUME NEW t \in Sessions \ {s}, assoc[t] \in {"open", "closed"}
          PROVE  owner[t] = "lives"
      BY <1>2, <2>1 DEF IInv, NothingLeaks, Frame
    <2> QED
      BY <1>1, <1>3, <2>1 DEF NothingLeaks
  <1> QED
    BY <1>4, <1>5, <1>6, <1>7, <1>8, <1>9 DEF IInv

LEMMA StepOtherReturns ==
    ASSUME IInv, OtherReturns
    PROVE  IInv'
  <1> USE DEF OtherReturns, treeVars
  <1>1. UNCHANGED <<server, lstate, children, assoc, parent, owner, pending,
                    asked, told>>
    OBVIOUS
  <1>2. stack \in Seq(Call)
    BY DEF IInv, TypeOK, Call
  <1>3. /\ stack' \in Seq(Call)
        /\ Head(stack) = stack[1]
        /\ Len(stack') = Len(stack) - 1 /\ Len(stack) \in Nat
        /\ DOMAIN stack' = 1 .. Len(stack) - 1
        /\ DOMAIN stack = 1 .. Len(stack)
        /\ \A i \in DOMAIN stack' :
               i + 1 \in DOMAIN stack /\ stack'[i] = stack[i + 1]
    BY <1>2, PopProperties
  <1>4. TypeOK'
    BY <1>1, <1>3 DEF IInv, TypeOK, Call
  <1>5. ListMatchesParents'
    BY <1>1 DEF IInv, ListMatchesParents, NoRepeats, Elements
  <1>6. OwnersMatch' /\ ServerGone'
    BY <1>1 DEF IInv, OwnersMatch, ServerGone
  <1>7. FramesKept'
    <2>1. ASSUME NEW i \in DOMAIN stack', stack'[i].call = "session"
          PROVE  i = Len(stack')
      <3>1. i + 1 = Len(stack)
        BY <1>3, <2>1 DEF IInv, FramesKept
      <3> QED
        BY <1>3, <3>1
    <2> QED
      BY <1>1, <1>3, <2>1 DEF IInv, FramesKept
  <1>8. EventsHaveReceivers'
    BY <1>1 DEF IInv, EventsHaveReceivers, Registered
  <1>9. NothingLeaks'
    <2>1. ASSUME NEW t \in Sessions, NEW i \in DOMAIN stack,
                 stack[i] = Frame("session", t)
          PROVE  \E j \in DOMAIN stack' : stack'[j] = Frame("session", t)
      <3>1. i # 1
        BY <1>3, <2>1 DEF Returning, Frame
      <3>2. i - 1 \in DOMAIN stack' /\ i \in Nat
        BY <1>3, <3>1
      <3>3. stack'[i - 1] = stack[i]
        BY <1>3, <3>2
      <3> QED
        BY <2>1, <3>2, <3>3
    <2> QED
      BY <1>1, <2>1 DEF IInv, NothingLeaks
  <1> QED
    BY <1>4, <1>5, <1>6, <1>7, <1>8, <1>9 DEF IInv

LEMMA NextIInv ==
    ASSUME IInv, [Next]_vars
    PROVE  IInv'
  <1>1. CASE Listen \/ ListenNowhere \/ ShutdownServer
    BY <1>1, StepListener
  <1>2. CASE DeleteServer
    BY <1>2, StepDeleteServer
  <1>3. ASSUME NEW s \in Sessions,
               ShutdownSession(s) \/ CloseSession(s) \/ SendFails(s)
        PROVE  IInv'
    BY <1>3, StepSession
  <1>4. ASSUME NEW s \in Sessions, DeleteSession(s)
        PROVE  IInv'
    BY <1>4, StepDeleteSession
  <1>5. CASE Gather
    BY <1>5, StepGather
  <1>6. CASE ChildNotify
    BY <1>6, StepChildNotify
  <1>7. CASE ListenerIdle \/ ListenerFails
    BY <1>7, StepListenerEvent
  <1>8. ASSUME NEW s \in Sessions,
               SessionEvent(s) \/ SessionLost(s) \/ SessionCloses(s)
        PROVE  IInv'
    BY <1>8, StepSessionEvent
  <1>9. CASE SessionAccepted
    BY <1>9, StepSessionAccepted
  <1>10. CASE SessionRefused
    BY <1>10, StepSessionRefused
  <1>11. CASE OtherReturns
    BY <1>11, StepOtherReturns
  <1>12. CASE UNCHANGED vars
    BY <1>12
    DEF vars, treeVars, IInv, TypeOK, ListMatchesParents, OwnersMatch,
        ServerGone, FramesKept, EventsHaveReceivers, NothingLeaks,
        Registered, Elements, NoRepeats
  <1> QED
    BY <1>1, <1>2, <1>3, <1>4, <1>5, <1>6, <1>7, <1>8, <1>9, <1>10, <1>11,
       <1>12
    DEF Next, Application, SocketNotify, Return

LEMMA Invariance == Spec => []IInv
  <1>1. Init => IInv
    BY InitIInv
  <1>2. IInv /\ [Next]_vars => IInv'
    BY NextIInv
  <1> QED
    BY <1>1, <1>2, PTL DEF Spec

----------------------------------------------------------------------------
(* The theorems.                                                           *)

(* Every variable keeps its type.                                          *)
THEOREM TypeCorrect == Spec => []TypeOK
  <1>1. IInv => TypeOK
    BY DEF IInv
  <1> QED
    BY <1>1, Invariance, PTL

(* The list of children and the pointers to the parent agree, and no       *)
(* deleted association is in the list.                                     *)
THEOREM ListAndParentsAgree == Spec => []ListMatchesParents
  <1>1. IInv => ListMatchesParents
    BY DEF IInv
  <1> QED
    BY <1>1, Invariance, PTL

(* Events wait only for associations that exist.                           *)
THEOREM EventsReachReceivers == Spec => []EventsHaveReceivers
  <1>1. IInv => EventsHaveReceivers
    BY DEF IInv
  <1> QED
    BY <1>1, Invariance, PTL

(* Every association that exists can be reached by who has to delete it.   *)
THEOREM NothingIsLeaked == Spec => []NothingLeaks
  <1>1. IInv => NothingLeaks
    BY DEF IInv
  <1> QED
    BY <1>1, Invariance, PTL

(* A deleted server leaves no association of a session behind.             *)
THEOREM SessionsEndWithServer == Spec => []NothingOutlivesServer
  <1>1. ASSUME IInv
        PROVE  NothingOutlivesServer
    <2>1. ASSUME ~server, NEW s \in Sessions, assoc[s] \in {"open", "closed"}
          PROVE  FALSE
      <3>1. \A i \in DOMAIN stack : stack[i] # Frame("session", s)
        BY <1>1, <2>1 DEF IInv, FramesKept, Frame
      <3>2. owner[s] = "lives"
        BY <1>1, <2>1, <3>1 DEF IInv, NothingLeaks
      <3>3. s \in Elements(children)
        BY <1>1, <2>1, <3>2 DEF IInv, OwnersMatch, ListMatchesParents
      <3>4. children = <<>>
        BY <1>1, <2>1 DEF IInv, ServerGone
      <3> QED
        BY <3>3, <3>4 DEF Elements
    <2> QED
      BY <1>1, <2>1 DEF IInv, TypeOK, NothingOutlivesServer
  <1> QED
    BY <1>1, Invariance, PTL

(* If no session deletes the server while it receives, no callback returns *)
(* to a deleted association.                                               *)
THEOREM NeverUsedAfterFree ==
    ASSUME ~ServerDies
    PROVE  Spec => []NoUseAfterFree
  <1>1. IInv => NoUseAfterFree
    BY DEF IInv, FramesKept, NoUseAfterFree
  <1> QED
    BY <1>1, Invariance, PTL

(* Callbacks are made to observers that exist.                             *)
THEOREM CallsReachTheirObservers == Spec => CallsReachObservers
  <1> DEFINE Reaches ==
                 Len(stack') > Len(stack) =>
                     \/ Head(stack').call = "session" /\ server
                     \/ ObserverExists(Head(stack').of)
  <1>1. ASSUME IInv, [Next]_vars
        PROVE  [Reaches]_vars
    <2>1. stack \in Seq(Call)
      BY <1>1 DEF IInv, TypeOK, Call
    <2>2. ASSUME NEW c \in Calls, NEW x \in Parties, Push(c, x)
          PROVE  Head(stack').call = c /\ Head(stack').of = x
      <3>1. Head(stack') = [call |-> c, of |-> x]
        BY <2>1, <2>2, PushProperties, Zenon
      <3> QED
        BY <3>1
    <2>3. ASSUME NEW s \in Sessions, owner[s] = "lives", NEW c \in Calls,
                 Push(c, s)
          PROVE  Reaches
      BY <2>2, <2>3, TreeConstants DEF ObserverExists, TreeConstants, Parties
    <2>4. ASSUME server, NEW c \in Calls, Push(c, Listener)
          PROVE  Reaches
      BY <2>2, <2>4 DEF ObserverExists, Parties
    <2>5. {"session", "recv", "fail", "timeout"} \subseteq Calls
      BY DEF Calls
    <2>6. ASSUME NEW s \in Sessions,
                 ShutdownSession(s) \/ CloseSession(s) \/ SendFails(s)
          PROVE  Reaches
      <3>1. owner[s] = "lives"
        BY <2>6 DEF ShutdownSession, CloseSession, SendFails, Owns
      <3>2. stack' = stack \/ Push("fail", s)
        BY <2>6 DEF ShutdownSession, CloseSession, SendFails, TellFailed
      <3> QED
        BY <2>1, <2>3, <2>5, <3>1, <3>2
    <2>7. ASSUME NEW s \in Sessions,
                 SessionEvent(s) \/ SessionLost(s) \/ SessionCloses(s)
          PROVE  Reaches
      <3>1. owner[s] = "lives"
        BY <1>1, <2>7, DeliveredToOwner
        DEF SessionEvent, SessionLost, SessionCloses
      <3>2. \/ stack' = stack
            \/ \E c \in {"recv", "timeout", "fail"} : Push(c, s)
        BY <2>7 DEF SessionEvent, SessionLost, SessionCloses, TellFailed
      <3> QED
        BY <2>1, <2>3, <2>5, <3>1, <3>2
    <2>8. CASE ListenerIdle \/ ListenerFails
      <3>1. server
        BY <1>1, <2>8, DeliveredToServer DEF ListenerIdle, ListenerFails
      <3>2. \/ stack' = stack
            \/ \E c \in {"timeout", "fail"} : Push(c, Listener)
        BY <2>8 DEF ListenerIdle, ListenerFails
      <3> QED
        BY <2>1, <2>4, <2>5, <3>1, <3>2
    <2>9. CASE ChildNotify
      <3>1. server
        BY <1>1, <2>9, DeliveredToServer DEF ChildNotify
      <3>2. \E s \in Sessions : Push("session", s)
        BY <2>9 DEF ChildNotify
      <3> QED
        BY <2>2, <2>5, <3>1, <3>2 DEF Parties
    <2>10. CASE Listen \/ ListenNowhere \/ ShutdownServer \/ DeleteServer
                \/ Gather
      BY <2>1, <2>10
      DEF Listen, ListenNowhere, ShutdownServer, DeleteServer, Gather
    <2>11. ASSUME NEW s \in Sessions, DeleteSession(s)
           PROVE  Reaches
      <3> DEFINE mark(i) == IF stack[i] = Frame("recv", s)
                            THEN Frame("recv_destroyed", s) ELSE stack[i]
      <3>1. stack' = [i \in DOMAIN stack |-> mark(i)]
        BY <2>11 DEF DeleteSession, MarkDestroyed
      <3>2. DOMAIN stack = 1 .. Len(stack) /\ Len(stack) \in Nat
        BY <2>1
      <3> HIDE DEF mark
      <3>3. Len(stack') = Len(stack)
        BY <3>1, <3>2
      <3> QED
        BY <3>2, <3>3
    <2>12. CASE Return
      <3>1. stack # <<>> /\ stack' = Tail(stack)
        BY <2>12
        DEF Return, SessionAccepted, SessionRefused, OtherReturns, Returning
      <3>2. Len(stack') = Len(stack) - 1 /\ Len(stack) \in Nat
        BY <2>1, <3>1
      <3> QED
        BY <3>2
    <2> HIDE DEF Reaches
    <2> QED
      BY <1>1, <2>6, <2>7, <2>8, <2>9, <2>10, <2>11, <2>12
      DEF Next, Application, SocketNotify
  <1> QED
    BY <1>1, Invariance, PTL DEF Spec, CallsReachObservers

(* A connection ends only in steps that tell its session, that it asked    *)
(* for, or that shut the listener down: for any number of sessions that    *)
(* end each other's connections from any nesting of callbacks.             *)
THEOREM SessionsHearOfTheEnd == Spec => SessionsAreTold
  <1> DEFINE Told ==
        \A s \in Sessions :
           assoc[s] = "open" /\ assoc'[s] = "closed" /\ owner'[s] = "lives"
           => \/ told'[s] \/ asked'[s]
              \/ Listen \/ ShutdownServer \/ ListenerFails
  <1>1. ASSUME IInv, [Next]_vars
        PROVE  [Told]_vars
    <2>1. TypeOK
      BY <1>1 DEF IInv
    <2>2. CASE assoc' = assoc
      BY <2>2
    <2>3. ASSUME NEW r \in Sessions, ShutdownOf(r), told'[r] \/ asked'[r]
          PROVE  Told
      BY <2>1, <2>3 DEF ShutdownOf, Closed
    <2>4. ASSUME NEW r \in Sessions, NEW v \in {"open", "deleted"},
                 assoc' = [assoc EXCEPT ![r] = v]
          PROVE  Told
      BY <2>1, <2>4 DEF TypeOK
    <2>5. CASE Listen \/ ShutdownServer \/ ListenerFails
      BY <2>5
    <2>6. CASE ListenNowhere \/ Gather \/ ListenerIdle \/ SessionAccepted
               \/ OtherReturns
      BY <2>2, <2>6 DEF ListenNowhere, Gather, ListenerIdle, SessionAccepted,
                        OtherReturns, treeVars
    <2>7. CASE DeleteServer
      BY <2>7 DEF DeleteServer
    <2>8. ASSUME NEW r \in Sessions,
                 \/ ShutdownSession(r) \/ CloseSession(r) \/ SendFails(r)
                 \/ SessionLost(r) \/ SessionCloses(r)
          PROVE  Told
      <3>1. \/ assoc' = assoc
            \/ ShutdownOf(r) /\ (told'[r] \/ asked'[r])
        BY <2>1, <2>8 DEF ShutdownSession, CloseSession, SendFails, SessionLost,
                          SessionCloses, TellFailed, TypeOK
      <3> QED BY <2>2, <2>3, <3>1
    <2>9. ASSUME NEW r \in Sessions, DeleteSession(r)
          PROVE  Told
      BY <2>4, <2>9 DEF DeleteSession
    <2>10. ASSUME NEW r \in Sessions, SessionEvent(r)
           PROVE  Told
      BY <2>2, <2>10 DEF SessionEvent, treeVars
    <2>11. CASE ChildNotify
      BY <2>4, <2>11 DEF ChildNotify
    <2>12. CASE SessionRefused
      <3>1. Head(stack).of \in Sessions
        BY <1>1, <2>12, SessionReturnsAlone DEF SessionRefused
      <3> QED BY <2>4, <2>12, <3>1 DEF SessionRefused
    <2> HIDE DEF Told
    <2> QED
      BY <1>1, <2>5, <2>6, <2>7, <2>8, <2>9, <2>10, <2>11, <2>12
      DEF Next, Application, SocketNotify, Return
  <1> QED
    BY <1>1, Invariance, PTL DEF Spec, SessionsAreTold
=============================================================================
