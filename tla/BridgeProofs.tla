---------------------------- MODULE BridgeProofs ----------------------------
(***************************************************************************)
(* BridgeInv is an inductive invariant of Bridge, and every step of Bridge *)
(* is a step of ToolCalls or a stutter, for any connections and calls and  *)
(* under every fault.                                                      *)
(***************************************************************************)
EXTENDS BridgeProps, TLAPS

(* A disconnect empties both tables: the one of the session names every    *)
(* future there is.                                                        *)
LEMMA DisconnectEmpties ==
    ASSUME TablesAgree, NEW k, Disconnect(k)
    PROVE  /\ connection' = None /\ toolFutures' = {} /\ sessionCalls' = {}
           /\ future' = [j \in Calls |->
                  IF j \in toolFutures /\ future[j] = "pending" THEN "cancelled" ELSE future[j]]
BY DEF TablesAgree, Disconnect

(* Each action keeps the whole of BridgeInv; the quiet ones are those that *)
(* leave the tables, the futures and the requests alone.                   *)
LEMMA BridgeStep == BridgeInv /\ [Next]_vars => BridgeInv'
<1> SUFFICES ASSUME BridgeInv, [Next]_vars
             PROVE  BridgeInv'
  OBVIOUS
<1> USE BridgeAssumption
<1> USE DEF BridgeInv, TypeOK, TablesAgree, NothingLeaks, PendingIsTracked,
            NoCallWithoutSurface, InFlight, Outcomes, surfaces, tables, requests, vars
<1>1. ASSUME NEW c \in Conns,
             Attach(c) \/ PeerDrop(c) \/ Ready(c) \/ AttachFail(c) \/ Push(c) \/ PushSent(c)
      PROVE  BridgeInv'
  BY <1>1 DEF Attach, PeerDrop, Ready, AttachFail, Push, PushSent
<1>2. ASSUME NEW c \in Conns, Leave(c) \/ PushFails(c)
      PROVE  BridgeInv'
  <2>1. Disconnect(None) /\ UNCHANGED requests
    BY <1>2 DEF Leave, PushFails
  <2>2. /\ socket' \in [Conns -> {"none", "open", "lost", "closed"}]
        /\ handler' \in [Conns -> {"new", "attached", "loop", "gone"}]
        /\ pushing' \subseteq Conns
    BY <1>2 DEF Leave, PushFails
  <2>3. QED BY <2>1, <2>2, DisconnectEmpties
<1>3. ASSUME NEW k \in Calls, Result(k)
      PROVE  BridgeInv'
  BY <1>3 DEF Result
<1>4. ASSUME NEW k \in Calls, Refuse(k) \/ AskSent(k)
      PROVE  BridgeInv'
  BY <1>4 DEF Refuse, AskSent
<1>5. ASSUME NEW k \in Calls, Ask(k)
      PROVE  BridgeInv'
  BY <1>5 DEF Ask
<1>6. ASSUME NEW k \in Calls, AskFails(k)
      PROVE  BridgeInv'
  BY <1>6, DisconnectEmpties DEF AskFails
<1>7. ASSUME NEW k \in Calls,
             Returned(k) \/ Cancelled(k) \/ Timeout(k) \/ Abandon(k)
      PROVE  BridgeInv'
  BY <1>7 DEF Returned, Cancelled, Timeout, Abandon, Settle, Forget
<1>8. CASE UNCHANGED vars
  BY <1>8
<1>9. QED BY <1>1, <1>2, <1>3, <1>4, <1>5, <1>6, <1>7, <1>8 DEF Next, Surface, Request

LEMMA BridgeInvariant == Spec => []BridgeInv
<1>1. Init => BridgeInv
  BY BridgeAssumption DEF Init, BridgeInv, TypeOK, TablesAgree, NothingLeaks, PendingIsTracked,
                          NoCallWithoutSurface, InFlight, Outcomes
<1>2. QED BY <1>1, BridgeStep, PTL DEF Spec

-----------------------------------------------------------------------------
(* Every variable of the bridge keeps its type.                            *)
THEOREM BridgeTypeCorrect == Spec => []TypeOK
<1>1. BridgeInv => TypeOK BY DEF BridgeInv
<1>2. QED BY <1>1, BridgeInvariant, PTL

(* The futures and the session's calls are the same set of calls.          *)
THEOREM TablesNeverPart == Spec => []TablesAgree
<1>1. BridgeInv => TablesAgree BY DEF BridgeInv
<1>2. QED BY <1>1, BridgeInvariant, PTL

(* No call that is over is left in a table, but an abandoned one.          *)
THEOREM CallsAreForgotten == Spec => []NothingLeaks
<1>1. BridgeInv => NothingLeaks BY DEF BridgeInv
<1>2. QED BY <1>1, BridgeInvariant, PTL

(* A call that still waits can be answered and cancelled.                  *)
THEOREM WaitingCallsAreTracked == Spec => []PendingIsTracked
<1>1. BridgeInv => PendingIsTracked BY DEF BridgeInv
<1>2. QED BY <1>1, BridgeInvariant, PTL

(* Without a surface there is no pending call.                             *)
THEOREM NoSurfaceNoCall == Spec => []NoCallWithoutSurface
<1>1. BridgeInv => NoCallWithoutSurface BY DEF BridgeInv
<1>2. QED BY <1>1, BridgeInvariant, PTL

(* The bridge implements ToolCalls: an attach, a request, an answer and a  *)
(* disconnect are its steps, giving up on an open call lets it expire, and *)
(* the rest stutters.                                                      *)
THEOREM BridgeKeepsThePromise == Spec => ImplementsToolCalls
<1> USE BridgeAssumption
<1>1. Init => Promise!Init
  BY DEF Init, Promise!Init, Having, PendingCalls
<1>2. BridgeInv /\ [Next]_vars => [Promise!Next]_(Promise!vars)
  <2> SUFFICES ASSUME BridgeInv, [Next]_vars
               PROVE  [Promise!Next]_(Promise!vars)
    OBVIOUS
  <2> DEFINE Still == Promise!vars' = Promise!vars
  <2>a. TablesAgree /\ TypeOK
    BY DEF BridgeInv
  <2>b. ASSUME UNCHANGED <<toolFutures, future>>
        PROVE  /\ PendingCalls' = PendingCalls
               /\ Having("result")' = Having("result")
               /\ Having("cancelled")' = Having("cancelled")
               /\ Having("pending")' = Having("pending")
    BY <2>b DEF PendingCalls, Having
  <2>1. ASSUME NEW c \in Conns, Attach(c)
        PROVE  Promise!AttachSurface
    <3>1. (connection # None)' = TRUE
      BY <2>1 DEF Attach
    <3>2. UNCHANGED <<toolFutures, future>>
      BY <2>1 DEF Attach, tables
    <3>3. QED BY <3>1, <3>2, <2>b DEF Promise!AttachSurface
  <2>2. ASSUME NEW c \in Conns,
               PeerDrop(c) \/ Ready(c) \/ AttachFail(c) \/ Push(c) \/ PushSent(c)
        PROVE  Still
    <3>1. UNCHANGED <<connection, toolFutures, future>>
      BY <2>2 DEF PeerDrop, Ready, AttachFail, Push, PushSent, tables
    <3>2. QED BY <3>1, <2>b DEF Promise!vars
  <2>3. ASSUME NEW k, Disconnect(k)
        PROVE  Promise!SurfaceGoes
    <3>1. /\ connection' = None /\ toolFutures' = {}
          /\ future' = [j \in Calls |->
                 IF j \in toolFutures /\ future[j] = "pending" THEN "cancelled" ELSE future[j]]
      BY <2>a, <2>3, DisconnectEmpties
    <3>2. (connection # None)' = FALSE /\ PendingCalls' = {}
      BY <3>1 DEF PendingCalls
    <3>3. Having("cancelled")' = Having("cancelled") \cup PendingCalls
      BY <2>a, <3>1 DEF Having, PendingCalls, TypeOK
    <3>4. Having("result")' = Having("result")
      BY <2>a, <3>1 DEF Having, TypeOK
    <3>5. Having("pending")' = Having("pending") \ PendingCalls
      BY <2>a, <3>1 DEF Having, PendingCalls, TypeOK
    <3>6. QED BY <3>2, <3>3, <3>4, <3>5 DEF Promise!SurfaceGoes
  <2>4. ASSUME NEW k \in Calls, Result(k)
        PROVE  Promise!Answer(k)
    <3>1. /\ k \in toolFutures /\ future[k] = "pending"
          /\ future' = [future EXCEPT ![k] = "result"]
          /\ UNCHANGED <<connection, toolFutures>>
      BY <2>4 DEF Result, tables
    <3>2. k \in PendingCalls /\ PendingCalls' = PendingCalls \ {k}
      BY <2>a, <3>1 DEF PendingCalls, TypeOK
    <3>3. Having("result")' = Having("result") \cup {k}
      BY <2>a, <3>1 DEF Having, TypeOK
    <3>4. Having("cancelled")' = Having("cancelled")
      BY <2>a, <3>1 DEF Having, TypeOK
    <3>5. Having("pending")' = Having("pending") \ {k}
      BY <2>a, <3>1 DEF Having, TypeOK
    <3>6. QED BY <3>1, <3>2, <3>3, <3>4, <3>5 DEF Promise!Answer
  <2>5. ASSUME NEW k \in Calls, Refuse(k) \/ AskSent(k)
        PROVE  Still
    <3>1. UNCHANGED <<connection, toolFutures, future>>
      BY <2>5 DEF Refuse, AskSent, tables
    <3>2. QED BY <3>1, <2>b DEF Promise!vars
  <2>6. ASSUME NEW k \in Calls, Ask(k)
        PROVE  Promise!Ask(k)
    <3>1. /\ connection # None /\ connection' = connection
          /\ toolFutures' = toolFutures \cup {k}
          /\ future' = [future EXCEPT ![k] = "pending"]
      BY <2>6 DEF Ask, surfaces
    <3>2. future[k] = "none"
      BY <2>6 DEF Ask, BridgeInv
    <3>3. k \notin PendingCalls \cup Having("result") \cup Having("cancelled") \cup Having("pending")
      BY <3>2 DEF PendingCalls, Having
    <3>4. PendingCalls' = PendingCalls \cup {k} /\ Having("pending")' = Having("pending") \cup {k}
      BY <2>a, <3>1, <3>2 DEF PendingCalls, Having, TypeOK
    <3>5. Having("result")' = Having("result") /\ Having("cancelled")' = Having("cancelled")
      BY <2>a, <3>1, <3>2 DEF Having, TypeOK
    <3>6. QED BY <3>1, <3>3, <3>4, <3>5 DEF Promise!Ask, Promise!Asked
  <2>7. ASSUME NEW k \in Calls, NEW outcome, Settle(k, outcome)
        PROVE  Promise!Expire(k) \/ Still
    <3>1. /\ call[k] = "waiting"
          /\ toolFutures' = toolFutures \ {k} /\ UNCHANGED <<connection, future>>
      BY <2>7 DEF Settle, Forget
    <3>2. /\ Having("result")' = Having("result")
          /\ Having("cancelled")' = Having("cancelled")
          /\ Having("pending")' = Having("pending")
      BY <3>1 DEF Having
    <3>3. CASE future[k] = "pending"
      <4>1. k \in toolFutures
        BY <3>1, <3>3 DEF BridgeInv, PendingIsTracked, InFlight
      <4>2. k \in PendingCalls /\ k \in Having("pending") /\ PendingCalls' = PendingCalls \ {k}
        BY <2>a, <3>1, <3>3, <4>1 DEF PendingCalls, Having, TypeOK
      <4>3. QED BY <3>1, <3>2, <4>2 DEF Promise!Expire
    <3>4. CASE future[k] # "pending"
      <4>1. PendingCalls' = PendingCalls
        BY <3>1, <3>4 DEF PendingCalls
      <4>2. QED BY <3>1, <3>2, <4>1 DEF Promise!vars
    <3>5. QED BY <3>3, <3>4
  <2>8. ASSUME NEW k \in Calls, Abandon(k), call[k] = "sending"
        PROVE  Still
    <3>1. UNCHANGED <<connection, toolFutures, future>>
      BY <2>8 DEF Abandon, Settle, tables
    <3>2. QED BY <3>1, <2>b DEF Promise!vars
  <2>9. CASE UNCHANGED vars
    <3>1. UNCHANGED <<connection, toolFutures, future>>
      BY <2>9 DEF vars, tables
    <3>2. QED BY <3>1, <2>b DEF Promise!vars
  <2>10. QED
    <3>1. ASSUME NEW c \in Conns, Leave(c) \/ PushFails(c)
          PROVE  Promise!SurfaceGoes
      BY <3>1, <2>3 DEF Leave, PushFails
    <3>2. ASSUME NEW k \in Calls, AskFails(k)
          PROVE  Promise!SurfaceGoes
      BY <3>2, <2>3 DEF AskFails
    <3>3. ASSUME NEW k \in Calls,
                 Returned(k) \/ Cancelled(k) \/ Timeout(k) \/ Abandon(k)
          PROVE  Promise!Expire(k) \/ Still
      BY <3>3, <2>7, <2>8 DEF Returned, Cancelled, Timeout, Abandon
    <3>4. QED BY <2>1, <2>2, <2>4, <2>5, <2>6, <2>9, <3>1, <3>2, <3>3
              DEF Next, Surface, Request, Promise!Next
<1>3. QED BY <1>1, <1>2, BridgeInvariant, PTL DEF Spec, ImplementsToolCalls, Promise!Spec
=============================================================================
