-------------------------- MODULE SftpClientProofs --------------------------
(* Theorems about SftpClient, for any number of goroutines and of troubles.   *)
EXTENDS SftpClient, TLAPS

(* The mutex, and what is true inside client() and connect().                 *)
Exclusion ==
  \A u \in Users : at[u] \in {"ping", "dial", "shake"} <=> mu = u

(* A connection that is set up is nobody else's, and not the shared one.      *)
SetUp ==
  \A u \in Users :
    /\ new[u] = NoConn <=> at[u] # "shake"
    /\ at[u] = "shake" => /\ new[u] # cur /\ conns[new[u]] # "free"
                          /\ \A v \in Users : at[v] = "use" => mine[v] # new[u]

(* A connection is in use, or replaced, only after it was made, and replaced  *)
(* only after a ping on it has failed.                                        *)
InUse ==
  /\ conns[cur] # "free"
  /\ \A u \in Users :
       /\ at[u] = "use" => mine[u] \in Conns /\ conns[mine[u]] # "free"
       /\ at[u] \in {"dial", "shake"} => cur \in suspect

SharedInv ==
  /\ TypeOK /\ Exclusion /\ SetUp /\ InUse
  /\ OneOpenConnection /\ CutOnlyOnSuspicion

LEMMA InitShared == Init => SharedInv
BY UserAssumption, TroubleAssumption
DEF Init, SharedInv, TypeOK, Exclusion, SetUp, InUse, OneOpenConnection,
    CutOnlyOnSuspicion, Conns, NoConn

(* Outside of connect, client() changes the mutex and what u holds, no more.  *)
LEMMA ClientStep ==
  ASSUME SharedInv, NEW u \in Users,
         Ask(u) \/ Lock(u) \/ PingAnswers(u) \/ PingFails(u) \/ DialFails(u)
  PROVE  SharedInv'
<1> USE UserAssumption, TroubleAssumption
    DEF SharedInv, TypeOK, Exclusion, SetUp, InUse, OneOpenConnection,
        CutOnlyOnSuspicion, Conns, NoConn, Goto, HandOut, Trouble
<1>1. CASE Ask(u)
  BY <1>1 DEF Ask
<1>2. CASE Lock(u)
  BY <1>2 DEF Lock
<1>3. CASE PingAnswers(u)
  BY <1>3 DEF PingAnswers
<1>4. CASE PingFails(u)
  BY <1>4 DEF PingFails
<1>5. CASE DialFails(u)
  BY <1>5 DEF DialFails
<1> QED BY <1>1, <1>2, <1>3, <1>4, <1>5

LEMMA ConnectStep ==
  ASSUME SharedInv, NEW u \in Users, Dial(u) \/ ShakeFails(u) \/ Swap(u)
  PROVE  SharedInv'
<1> USE UserAssumption, TroubleAssumption
    DEF SharedInv, TypeOK, Exclusion, SetUp, InUse, OneOpenConnection,
        CutOnlyOnSuspicion, Conns, NoConn, Goto, HandOut, Trouble
<1>1. CASE Dial(u)
  BY <1>1 DEF Dial
<1>2. CASE ShakeFails(u)
  BY <1>2 DEF ShakeFails
<1>3. CASE Swap(u)
  BY <1>3 DEF Swap
<1> QED BY <1>1, <1>2, <1>3

LEMMA OtherStep ==
  ASSUME SharedInv,
         \/ \E u \in Users : Operation(u)
         \/ \E c \in Conns : Drop(c)
         \/ UNCHANGED vars
  PROVE  SharedInv'
<1> USE UserAssumption, TroubleAssumption
    DEF SharedInv, TypeOK, Exclusion, SetUp, InUse, OneOpenConnection,
        CutOnlyOnSuspicion, Conns, NoConn, Goto, Trouble
<1>1. ASSUME NEW u \in Users, Operation(u) PROVE SharedInv'
  <2>1. Finish(u)
    BY <1>1 DEF Operation, OperationSucceeds, OperationBreaks
  <2> QED BY <2>1 DEF Finish
<1>2. ASSUME NEW c \in Conns, Drop(c) PROVE SharedInv'
  BY <1>2 DEF Drop, callVars
<1>3. CASE UNCHANGED vars
  BY <1>3 DEF vars
<1> QED BY <1>1, <1>2, <1>3

LEMMA SharedInvariant == Spec => []SharedInv
<1>1. SharedInv /\ [Next]_vars => SharedInv'
  BY ClientStep, ConnectStep, OtherStep DEF Next, Client
<1> QED BY InitShared, <1>1, PTL DEF Spec

(* Every variable stays in its type, and connect is never run by two          *)
(* goroutines at a time, however many ask for the client.                     *)
THEOREM TypeCorrect == Spec => []TypeOK
<1>1. SharedInv => TypeOK
  BY DEF SharedInv
<1> QED BY SharedInvariant, <1>1, PTL

(* At no time is there an ssh connection open that nobody will close, however *)
(* often the network fails and whoever reconnects.                            *)
THEOREM NoneLost == Spec => []OneOpenConnection
<1>1. SharedInv => OneOpenConnection
  BY DEF SharedInv
<1> QED BY SharedInvariant, <1>1, PTL

(* A reconnect closes a connection others work on only after a ping on that   *)
(* connection has failed.                                                     *)
THEOREM CutCorrect == Spec => []CutOnlyOnSuspicion
<1>1. SharedInv => CutOnlyOnSuspicion
  BY DEF SharedInv
<1> QED BY SharedInvariant, <1>1, PTL
=============================================================================
