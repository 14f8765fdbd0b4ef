----------------------------- MODULE SftpClient -----------------------------
(* sftpDest.client and connect: the one connection every run and every        *)
(* request shares.  Each operation of the destination first takes the mutex,  *)
(* pings the connection and, when the ping fails, replaces it; it then works  *)
(* on what it got without the mutex.                                          *)
EXTENDS Naturals

CONSTANTS
  Users,       \* the goroutines that call Write, List, Delete, ListFiles, Read
  Nobody,      \* who holds a mutex that is free
  MaxTrouble   \* bound: how often the network, the server or a ping fails

ASSUME UserAssumption == Nobody \notin Users
ASSUME TroubleAssumption == MaxTrouble \in Nat

(* A connection is replaced only after trouble, so this many are enough.      *)
Conns == 1..(MaxTrouble + 1)
NoConn == 0

VARIABLES
  mu,       \* d.mu: who holds it, or Nobody
  cur,      \* d.sshConn and d.sftpClient
  conns,    \* "free": not dialled yet; "up"; "down": lost; "closed" by us
  at,       \* where a user is
  new,      \* the connection it is setting up in connect
  mine,     \* the client that client() gave it
  trouble,  \* how often something has failed
  suspect   \* history: the connections a ping has failed on
vars == <<mu, cur, conns, at, new, mine, trouble, suspect>>

callVars == <<mu, at, new, mine>>

(* newSFTP has connected, or there is no destination.                         *)
Init ==
  /\ mu = Nobody /\ cur = 1
  /\ conns = [c \in Conns |-> IF c = 1 THEN "up" ELSE "free"]
  /\ at = [u \in Users |-> "idle"]
  /\ new = [u \in Users |-> NoConn] /\ mine = [u \in Users |-> NoConn]
  /\ trouble = 0 /\ suspect = {}

Goto(u, from, to) == at[u] = from /\ at' = [at EXCEPT ![u] = to]

Trouble == trouble < MaxTrouble /\ trouble' = trouble + 1

-------------------------------------------------------------------------------
(* client() *)

(* An operation of the destination begins.                                    *)
Ask(u) ==
  /\ Goto(u, "idle", "lock")
  /\ UNCHANGED <<mu, cur, conns, new, mine, trouble, suspect>>

(* Mutant of Lock: a read lock, which many may hold.                          *)
LockShared(u) ==
  /\ Goto(u, "lock", "ping")
  /\ mu' = u
  /\ UNCHANGED <<cur, conns, new, mine, trouble, suspect>>

Lock(u) ==
  /\ mu = Nobody
  /\ Goto(u, "lock", "ping")
  /\ mu' = u
  /\ UNCHANGED <<cur, conns, new, mine, trouble, suspect>>

(* client() returns: the mutex is given back.                                 *)
HandOut(u, from, c) ==
  /\ Goto(u, from, IF c = NoConn THEN "idle" ELSE "use")
  /\ mine' = [mine EXCEPT ![u] = c]
  /\ new' = [new EXCEPT ![u] = NoConn]
  /\ mu' = Nobody

(* Mutant of PingAnswers: there is no ping.                                   *)
PingAnswersAlways(u) ==
  /\ HandOut(u, "ping", cur)
  /\ UNCHANGED <<cur, conns, trouble, suspect>>

PingAnswers(u) ==
  /\ conns[cur] = "up"
  /\ HandOut(u, "ping", cur)
  /\ UNCHANGED <<cur, conns, trouble, suspect>>

(* Mutant of PingFails: the mutex is not held while a new one is dialled.     *)
PingFailsUnlocked(u) ==
  /\ Goto(u, "ping", "dial")
  /\ mu' = Nobody
  /\ IF conns[cur] = "up" THEN Trouble ELSE UNCHANGED trouble
  /\ suspect' = suspect \cup {cur}
  /\ UNCHANGED <<cur, conns, new, mine>>

(* Stat fails: the connection is lost or closed, or the server refuses the    *)
(* call this once.                                                            *)
PingFails(u) ==
  /\ Goto(u, "ping", "dial")
  /\ IF conns[cur] = "up" THEN Trouble ELSE UNCHANGED trouble
  /\ suspect' = suspect \cup {cur}
  /\ UNCHANGED <<mu, cur, conns, new, mine>>

-------------------------------------------------------------------------------
(* connect() *)

(* ssh.Dial; the connections are numbered in the order they are made.         *)
Dial(u) ==
  /\ Goto(u, "dial", "shake")
  /\ \E c \in Conns :
       /\ conns[c] = "free" /\ \A b \in Conns : b < c => conns[b] # "free"
       /\ conns' = [conns EXCEPT ![c] = "up"]
       /\ new' = [new EXCEPT ![u] = c]
  /\ UNCHANGED <<mu, cur, mine, trouble, suspect>>

(* Mutant of DialFails: it starts again until it succeeds.                    *)
DialFailsRetried(u) ==
  /\ Goto(u, "dial", "ping")
  /\ UNCHANGED <<mu, cur, conns, new, mine, trouble, suspect>>

(* The key cannot be read, or the server cannot be reached: the old           *)
(* connection stays where it is, for the next call to ping.                   *)
DialFails(u) ==
  /\ Trouble
  /\ HandOut(u, "dial", NoConn)
  /\ UNCHANGED <<cur, conns, suspect>>

(* Mutant of ShakeFails: the ssh connection is not closed.                    *)
ShakeFailsOpen(u) ==
  /\ HandOut(u, "shake", NoConn)
  /\ IF conns[new[u]] = "up" THEN Trouble ELSE UNCHANGED trouble
  /\ UNCHANGED <<cur, conns, suspect>>

(* sftp.NewClient fails.                                                      *)
ShakeFails(u) ==
  /\ HandOut(u, "shake", NoConn)
  /\ IF conns[new[u]] = "up" THEN Trouble ELSE UNCHANGED trouble
  /\ conns' = [conns EXCEPT ![new[u]] = "closed"]
  /\ UNCHANGED <<cur, suspect>>

(* It succeeds: the old connection is closed, under whoever works on it.      *)
Swap(u) ==
  /\ HandOut(u, "shake", new[u])
  /\ conns[new[u]] = "up"
  /\ conns' = [conns EXCEPT ![cur] = "closed"]
  /\ cur' = new[u]
  /\ UNCHANGED <<trouble, suspect>>

-------------------------------------------------------------------------------
(* The operation itself: its calls on the client it got, without the mutex.   *)

Finish(u) ==
  /\ Goto(u, "use", "idle")
  /\ mine' = [mine EXCEPT ![u] = NoConn]
  /\ UNCHANGED <<mu, cur, conns, new, trouble, suspect>>

(* A write that is cut off leaves what it wrote; the next call pings anew.    *)
OperationSucceeds(u) == Finish(u) /\ conns[mine[u]] = "up"
OperationBreaks(u)   == Finish(u) /\ conns[mine[u]] # "up"

-------------------------------------------------------------------------------
(* The server goes away, or the network.                                      *)
Drop(c) ==
  /\ Trouble
  /\ conns[c] = "up"
  /\ conns' = [conns EXCEPT ![c] = "down"]
  /\ UNCHANGED <<callVars, cur, suspect>>

Client(u) ==
  \/ PingAnswers(u) \/ PingFails(u)
  \/ Dial(u) \/ DialFails(u) \/ ShakeFails(u) \/ Swap(u)

Operation(u) == OperationSucceeds(u) \/ OperationBreaks(u)

Next ==
  \/ \E u \in Users : Ask(u) \/ Lock(u) \/ Client(u) \/ Operation(u)
  \/ \E c \in Conns : Drop(c)

Spec == Init /\ [][Next]_vars

(* A goroutine goes on and its calls return; sync.Mutex lets nobody starve.   *)
FairSpec ==
  Spec /\ \A u \in Users :
            WF_vars(Client(u)) /\ WF_vars(Operation(u)) /\ SF_vars(Lock(u))

-------------------------------------------------------------------------------
(* Properties *)

(* Every variable stays in its type, and nobody is inside client() or         *)
(* connect() without the mutex.                                               *)
TypeOK ==
  /\ mu \in Users \cup {Nobody}
  /\ cur \in Conns
  /\ conns \in [Conns -> {"free", "up", "down", "closed"}]
  /\ at \in [Users -> {"idle", "lock", "ping", "dial", "shake", "use"}]
  /\ new \in [Users -> Conns \cup {NoConn}]
  /\ mine \in [Users -> Conns \cup {NoConn}]
  /\ trouble \in 0..MaxTrouble
  /\ suspect \in SUBSET Conns
  /\ \A u \in Users : at[u] \in {"ping", "dial", "shake"} => mu = u

(* No connection is lost sight of: all that connect has ever dialled are      *)
(* closed, but for the shared one and the one being set up.                   *)
OneOpenConnection ==
  \A c \in Conns :
    conns[c] \in {"up", "down"} => c = cur \/ \E u \in Users : mu = u /\ new[u] = c

(* An operation finds its client closed under it only when a ping on that     *)
(* very connection has failed: a reconnect never takes away the connection    *)
(* another reconnect has just made, though many saw the old one fail.         *)
CutOnlyOnSuspicion ==
  \A u \in Users : at[u] = "use" /\ conns[mine[u]] = "closed" => mine[u] \in suspect

(* Whoever asks for the client gets it or an error, while others come and go. *)
ClientReturns == \A u \in Users : at[u] = "lock" ~> at[u] \in {"use", "idle"}

(* When the trouble is over, every operation gets a connection that works, in *)
(* the end: the first ping to fail has replaced the lost one for all.         *)
Heals == <>[](\A u \in Users : at[u] = "use" => conns[mine[u]] = "up")
=============================================================================
