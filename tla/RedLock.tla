-------------------------------- MODULE RedLock --------------------------------
(***************************************************************************)
(* Distributed_Lock/redlock-cpp/redlock.cpp: clients that lock one         *)
(* resource on a majority of redis servers.  A client is one CRedLock      *)
(* object used by one thread, as in LockExample.cpp (Lock, work, Unlock)   *)
(* or, for the members of Continuers, CLockExample.cpp (ContinueLock over  *)
(* and over, never an Unlock).                                             *)
(*                                                                         *)
(* Time is in milliseconds and the same everywhere, but time(NULL) shows   *)
(* whole seconds of SecLen milliseconds.  A command either gets its reply  *)
(* or fails: a failed one may still reach its server at any later time     *)
(* (late), and hiredis refuses every further command on its connection     *)
(* (broken).  Values are unique ids, so a pair <<client, number of call>>. *)
(***************************************************************************)
EXTENDS Integers, FiniteSets

CONSTANTS Clients, Continuers, \* the clients, and those that continue their lock
          NServers,            \* servers added with AddServerUrl
          Ttl, SecLen, RetryCount,
          Delays,              \* steps in which time advances
          MaxTime, MaxCalls, MaxBroken  \* bounds on the behaviours explored

ASSUME RedLockAssumption ==
    /\ Continuers \subseteq Clients
    /\ NServers \in Nat \ {0} /\ Ttl \in Nat \ {0} /\ SecLen \in Nat \ {0}
    /\ RetryCount \in Nat \ {0}
    /\ Delays \subseteq Nat /\ MaxTime \in Nat /\ MaxCalls \in Nat /\ MaxBroken \in Nat

VARIABLES now,       \* time
          key,       \* of every server: the owner, id and expiry of the resource's key
          late,      \* failed commands that may still be executed
          broken,    \* the connections, pairs of a client and a server, that have failed
          pc, idx,   \* of every client: place, and i of the loops over the servers
          calls,     \* of every client: number of the current call, the id of m_val
          old,       \* of every client: the call whose id m_continueLock.m_val holds
          tries,     \* of every client: retryCount
          start,     \* of every client: startTime
          got,       \* of every client: the servers counted in n
          deadline   \* of every client: end of m_validityTime

netVars == <<late, broken>>
clientVars == <<pc, idx, calls, old, tries, start, got, deadline>>
vars == <<now, key, netVars, clientVars>>

Servers == 1 .. NServers

\* m_quoRum.
QuorumHalf == NServers \div 2
Quorum == NServers \div 2 + 1

\* drift, with m_clockDriftFactor = 0.01.
Drift == Ttl \div 100 + 2

\* time(NULL) * 1000.
Seconds == (now \div SecLen) * SecLen

\* No call has number 0, and no client is named "none".
NoCall == 0
NoKey == [id |-> <<"none", NoCall>>, exp |-> 0]

Init ==
    /\ now = 0
    /\ key = [s \in Servers |-> NoKey]
    /\ late = {}
    /\ broken = {}
    /\ pc = [c \in Clients |-> "idle"]
    /\ idx = [c \in Clients |-> 1]
    /\ calls = [c \in Clients |-> NoCall]
    /\ old = [c \in Clients |-> NoCall]
    /\ tries = [c \in Clients |-> 0]
    /\ start = [c \in Clients |-> 0]
    /\ got = [c \in Clients |-> {}]
    /\ deadline = [c \in Clients |-> 0]
-----------------------------------------------------------------------------
(* The redis server *)

Live(s) == key[s].exp > now

Holds(s, id) == Live(s) /\ key[s].id = id

\* set nx px, after del if the key holds the value to be continued.
SetSucceeds(m) == ~ Live(m.server) \/ Holds(m.server, m.old)

KeyAfterSet(m) ==
    IF SetSucceeds(m) THEN [id |-> m.id, exp |-> now + Ttl] ELSE key[m.server]

\* The unlock script: del if the key holds the value.
KeyAfterBlindDel(m) == NoKey
KeyAfterDel(m) ==
    IF Holds(m.server, m.id) THEN NoKey ELSE key[m.server]

Execute(m) ==
    key' = [key EXCEPT ![m.server] = IF m.op = "set" THEN KeyAfterSet(m) ELSE KeyAfterDel(m)]

\* A failed command is executed after all.
ExecuteLate ==
    \E m \in late :
        /\ Execute(m)
        /\ late' = late \ {m}
        /\ UNCHANGED <<now, broken, clientVars>>

\* Time passes and keys expire.
Tick ==
    \E d \in Delays :
        /\ now + d <= MaxTime
        /\ now' = now + d
        /\ key' = [s \in Servers |-> IF key[s].exp <= now + d THEN NoKey ELSE key[s]]
        /\ UNCHANGED <<netVars, clientVars>>
-----------------------------------------------------------------------------
(* The client *)

\* The value of the current call and, for a continuer, the one it replaces.
SetCommand(c) ==
    [op |-> "set", server |-> idx[c], id |-> <<c, calls[c]>>, old |-> <<c, old[c]>>]

DelCommand(c) ==
    [op |-> "del", server |-> idx[c], id |-> <<c, calls[c]>>, old |-> <<c, NoCall>>]

Reconnected(c, s) == TRUE
Connected(c, s) == <<c, s>> \notin broken

\* redisCommand and redisCommandArgv: the three ways a command can end.
Replied(c, m) == Connected(c, idx[c]) /\ Execute(m) /\ UNCHANGED netVars

Fails(c, m) ==
    /\ Connected(c, idx[c])
    /\ Cardinality(broken) < MaxBroken
    /\ broken' = broken \cup {<<c, idx[c]>>}
    /\ late' = late \cup {m}
    /\ UNCHANGED key

Refused(c) == ~ Connected(c, idx[c]) /\ UNCHANGED <<key, netVars>>

NextServer(c) == idx' = [idx EXCEPT ![c] = @ + 1]

\* Lock and ContinueLock, up to the loop: a new value.
Call(c) ==
    /\ pc[c] \in {"idle"} \cup (IF c \in Continuers THEN {"held"} ELSE {})
    /\ calls[c] < MaxCalls
    /\ calls' = [calls EXCEPT ![c] = @ + 1]
    /\ old' = [old EXCEPT ![c] = IF c \in Continuers /\ @ = NoCall THEN calls[c] + 1 ELSE @]
    /\ tries' = [tries EXCEPT ![c] = RetryCount]
    /\ deadline' = [deadline EXCEPT ![c] = 0]
    /\ pc' = [pc EXCEPT ![c] = "begin"]
    /\ UNCHANGED <<now, key, netVars, idx, start, got>>

\* One round: n = 0, startTime.
Begin(c) ==
    /\ pc[c] = "begin"
    /\ start' = [start EXCEPT ![c] = Seconds]
    /\ got' = [got EXCEPT ![c] = {}]
    /\ idx' = [idx EXCEPT ![c] = 1]
    /\ pc' = [pc EXCEPT ![c] = "set"]
    /\ UNCHANGED <<now, key, netVars, calls, old, tries, deadline>>

\* What a reply adds to n.
CountOK(c, m) == IF SetSucceeds(m) THEN {m.server} ELSE {}

\* LockInstance or ContinueLockInstance.
Instance(c) ==
    /\ pc[c] = "set"
    /\ idx[c] \in Servers
    /\ LET m == SetCommand(c) IN
          \/ Replied(c, m) /\ got' = [got EXCEPT ![c] = @ \cup CountOK(c, m)]
          \/ Fails(c, m) /\ UNCHANGED got
          \/ Refused(c) /\ UNCHANGED got
    /\ NextServer(c)
    /\ UNCHANGED <<now, pc, calls, old, tries, start, deadline>>

\* validityTime.
Validity(c) == Ttl - (Seconds - start[c]) - Drift

\* The end of a round: success, or Unlock and a retry.
Granted(c) == Cardinality(got[c]) >= Quorum /\ Validity(c) > 0

Decide(c) ==
    /\ pc[c] = "set"
    /\ idx[c] \notin Servers
    /\ old' = [old EXCEPT ![c] = IF c \in Continuers THEN calls[c] ELSE @]
    /\ idx' = [idx EXCEPT ![c] = 1]
    /\ \/ /\ Granted(c)
          /\ deadline' = [deadline EXCEPT ![c] = now + Validity(c)]
          /\ pc' = [pc EXCEPT ![c] = "held"]
       \/ /\ ~ Granted(c)
          /\ pc' = [pc EXCEPT ![c] = "undo"]
          /\ UNCHANGED deadline
    /\ start' = [start EXCEPT ![c] = 0]
    /\ UNCHANGED <<now, key, netVars, calls, tries, got>>

\* The user's Unlock.
Release(c) ==
    /\ pc[c] = "held"
    /\ c \notin Continuers
    /\ idx' = [idx EXCEPT ![c] = 1]
    /\ deadline' = [deadline EXCEPT ![c] = 0]
    /\ pc' = [pc EXCEPT ![c] = "release"]
    /\ UNCHANGED <<now, key, netVars, calls, old, tries, start, got>>

\* UnlockInstance.
UnlockInstance(c) ==
    /\ pc[c] \in {"undo", "release"}
    /\ idx[c] \in Servers
    /\ LET m == DelCommand(c) IN Replied(c, m) \/ Fails(c, m) \/ Refused(c)
    /\ NextServer(c)
    /\ UNCHANGED <<now, pc, calls, old, tries, start, got, deadline>>

\* Unlock returns: to the retry, or to the caller.
RetryForever(c) == "begin"
AfterUndo(c) == IF tries[c] - 1 > 0 THEN "begin" ELSE "idle"

UnlockReturns(c) ==
    /\ pc[c] \in {"undo", "release"}
    /\ idx[c] \notin Servers
    /\ tries' = [tries EXCEPT ![c] = IF pc[c] = "undo" THEN @ - 1 ELSE @]
    /\ pc' = [pc EXCEPT ![c] = IF pc[c] = "undo" THEN AfterUndo(c) ELSE "idle"]
    /\ got' = [got EXCEPT ![c] = {}]
    /\ UNCHANGED <<now, key, netVars, idx, calls, old, start, deadline>>

Client(c) ==
    \/ Call(c)
    \/ Begin(c)
    \/ Instance(c)
    \/ Decide(c)
    \/ Release(c)
    \/ UnlockInstance(c)
    \/ UnlockReturns(c)

Next == Tick \/ ExecuteLate \/ \E c \in Clients : Client(c)

Spec == Init /\ [][Next]_vars
-----------------------------------------------------------------------------
(* Properties *)

Ids == (Clients \cup {"none"}) \X Nat

Commands == [op : {"set", "del"}, server : Servers, id : Ids, old : Ids]

Places == {"idle", "begin", "set", "held", "undo", "release"}

\* Every variable holds a value of its declared type.
TypeOK ==
    /\ now \in Nat
    /\ key \in [Servers -> [id : Ids, exp : Nat]]
    /\ late \in SUBSET Commands
    /\ broken \in SUBSET (Clients \X Servers)
    /\ pc \in [Clients -> Places]
    /\ idx \in [Clients -> 1 .. NServers + 1]
    /\ calls \in [Clients -> Nat]
    /\ old \in [Clients -> Nat]
    /\ tries \in [Clients -> Nat]
    /\ start \in [Clients -> Nat]
    /\ got \in [Clients -> SUBSET Servers]
    /\ deadline \in [Clients -> Nat]

\* c has been told that it holds the lock and m_validityTime has not passed.
Holder(c) == pc[c] = "held" /\ now < deadline[c]

\* Within m_validityTime the lock is held by one client only.
MutualExclusion == \A c, d \in Clients : Holder(c) /\ Holder(d) => c = d

\* m_validityTime is the time the lock lives: until it has passed, a majority of
\* the servers keeps the holder's value, whatever commands of others, late or
\* retried ones of its own are executed.
ValidityIsHonest ==
    \A c \in Clients : Holder(c) =>
        \E Q \in SUBSET Servers :
            /\ Cardinality(Q) >= Quorum
            /\ \A s \in Q : Holds(s, <<c, calls[c]>>)

\* Until the given time the servers c counted keep its value, and c can still talk
\* to them: no failed command of its own is on its way to one of them.
Intact(c, until) ==
    \A s \in got[c] :
        /\ Connected(c, s)
        /\ now < until => key[s].id = <<c, calls[c]>> /\ key[s].exp >= until

\* A failed command that may still be executed is one whose client has given up
\* its server.
LateInv ==
    \A m \in late : \E c \in Clients :
        m.id[1] = c /\ m.old[1] = c /\ ~ Connected(c, m.server)

\* A key of c that c can still talk to is of the current call, or of the call before
\* it where this round has sent no command yet, and Unlock has not passed it.
OwnKeys(c) ==
    /\ pc[c] # "idle" => calls[c] # NoCall
    /\ pc[c] \in {"begin", "set", "undo"} => tries[c] > 0
    /\ pc[c] = "held" /\ c \in Continuers => old[c] = calls[c]
    /\ \A s \in Servers : Connected(c, s) /\ Live(s) /\ key[s].id[1] = c =>
          /\ pc[c] # "idle"
          /\ pc[c] \in {"undo", "release"} => s >= idx[c]
          /\ key[s].id[2] = IF pc[c] = "begin" \/ (pc[c] = "set" /\ s >= idx[c])
                            THEN old[c] ELSE calls[c]

\* The inductive invariant for NothingLeftBehind.
KeyInv == TypeOK /\ LateInv /\ \A c \in Clients : OwnKeys(c)

\* What c counts on: in a round, the keys it has just set; with the lock, a majority
\* until the deadline.
ClientInv(c) ==
    /\ start[c] <= now
    /\ pc[c] = "set" => Intact(c, start[c] + Ttl) /\ \A s \in got[c] : s < idx[c]
    /\ pc[c] = "held" => Intact(c, deadline[c]) /\ Cardinality(got[c]) >= Quorum

\* The inductive invariant for the rest.  It is true of every state when whole seconds
\* are no coarser than the drift allowance.
RedLockInv == KeyInv /\ \A c \in Clients : ClientInv(c)

\* A Lock that failed or was unlocked leaves no key on a server its client can
\* still talk to: the others need not wait for its expiry.
NothingLeftBehind ==
    \A c \in Clients, s \in Servers :
        pc[c] = "idle" /\ Connected(c, s) /\ Live(s) => key[s].id[1] # c
=============================================================================
