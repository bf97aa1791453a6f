---------------------------- MODULE RedLockProofs ----------------------------
(***************************************************************************)
(* The distributed lock for any number of clients, servers, calls, retries *)
(* and failures.  A lock that failed or was unlocked leaves nothing        *)
(* behind, whatever the clocks do; mutual exclusion holds provided the     *)
(* drift allowance covers what time(NULL) rounds away.                     *)
(***************************************************************************)
EXTENDS RedLock, FiniteSetTheorems, TLAPS

USE RedLockAssumption

\* The drift allowance of Lock and ContinueLock covers the rounding of time(NULL).
DriftCoversRounding == Drift >= SecLen - 1

\* Rounding down to a multiple of k loses less than k.
LEMMA RoundingDown ==
    ASSUME NEW n \in Nat, NEW k \in Nat \ {0}
    PROVE  /\ (n \div k) * k \in Nat
           /\ (n \div k) * k <= n
           /\ n - (n \div k) * k <= k - 1
OBVIOUS

\* The invariants contain the types of the variables.
LEMMA Types == (KeyInv \/ RedLockInv) => TypeOK
BY Zenon DEF KeyInv, RedLockInv

\* Two majorities of the servers have a server in common.
LEMMA MajoritiesMeet ==
    ASSUME NEW S \in SUBSET Servers, NEW T \in SUBSET Servers,
           Cardinality(S) >= Quorum, Cardinality(T) >= Quorum
    PROVE  S \cap T # {}
<1>1. IsFiniteSet(Servers) /\ Cardinality(Servers) = NServers
  BY FS_Interval DEF Servers
<1>2. IsFiniteSet(S) /\ IsFiniteSet(T)
  BY <1>1, FS_Subset, Zenon
<1>3. Cardinality(S) \in Nat /\ Cardinality(T) \in Nat
  BY <1>2, FS_CardinalityType, Zenon
<1>4. Quorum \in Nat /\ 2 * Quorum > NServers
  BY DEF Quorum
<1>5. Cardinality(S) + Cardinality(T) > NServers
  BY <1>3, <1>4
<1>6. QED
  BY <1>1, <1>5, FS_MajoritiesIntersect, Zenon

\* A command of another client leaves a live key of c alone, on every server; one
\* of c itself leaves the other servers alone.
LEMMA ExecutePreserves ==
    ASSUME TypeOK, NEW m \in Commands, Execute(m),
           NEW c \in Clients, NEW s \in Servers,
           key[s].id[1] = c, key[s].exp > now,
           m.server # s \/ (m.id[1] # c /\ m.old[1] # c)
    PROVE  key'[s] = key[s]
<1>1. CASE m.server # s
  BY <1>1, Zenon DEF TypeOK, Execute
<1>2. CASE m.server = s /\ m.id[1] # c /\ m.old[1] # c
  <2>1. key[s].id # m.id /\ key[s].id # m.old /\ Live(s)
    BY <1>2, Zenon DEF Live
  <2>2. KeyAfterSet(m) = key[s] /\ KeyAfterDel(m) = key[s]
    BY <1>2, <2>1, Zenon DEF KeyAfterSet, KeyAfterDel, SetSucceeds, Holds
  <2>3. QED
    BY <1>2, <2>2, Zenon DEF TypeOK, Execute
<1>3. QED
  BY <1>1, <1>2, Zenon

\* Executing a command keeps the keys of the servers well typed.
LEMMA ExecuteType ==
    ASSUME TypeOK, NEW m \in Commands, Execute(m)
    PROVE  key' \in [Servers -> [id : Ids, exp : Nat]]
<1>1. NoKey \in [id : Ids, exp : Nat]
  BY Zenon DEF NoKey, Ids, NoCall
<1>2. m.server \in Servers /\ m.id \in Ids
  BY Zenon DEF Commands
<1>3. /\ KeyAfterSet(m) \in [id : Ids, exp : Nat]
      /\ KeyAfterDel(m) \in [id : Ids, exp : Nat]
  BY <1>1, <1>2 DEF TypeOK, KeyAfterSet, KeyAfterDel
<1>4. QED
  BY <1>2, <1>3, Zenon DEF TypeOK, Execute

\* The commands of a client.
LEMMA CommandType ==
    ASSUME TypeOK, NEW c \in Clients, idx[c] \in Servers
    PROVE  /\ SetCommand(c) \in Commands /\ DelCommand(c) \in Commands
           /\ SetCommand(c).id[1] = c /\ SetCommand(c).old[1] = c
           /\ DelCommand(c).id[1] = c /\ DelCommand(c).old[1] = c
           /\ SetCommand(c).server = idx[c] /\ DelCommand(c).server = idx[c]
           /\ SetCommand(c).id = <<c, calls[c]>>
<1>1. <<c, calls[c]>> \in Ids /\ <<c, old[c]>> \in Ids /\ <<c, NoCall>> \in Ids
  BY Zenon DEF TypeOK, Ids, NoCall
<1>2. QED
  BY <1>1, Zenon DEF SetCommand, DelCommand, Commands

-----------------------------------------------------------------------------
(* The keys a client leaves behind *)

\* The initial state satisfies the invariant.
LEMMA InitKeyInv == Init => KeyInv
<1> SUFFICES ASSUME Init PROVE KeyInv
  BY Zenon
<1>1. NoKey \in [id : Ids, exp : Nat]
  BY Zenon DEF NoKey, Ids, NoCall
<1>2. key \in [Servers -> [id : Ids, exp : Nat]]
  BY <1>1, Zenon DEF Init
<1>3. late \in SUBSET Commands /\ broken \in SUBSET (Clients \X Servers)
  BY Zenon DEF Init
<1>4. TypeOK
  BY <1>2, <1>3 DEF Init, TypeOK, Places, NoCall
<1>5. QED
  BY <1>4 DEF Init, KeyInv, LateInv, OwnKeys, Live, NoKey

\* A key of d that is live after a command was there before it, unless the command
\* is one of d's own on that server.
LEMMA ExecuteMakes ==
    ASSUME TypeOK, NEW m \in Commands, Execute(m),
           NEW d \in Clients, NEW s \in Servers,
           key'[s].id[1] = d, key'[s].exp > now,
           m.server # s \/ m.id[1] # d
    PROVE  key'[s] = key[s]
<1>1. now \in Nat /\ key \in [Servers -> [id : Ids, exp : Nat]]
  BY Zenon DEF TypeOK
<1>2. CASE m.server # s
  BY <1>1, <1>2, Zenon DEF Execute
<1>3. CASE m.server = s /\ m.id[1] # d
  <2>1. key'[s] = KeyAfterSet(m) \/ key'[s] = KeyAfterDel(m)
    BY <1>1, <1>3, Zenon DEF Execute
  <2>2. key'[s] = key[s] \/ key'[s].id = m.id \/ key'[s] = NoKey
    BY <1>3, <2>1 DEF KeyAfterSet, KeyAfterDel
  <2>3. key'[s] # NoKey
    BY <1>1 DEF NoKey
  <2>4. QED
    BY <1>3, <2>2, <2>3, Zenon
<1>4. QED
  BY <1>2, <1>3, Zenon

\* A step leaves the part of the invariant about d alone if it changes none of d's
\* variables and makes no live key of d on a server d can talk to.
LEMMA OwnKeysKept ==
    ASSUME KeyInv, NEW d \in Clients, now' \in Nat, now <= now',
           pc'[d] = pc[d], idx'[d] = idx[d], calls'[d] = calls[d],
           old'[d] = old[d], tries'[d] = tries[d],
           \A s \in Servers :
               Connected(d, s)' /\ key'[s].exp > now' /\ key'[s].id[1] = d =>
                   Connected(d, s) /\ key'[s] = key[s]
    PROVE  OwnKeys(d)'
<1>1. OwnKeys(d) /\ now \in Nat /\ \A s \in Servers : key[s].exp \in Nat
  BY Zenon DEF KeyInv, TypeOK
<1>2. ASSUME NEW s \in Servers, Connected(d, s)', key'[s].exp > now', key'[s].id[1] = d
      PROVE  /\ pc[d] # "idle"
             /\ pc[d] \in {"undo", "release"} => s >= idx[d]
             /\ key'[s].id[2] = IF pc[d] = "begin" \/ (pc[d] = "set" /\ s >= idx[d])
                               THEN old[d] ELSE calls[d]
  <2>1. Connected(d, s) /\ key'[s] = key[s] /\ key[s].exp > now
    BY <1>1, <1>2
  <2>2. QED
    BY <1>1, <1>2, <2>1 DEF OwnKeys, Live
<1>3. QED
  BY <1>1, <1>2, Zenon DEF OwnKeys, Live

\* The passing of time preserves the invariant.
LEMMA TickKeyInv ==
    ASSUME KeyInv, Tick
    PROVE  KeyInv'
<1>1. PICK e \in Delays :
          /\ now' = now + e
          /\ key' = [s \in Servers |-> IF key[s].exp <= now + e THEN NoKey ELSE key[s]]
          /\ UNCHANGED <<netVars, clientVars>>
  BY Zenon DEF Tick
<1>2. NoKey \in [id : Ids, exp : Nat]
  BY Zenon DEF NoKey, Ids, NoCall
<1>3. now \in Nat /\ now' \in Nat /\ now <= now'
  <2>1. now \in Nat /\ e \in Nat
    BY Types, Zenon DEF TypeOK
  <2>2. QED
    BY <1>1, <2>1
<1>4. TypeOK'
  BY <1>1, <1>2, <1>3, Types, Zenon DEF TypeOK, netVars, clientVars
<1>5. LateInv'
  BY <1>1, Zenon DEF KeyInv, LateInv, Connected, netVars
<1>6. ASSUME NEW d \in Clients PROVE OwnKeys(d)'
  <2>1. ASSUME NEW s \in Servers, key'[s].exp > now' PROVE key'[s] = key[s]
    BY <1>1, <1>3, <2>1 DEF NoKey
  <2>2. \A s \in Servers : Connected(d, s)' = Connected(d, s)
    BY <1>1, Zenon DEF Connected, netVars
  <2>3. QED
    BY <1>1, <1>3, <2>1, <2>2, OwnKeysKept, Zenon DEF clientVars
<1>7. QED
  BY <1>4, <1>5, <1>6, Zenon DEF KeyInv

\* A failed command that is executed after all preserves it: the client of that
\* command no longer talks to the server.
LEMMA ExecuteLateKeyInv ==
    ASSUME KeyInv, ExecuteLate
    PROVE  KeyInv'
<1>1. PICK m \in late : Execute(m) /\ late' = late \ {m}
                       /\ UNCHANGED <<now, broken, clientVars>>
  BY Zenon DEF ExecuteLate
<1>2. m \in Commands /\ now \in Nat
  BY Types, Zenon DEF TypeOK
<1>3. TypeOK'
  <2>1. key' \in [Servers -> [id : Ids, exp : Nat]]
    BY <1>1, <1>2, ExecuteType, Zenon DEF KeyInv
  <2>2. QED
    BY <1>1, <2>1, Types, Zenon DEF TypeOK, clientVars
<1>4. LateInv'
  BY <1>1, Zenon DEF KeyInv, LateInv, Connected
<1>5. ASSUME NEW d \in Clients PROVE OwnKeys(d)'
  <2>1. PICK b \in Clients : m.id[1] = b /\ m.old[1] = b /\ ~ Connected(b, m.server)
    BY Zenon DEF KeyInv, LateInv
  <2>2. \A s \in Servers : Connected(d, s)' = Connected(d, s)
    BY <1>1, Zenon DEF Connected
  <2>3. ASSUME NEW s \in Servers, Connected(d, s)', key'[s].exp > now', key'[s].id[1] = d
        PROVE  key'[s] = key[s]
    <3>1. m.server # s \/ m.id[1] # d
      BY <2>1, <2>2, <2>3, Zenon
    <3>2. QED
      BY <1>1, <1>2, <2>3, <3>1, ExecuteMakes, Zenon DEF KeyInv
  <2>4. QED
    BY <1>1, <1>2, <2>2, <2>3, OwnKeysKept DEF clientVars
<1>6. QED
  BY <1>3, <1>4, <1>5, Zenon DEF KeyInv

\* However a command of c ends, it keeps the types and concerns only c.
LEMMA CommandEnds ==
    ASSUME KeyInv, NEW c \in Clients, NEW m \in Commands,
           m.server = idx[c], m.id[1] = c, m.old[1] = c,
           Replied(c, m) \/ Fails(c, m) \/ Refused(c)
    PROVE  /\ key' \in [Servers -> [id : Ids, exp : Nat]]
           /\ late' \in SUBSET Commands
           /\ broken' \in SUBSET (Clients \X Servers)
           /\ LateInv'
           /\ \A d \in Clients, s \in Servers :
                 /\ Connected(d, s)' => Connected(d, s)
                 /\ d # c \/ s # idx[c] => (Connected(d, s) => Connected(d, s)')
<1>0. m.server \in Servers
  BY Zenon DEF Commands
<1>1. CASE Replied(c, m)
  BY <1>1, ExecuteType, Zenon DEF KeyInv, TypeOK, Replied, netVars, LateInv, Connected
<1>2. CASE Fails(c, m)
  <2>1. key' = key /\ broken' = broken \cup {<<c, idx[c]>>} /\ late' = late \cup {m}
    BY <1>2, Zenon DEF Fails
  <2>2. /\ key' \in [Servers -> [id : Ids, exp : Nat]]
        /\ late' \in SUBSET Commands
        /\ broken' \in SUBSET (Clients \X Servers)
    BY <1>0, <2>1, Types DEF TypeOK
  <2>3. LateInv'
    BY <2>1, Zenon DEF KeyInv, LateInv, Connected
  <2>4. QED
    BY <2>1, <2>2, <2>3, Zenon DEF Connected
<1>3. CASE Refused(c)
  BY <1>3, Zenon DEF KeyInv, TypeOK, Refused, netVars, LateInv, Connected
<1>4. QED
  BY <1>1, <1>2, <1>3, Zenon

\* A step in which c sends one command concerns the part of the invariant about c;
\* the rest follows.
LEMMA CommandKeyInv ==
    ASSUME KeyInv, NEW c \in Clients, NEW m \in Commands,
           m.server = idx[c], m.id[1] = c, m.old[1] = c,
           Replied(c, m) \/ Fails(c, m) \/ Refused(c),
           UNCHANGED <<now, pc, calls, old, tries, start, deadline>>,
           NextServer(c),
           got' \in [Clients -> SUBSET Servers],
           OwnKeys(c)'
    PROVE  KeyInv'
<1>1. idx[c] \in Servers
  BY Zenon DEF Commands
<1>2. idx' \in [Clients -> 1 .. NServers + 1]
  <2>1. idx[c] + 1 \in 1 .. NServers + 1
    BY <1>1 DEF Servers
  <2>2. QED
    BY <2>1, Types, Zenon DEF TypeOK, NextServer
<1>3. /\ key' \in [Servers -> [id : Ids, exp : Nat]]
      /\ late' \in SUBSET Commands
      /\ broken' \in SUBSET (Clients \X Servers)
      /\ LateInv'
  BY CommandEnds, Zenon
<1>4. TypeOK'
  BY <1>2, <1>3, Types, Zenon DEF TypeOK
<1>5. ASSUME NEW d \in Clients, d # c PROVE OwnKeys(d)'
  <2>1. ASSUME NEW s \in Servers, key'[s].exp > now', key'[s].id[1] = d
        PROVE  key'[s] = key[s]
    <3>1. key' = key \/ Execute(m)
      BY Zenon DEF Replied, Fails, Refused
    <3>2. QED
      BY <1>5, <2>1, <3>1, ExecuteMakes, Zenon DEF KeyInv
  <2>2. \A s \in Servers : Connected(d, s)' => Connected(d, s)
    BY CommandEnds, Zenon
  <2>3. idx'[d] = idx[d] /\ now \in Nat
    BY <1>5, Types, Zenon DEF NextServer, TypeOK
  <2>4. QED
    BY <2>1, <2>2, <2>3, OwnKeysKept
<1>6. QED
  BY <1>3, <1>4, <1>5, Zenon DEF KeyInv

\* LockInstance and ContinueLockInstance: where the reply arrives, a key of c is of
\* the current call, since only a key of another client makes the command fail.
LEMMA InstanceKeyInv ==
    ASSUME KeyInv, NEW c \in Clients, Instance(c)
    PROVE  KeyInv'
<1> DEFINE m == SetCommand(c)
<1>1. /\ idx[c] \in Servers /\ pc[c] = "set" /\ NextServer(c)
      /\ UNCHANGED <<now, pc, calls, old, tries, start, deadline>>
  BY Zenon DEF Instance
<1>2. /\ m \in Commands /\ m.id[1] = c /\ m.old[1] = c /\ m.server = idx[c]
      /\ m.id = <<c, calls[c]>> /\ m.op = "set" /\ m.old = <<c, old[c]>>
  BY <1>1, CommandType, Zenon DEF KeyInv, SetCommand
<1>3. \/ Replied(c, m) /\ got' = [got EXCEPT ![c] = @ \cup CountOK(c, m)]
      \/ (Fails(c, m) \/ Refused(c)) /\ got' = got
  BY Zenon DEF Instance
<1> HIDE DEF m
<1>4. CountOK(c, m) \in SUBSET Servers
  BY <1>1, <1>2, Zenon DEF CountOK
<1>5. got' \in [Clients -> SUBSET Servers]
  BY <1>3, <1>4, Types DEF TypeOK
<1>6. /\ OwnKeys(c) /\ now \in Nat /\ idx[c] \in Nat /\ idx'[c] = idx[c] + 1
      /\ calls[c] \in Nat /\ old[c] \in Nat
      /\ key \in [Servers -> [id : Ids, exp : Nat]]
  BY <1>1 DEF KeyInv, TypeOK, NextServer, Servers
<1>7. ASSUME NEW s \in Servers, Connected(c, s)', key'[s].exp > now, key'[s].id[1] = c
      PROVE  key'[s].id[2] = IF s >= idx'[c] THEN old[c] ELSE calls[c]
  <2>1. s \in Nat /\ Connected(c, s)
    BY <1>2, <1>3, <1>7, CommandEnds DEF Servers
  <2>2. CASE s # idx[c]
    <3>1. key' = key \/ Execute(m)
      BY <1>3, Zenon DEF Replied, Fails, Refused
    <3>2. key'[s] = key[s]
      BY <1>2, <1>6, <2>2, <3>1, Zenon DEF Execute
    <3>3. s >= idx'[c] <=> s >= idx[c]
      BY <1>6, <2>1, <2>2
    <3>4. QED
      BY <1>1, <1>6, <1>7, <2>1, <3>2, <3>3, Zenon DEF OwnKeys, Live
  <2>3. CASE s = idx[c]
    <3>1. Replied(c, m)
      BY <1>3, <1>7, <2>1, <2>3, Zenon DEF Fails, Refused, Connected
    <3>2. key'[s] = KeyAfterSet(m)
      BY <1>2, <1>6, <2>3, <3>1, Zenon DEF Replied, Execute
    <3>3. CASE SetSucceeds(m)
      BY <1>2, <1>6, <2>3, <3>2, <3>3 DEF KeyAfterSet
    <3>4. CASE ~ SetSucceeds(m)
      <4>1. key'[s] = key[s] /\ Live(s) /\ key[s].id # <<c, old[c]>>
        BY <1>2, <2>3, <3>2, <3>4, Zenon DEF KeyAfterSet, SetSucceeds, Holds
      <4>2. key[s].id[1] = c /\ key[s].id \in Ids
        BY <1>6, <1>7, <4>1, Zenon
      <4>3. key[s].id[2] = old[c]
        BY <1>1, <1>6, <2>1, <2>3, <4>1, <4>2 DEF OwnKeys
      <4>4. QED
        BY <4>1, <4>2, <4>3 DEF Ids
    <3>5. QED
      BY <3>3, <3>4, Zenon
  <2>4. QED
    BY <2>2, <2>3, Zenon
<1>8. OwnKeys(c)'
  BY <1>1, <1>6, <1>7, Zenon DEF OwnKeys, Live
<1>9. QED
  BY <1>1, <1>2, <1>3, <1>5, <1>8, CommandKeyInv, Zenon

\* UnlockInstance: where the reply arrives, no key of c remains.
LEMMA UnlockInstanceKeyInv ==
    ASSUME KeyInv, NEW c \in Clients, UnlockInstance(c)
    PROVE  KeyInv'
<1> DEFINE m == DelCommand(c)
<1>1. /\ idx[c] \in Servers /\ pc[c] \in {"undo", "release"} /\ NextServer(c)
      /\ UNCHANGED <<now, pc, calls, old, tries, start, got, deadline>>
      /\ Replied(c, m) \/ Fails(c, m) \/ Refused(c)
  BY Zenon DEF UnlockInstance
<1>2. /\ m \in Commands /\ m.id[1] = c /\ m.old[1] = c /\ m.server = idx[c]
      /\ m.id = <<c, calls[c]>> /\ m.op = "del"
  BY <1>1, CommandType, Zenon DEF KeyInv, DelCommand
<1> HIDE DEF m
<1>3. /\ OwnKeys(c) /\ now \in Nat /\ idx[c] \in Nat /\ idx'[c] = idx[c] + 1
      /\ key \in [Servers -> [id : Ids, exp : Nat]]
  BY <1>1 DEF KeyInv, TypeOK, NextServer, Servers
<1>4. ASSUME NEW s \in Servers, Connected(c, s)', key'[s].exp > now, key'[s].id[1] = c
      PROVE  s >= idx'[c] /\ key'[s].id[2] = calls[c]
  <2>1. s \in Nat /\ Connected(c, s)
    BY <1>1, <1>2, <1>4, CommandEnds DEF Servers
  <2>2. CASE s # idx[c]
    <3>1. key' = key \/ Execute(m)
      BY <1>1, Zenon DEF Replied, Fails, Refused
    <3>2. key'[s] = key[s]
      BY <1>2, <1>3, <2>2, <3>1, Zenon DEF Execute
    <3>3. s >= idx[c] /\ key[s].id[2] = calls[c]
      BY <1>1, <1>3, <1>4, <2>1, <3>2, Zenon DEF OwnKeys, Live
    <3>4. QED
      BY <1>3, <2>1, <2>2, <3>2, <3>3
  <2>3. CASE s = idx[c]
    <3>1. Replied(c, m)
      BY <1>1, <1>4, <2>1, <2>3, Zenon DEF Fails, Refused, Connected
    <3>2. key'[s] = KeyAfterDel(m)
      BY <1>2, <1>3, <2>3, <3>1, Zenon DEF Replied, Execute
    <3>3. key'[s] # NoKey
      BY <1>3, <1>4 DEF NoKey
    <3>4. key'[s] = key[s] /\ Live(s) /\ key[s].id # <<c, calls[c]>>
      BY <1>2, <1>4, <2>3, <3>2, <3>3, Zenon DEF KeyAfterDel, Holds, Live
    <3>5. key[s].id[1] = c /\ key[s].id \in Ids
      BY <1>3, <1>4, <3>4, Zenon
    <3>6. key[s].id[2] = calls[c]
      BY <1>1, <1>3, <2>1, <3>4, <3>5, Zenon DEF OwnKeys
    <3>7. QED
      BY <3>4, <3>5, <3>6 DEF Ids
  <2>4. QED
    BY <2>2, <2>3, Zenon
<1>5. OwnKeys(c)'
  BY <1>1, <1>3, <1>4, Zenon DEF OwnKeys, Live
<1>6. got' \in [Clients -> SUBSET Servers]
  BY <1>1, Types, Zenon DEF TypeOK
<1>7. QED
  BY <1>1, <1>2, <1>5, <1>6, CommandKeyInv, Zenon

\* A step of c that neither sends a command nor takes time.
Local(c) ==
    /\ now' = now /\ key' = key /\ late' = late /\ broken' = broken
    /\ \A d \in Clients \ {c} :
          /\ pc'[d] = pc[d] /\ idx'[d] = idx[d] /\ calls'[d] = calls[d] /\ old'[d] = old[d]
          /\ tries'[d] = tries[d] /\ start'[d] = start[d] /\ got'[d] = got[d]
          /\ deadline'[d] = deadline[d]

\* Such a step concerns only the part of the invariant about c.
LEMMA LocalKeyInv ==
    ASSUME KeyInv, NEW c \in Clients, Local(c), TypeOK', OwnKeys(c)'
    PROVE  KeyInv'
<1>1. LateInv'
  BY Zenon DEF KeyInv, Local, LateInv, Connected
<1>2. ASSUME NEW d \in Clients, d # c PROVE OwnKeys(d)'
  <2>1. \A s \in Servers : (Connected(d, s)' <=> Connected(d, s)) /\ key'[s] = key[s]
    BY Zenon DEF Local, Connected
  <2>2. now \in Nat /\ now' = now
    BY Types, Zenon DEF TypeOK, Local
  <2>3. QED
    BY <1>2, <2>1, <2>2, OwnKeysKept DEF Local
<1>3. QED
  BY <1>1, <1>2, Zenon DEF KeyInv

\* A new call of Lock or ContinueLock: what the client keeps of its last call, if it
\* continues, has the id it is about to replace.
LEMMA CallKeyInv ==
    ASSUME KeyInv, NEW c \in Clients, Call(c)
    PROVE  KeyInv' /\ Local(c)
<1>1. Local(c)
  BY Types, Zenon DEF TypeOK, Call, Local, netVars
<1>2. TypeOK'
  BY Types DEF TypeOK, Call, netVars, Places
<1>3. OwnKeys(c) /\ calls[c] \in Nat /\ old[c] \in Nat
  BY Zenon DEF KeyInv, TypeOK
<1>4. /\ pc'[c] = "begin" /\ tries'[c] = RetryCount /\ calls'[c] = calls[c] + 1
      /\ old'[c] = IF c \in Continuers /\ old[c] = NoCall THEN calls[c] + 1 ELSE old[c]
      /\ pc[c] = "idle" \/ (pc[c] = "held" /\ c \in Continuers)
      /\ UNCHANGED <<now, key, broken>>
  BY Types, Zenon DEF TypeOK, Call, netVars
<1>5. ASSUME NEW s \in Servers, Connected(c, s), Live(s), key[s].id[1] = c
      PROVE  key[s].id[2] = old'[c]
  BY <1>3, <1>4, <1>5, Zenon DEF OwnKeys
<1>6. OwnKeys(c)'
  BY <1>3, <1>4, <1>5 DEF OwnKeys, Live, Connected, NoCall
<1>7. QED
  BY <1>1, <1>2, <1>6, LocalKeyInv, Zenon

\* The beginning of a round.
LEMMA BeginKeyInv ==
    ASSUME KeyInv, NEW c \in Clients, Begin(c)
    PROVE  KeyInv' /\ Local(c)
<1>1. Local(c)
  BY Types, Zenon DEF TypeOK, Begin, Local, netVars
<1>2. Seconds \in Nat
  BY RoundingDown, Types, Zenon DEF TypeOK, Seconds
<1>3. TypeOK'
  BY <1>2, Types DEF TypeOK, Begin, netVars, Places
<1>4. /\ OwnKeys(c) /\ pc[c] = "begin" /\ pc'[c] = "set" /\ idx'[c] = 1
      /\ UNCHANGED <<now, key, broken, calls, old, tries>>
      /\ \A s \in Servers : s >= 1
  BY DEF KeyInv, TypeOK, Begin, netVars, Servers
<1>5. OwnKeys(c)'
  BY <1>4, Zenon DEF OwnKeys, Live, Connected
<1>6. QED
  BY <1>1, <1>3, <1>5, LocalKeyInv, Zenon

\* The end of a round: a command has been sent to every server.
LEMMA DecideKeyInv ==
    ASSUME KeyInv, NEW c \in Clients, Decide(c)
    PROVE  KeyInv' /\ Local(c)
<1>1. Local(c)
  BY Types, Zenon DEF TypeOK, Decide, Local, netVars
<1>2. Seconds \in Nat /\ now \in Nat /\ start[c] \in Nat /\ Drift \in Nat
  <2>1. now \in Nat /\ start[c] \in Nat
    BY Types, Zenon DEF TypeOK
  <2>2. Drift \in Nat
    BY DEF Drift
  <2>3. QED
    BY <2>1, <2>2, RoundingDown, Zenon DEF Seconds
<1>3. TypeOK'
  <2>1. CASE Granted(c)
    <3>1. now + Validity(c) \in Nat
      BY <1>2, <2>1 DEF Granted, Validity
    <3>2. QED
      BY <2>1, <3>1, Types DEF TypeOK, Decide, netVars, Places
  <2>2. CASE ~ Granted(c)
    BY <2>2, Types DEF TypeOK, Decide, netVars, Places
  <2>3. QED
    BY <2>1, <2>2, Zenon
<1>4. /\ OwnKeys(c) /\ pc[c] = "set" /\ pc'[c] \in {"held", "undo"} /\ idx'[c] = 1
      /\ old'[c] = IF c \in Continuers THEN calls[c] ELSE old[c]
      /\ UNCHANGED <<now, key, broken, calls, tries>>
  BY Zenon DEF KeyInv, TypeOK, Decide, netVars
<1>5. \A s \in Servers : s >= 1 /\ ~ (s >= idx[c])
  <2>1. idx[c] \in 1 .. NServers + 1 /\ idx[c] \notin Servers
    BY Types, Zenon DEF Decide, TypeOK
  <2>2. QED
    BY <2>1 DEF Servers
<1>6. OwnKeys(c)'
  BY <1>4, <1>5, Zenon DEF OwnKeys, Live, Connected
<1>7. QED
  BY <1>1, <1>3, <1>6, LocalKeyInv, Zenon

\* The user's Unlock.
LEMMA ReleaseKeyInv ==
    ASSUME KeyInv, NEW c \in Clients, Release(c)
    PROVE  KeyInv' /\ Local(c)
<1>1. Local(c)
  BY Types, Zenon DEF TypeOK, Release, Local, netVars
<1>2. TypeOK'
  BY Types DEF TypeOK, Release, netVars, Places
<1>3. /\ OwnKeys(c) /\ pc[c] = "held" /\ pc'[c] = "release" /\ idx'[c] = 1
      /\ UNCHANGED <<now, key, broken, calls, old, tries>>
      /\ \A s \in Servers : s >= 1
  BY DEF KeyInv, TypeOK, Release, netVars, Servers
<1>4. OwnKeys(c)'
  BY <1>3, Zenon DEF OwnKeys, Live, Connected
<1>5. QED
  BY <1>1, <1>2, <1>4, LocalKeyInv, Zenon

\* The return of Unlock: it has passed every server.
LEMMA UnlockReturnsKeyInv ==
    ASSUME KeyInv, NEW c \in Clients, UnlockReturns(c)
    PROVE  KeyInv' /\ Local(c)
<1>1. Local(c)
  BY Types, Zenon DEF TypeOK, UnlockReturns, Local, netVars
<1>2. /\ tries[c] \in Nat
      /\ pc[c] = "undo" => tries[c] > 0
  BY Zenon DEF KeyInv, TypeOK, OwnKeys
<1>3. PICK n \in Nat, place \in {"begin", "idle"} :
          /\ tries' = [tries EXCEPT ![c] = n]
          /\ pc' = [pc EXCEPT ![c] = place]
          /\ place = "begin" => n > 0
  <2>1. CASE pc[c] = "undo"
    <3>1. /\ tries' = [tries EXCEPT ![c] = tries[c] - 1]
          /\ pc' = [pc EXCEPT ![c] = AfterUndo(c)]
      BY <2>1, Zenon DEF UnlockReturns
    <3>2. tries[c] - 1 \in Nat
      BY <1>2, <2>1
    <3>3. AfterUndo(c) \in {"begin", "idle"} /\ (AfterUndo(c) = "begin" => tries[c] - 1 > 0)
      BY Zenon DEF AfterUndo
    <3>4. QED
      BY <3>1, <3>2, <3>3, Zenon
  <2>2. CASE pc[c] # "undo"
    <3>1. /\ tries' = [tries EXCEPT ![c] = tries[c]]
          /\ pc' = [pc EXCEPT ![c] = "idle"]
      BY <2>2, Zenon DEF UnlockReturns
    <3>2. QED
      BY <1>2, <3>1, Zenon
  <2>3. QED
    BY <2>1, <2>2, Zenon
<1>4. /\ got' = [got EXCEPT ![c] = {}]
      /\ UNCHANGED <<now, key, late, broken, idx, calls, old, start, deadline>>
  BY Zenon DEF UnlockReturns, netVars
<1>5. TypeOK'
  BY <1>3, <1>4, Types, Zenon DEF TypeOK, Places
<1>6. /\ OwnKeys(c) /\ pc[c] \in {"undo", "release"} /\ pc'[c] \in {"begin", "idle"}
      /\ pc'[c] = "begin" => tries'[c] > 0
  BY <1>3, <1>4, Zenon DEF KeyInv, TypeOK, UnlockReturns
<1>7. \A s \in Servers : ~ (s >= idx[c])
  <2>1. idx[c] \in 1 .. NServers + 1 /\ idx[c] \notin Servers
    BY Types, Zenon DEF UnlockReturns, TypeOK
  <2>2. QED
    BY <2>1 DEF Servers
<1>8. OwnKeys(c)'
  BY <1>4, <1>6, <1>7, Zenon DEF OwnKeys, Live, Connected
<1>9. QED
  BY <1>1, <1>5, <1>8, LocalKeyInv, Zenon

\* Every step preserves the invariant.
LEMMA NextKeyInv == KeyInv /\ [Next]_vars => KeyInv'
<1> SUFFICES ASSUME KeyInv, [Next]_vars PROVE KeyInv'
  BY Zenon
<1>1. CASE UNCHANGED vars
  BY <1>1, Zenon DEF vars, netVars, clientVars, KeyInv, TypeOK, LateInv, OwnKeys, Live, Connected
<1>2. CASE Tick
  BY <1>2, TickKeyInv, Zenon
<1>3. CASE ExecuteLate
  BY <1>3, ExecuteLateKeyInv, Zenon
<1>4. CASE \E c \in Clients : Client(c)
  <2>1. PICK c \in Clients : Client(c)
    BY <1>4, Zenon
  <2>2. QED
    BY <2>1, CallKeyInv, BeginKeyInv, InstanceKeyInv, DecideKeyInv, ReleaseKeyInv,
       UnlockInstanceKeyInv, UnlockReturnsKeyInv, Zenon DEF Client
<1>5. QED
  BY <1>1, <1>2, <1>3, <1>4, Zenon DEF Next

\* Whatever the drift allowance: once Lock has failed or Unlock has returned, no server
\* the client can still talk to keeps a key of it.
THEOREM NothingLeftBehindThm == Spec => []NothingLeftBehind
<1>1. Init => KeyInv
  BY InitKeyInv, Zenon
<1>2. KeyInv /\ [Next]_vars => KeyInv'
  BY NextKeyInv, Zenon
<1>3. KeyInv => NothingLeftBehind
  BY Zenon DEF KeyInv, OwnKeys, NothingLeftBehind
<1>4. QED
  BY <1>1, <1>2, <1>3, PTL DEF Spec
-----------------------------------------------------------------------------
(* Mutual exclusion *)

\* The initial state satisfies the inductive invariant.
LEMMA InitInv == Init => RedLockInv
BY InitKeyInv DEF Init, RedLockInv, ClientInv

\* The times up to which the invariant promises the keys.
LEMMA PromiseType ==
    ASSUME RedLockInv, NEW c \in Clients
    PROVE  start[c] + Ttl \in Nat /\ deadline[c] \in Nat
BY DEF RedLockInv, KeyInv, TypeOK

\* The passing of time preserves it: a key that expires was not promised longer.
LEMMA TickInv ==
    ASSUME RedLockInv, Tick
    PROVE  RedLockInv'
<1>1. PICK d \in Delays :
          /\ now' = now + d
          /\ key' = [s \in Servers |-> IF key[s].exp <= now + d THEN NoKey ELSE key[s]]
          /\ UNCHANGED <<netVars, clientVars>>
  BY Zenon DEF Tick
<1>3. now \in Nat /\ now' \in Nat /\ now <= now'
  <2>1. now \in Nat /\ d \in Nat
    BY Types, Zenon DEF TypeOK
  <2>2. QED
    BY <1>1, <2>1
<1>4. KeyInv'
  BY TickKeyInv, Zenon DEF RedLockInv
<1>6. ASSUME NEW c \in Clients, NEW until \in Nat, Intact(c, until)
      PROVE  Intact(c, until)'
  <2> SUFFICES ASSUME NEW s \in got[c]
               PROVE  /\ Connected(c, s)
                      /\ now' < until => key'[s].id = <<c, calls[c]>> /\ key'[s].exp >= until
    BY <1>1, Zenon DEF Intact, netVars, clientVars, Connected
  <2>1. s \in Servers /\ key[s].exp \in Nat
    BY Types, Zenon DEF TypeOK
  <2>2. QED
    BY <1>1, <1>3, <1>6, <2>1 DEF Intact
<1>7. ASSUME NEW c \in Clients PROVE ClientInv(c)'
  <2>1. ClientInv(c) /\ start[c] \in Nat
    BY Zenon DEF RedLockInv, KeyInv, TypeOK
  <2>2. UNCHANGED <<pc, tries, start, deadline, got, calls, idx>>
    BY <1>1, Zenon DEF clientVars
  <2>3. PICK u \in Nat, v \in Nat : u = start[c] + Ttl /\ v = deadline[c]
    BY PromiseType, Zenon
  <2>4. /\ pc[c] = "set" => Intact(c, u)'
        /\ pc[c] = "held" => Intact(c, v)'
    BY <1>6, <2>1, <2>3, Zenon DEF ClientInv
  <2>5. start'[c] <= now'
    BY <1>3, <2>1, <2>2 DEF ClientInv
  <2>6. QED
    BY <2>1, <2>2, <2>3, <2>4, <2>5, Zenon DEF ClientInv, Intact
<1>8. QED
  BY <1>4, <1>7, Zenon DEF RedLockInv

\* What c counts on survives a command of another client, or one sent to a server
\* that c does not count.
LEMMA IntactAfterExecute ==
    ASSUME RedLockInv, NEW m \in Commands, Execute(m), now' = now,
           NEW c \in Clients, NEW until \in Nat, Intact(c, until),
           m.server \notin got[c] \/ (m.id[1] # c /\ m.old[1] # c),
           got'[c] = got[c], calls'[c] = calls[c],
           \A s \in got[c] : Connected(c, s)'
    PROVE  Intact(c, until)'
<1> SUFFICES ASSUME NEW s \in got[c], now < until
             PROVE  key'[s].id = <<c, calls[c]>> /\ key'[s].exp >= until
  BY Zenon DEF Intact
<1>1. s \in Servers
  BY Types, Zenon DEF TypeOK
<1>2. key[s].id = <<c, calls[c]>> /\ key[s].exp >= until
  BY Zenon DEF Intact
<1>3. key[s].exp \in Nat /\ now \in Nat
  BY <1>1, Types, Zenon DEF TypeOK
<1>4. key[s].id[1] = c /\ key[s].exp > now
  BY <1>2, <1>3
<1>5. key'[s] = key[s]
  BY <1>1, <1>4, ExecutePreserves DEF RedLockInv, KeyInv
<1>6. QED
  BY <1>2, <1>5, Zenon

\* The keys change, if at all, by a command c need not fear.
Harmless(c) ==
    \/ key' = key
    \/ \E m \in Commands :
          /\ Execute(m)
          /\ m.server \notin got[c] \/ (m.id[1] # c /\ m.old[1] # c)

\* A step preserves the part of the invariant about a client whose variables it
\* leaves alone, as long as it executes a harmless command and breaks no
\* connection the client counts on.
LEMMA Bystander ==
    ASSUME RedLockInv, NEW c \in Clients, now' = now, Harmless(c),
           pc'[c] = pc[c], idx'[c] = idx[c], calls'[c] = calls[c],
           tries'[c] = tries[c], start'[c] = start[c], got'[c] = got[c],
           deadline'[c] = deadline[c],
           pc[c] \in {"set", "held"} =>
               \A s \in got[c] : Connected(c, s) => Connected(c, s)'
    PROVE  ClientInv(c)'
<1>1. ClientInv(c)
  BY Zenon DEF RedLockInv
<1>2. ASSUME NEW until \in Nat, Intact(c, until), pc[c] \in {"set", "held"}
      PROVE  Intact(c, until)'
  <2>1. \A s \in got[c] : Connected(c, s)'
    BY <1>2, Zenon DEF Intact
  <2>2. CASE key' = key
    BY <1>2, <2>1, <2>2, Zenon DEF Intact
  <2>3. CASE key' # key
    BY <1>2, <2>1, <2>3, IntactAfterExecute, Zenon DEF Harmless
  <2>4. QED
    BY <2>2, <2>3, Zenon
<1>3. PICK u \in Nat, v \in Nat : u = start[c] + Ttl /\ v = deadline[c]
  BY PromiseType, Zenon
<1>4. /\ pc[c] = "set" => Intact(c, u)'
      /\ pc[c] = "held" => Intact(c, v)'
  BY <1>1, <1>2, <1>3, Zenon DEF ClientInv
<1>5. QED
  BY <1>1, <1>3, <1>4, Zenon DEF ClientInv, Intact

\* A failed command that is executed after all preserves the invariant: its
\* client no longer counts its server.
LEMMA ExecuteLateInv ==
    ASSUME RedLockInv, ExecuteLate
    PROVE  RedLockInv'
<1>1. PICK m \in late : Execute(m) /\ late' = late \ {m}
                       /\ UNCHANGED <<now, broken, clientVars>>
  BY Zenon DEF ExecuteLate
<1>2. m \in Commands
  BY Types, Zenon DEF TypeOK
<1>3. KeyInv'
  BY ExecuteLateKeyInv, Zenon DEF RedLockInv
<1>5. ASSUME NEW c \in Clients PROVE ClientInv(c)'
  <2>1. PICK b \in Clients : m.id[1] = b /\ m.old[1] = b /\ ~ Connected(b, m.server)
    BY Zenon DEF RedLockInv, KeyInv, LateInv
  <2>2. CASE b # c \/ m.server \notin got[c]
    <3>1. Harmless(c)
      BY <1>1, <1>2, <2>1, <2>2, Zenon DEF Harmless
    <3>2. QED
      BY <1>1, <3>1, Bystander, Zenon DEF clientVars, Connected
  <2>3. CASE b = c /\ m.server \in got[c]
    <3>1. pc[c] \notin {"set", "held"}
      BY <2>1, <2>3, Zenon DEF RedLockInv, ClientInv, Intact
    <3>2. QED
      BY <1>1, <3>1, Zenon DEF RedLockInv, ClientInv, clientVars
  <2>4. QED
    BY <2>2, <2>3, Zenon
<1>6. QED
  BY <1>3, <1>5, Zenon DEF RedLockInv

\* However a command of c ends, it is harmless to the other clients, and to c when
\* c does not count its server.
LEMMA Outcome ==
    ASSUME NEW c \in Clients, NEW m \in Commands,
           m.server = idx[c], m.id[1] = c, m.old[1] = c,
           Replied(c, m) \/ Fails(c, m) \/ Refused(c)
    PROVE  /\ \A d \in Clients \ {c} : Harmless(d)
           /\ idx[c] \notin got[c] => Harmless(c)
BY Zenon DEF Replied, Fails, Refused, Harmless

\* A local step of c concerns only the part of the invariant about c.
LEMMA LocalInv ==
    ASSUME RedLockInv, NEW c \in Clients, Local(c), KeyInv', ClientInv(c)'
    PROVE  RedLockInv'
<1>2. ASSUME NEW d \in Clients, d # c PROVE ClientInv(d)'
  <2>1. Harmless(d)
    BY Zenon DEF Harmless, Local
  <2>2. \A s \in got[d] : Connected(d, s) => Connected(d, s)'
    BY Zenon DEF Local, Connected
  <2>3. QED
    BY <1>2, <2>1, <2>2, Bystander, Zenon DEF Local
<1>3. QED
  BY <1>2, Zenon DEF RedLockInv

\* A new call of Lock or ContinueLock preserves the invariant.
LEMMA CallInv ==
    ASSUME RedLockInv, NEW c \in Clients, Call(c)
    PROVE  RedLockInv'
<1>1. Local(c) /\ KeyInv'
  BY CallKeyInv, Zenon DEF RedLockInv
<1>2. pc'[c] = "begin" /\ start'[c] = start[c] /\ now' = now
  BY Types, Zenon DEF TypeOK, Call
<1>3. ClientInv(c)'
  BY <1>2, Zenon DEF RedLockInv, ClientInv
<1>4. QED
  BY <1>1, <1>3, LocalInv, Zenon

\* The beginning of a round preserves it: nothing is counted yet.
LEMMA BeginInv ==
    ASSUME RedLockInv, NEW c \in Clients, Begin(c)
    PROVE  RedLockInv'
<1>1. Local(c) /\ KeyInv'
  BY BeginKeyInv, Zenon DEF RedLockInv
<1>2. Seconds \in Nat /\ Seconds <= now
  BY RoundingDown, Types, Zenon DEF TypeOK, Seconds
<1>3. pc'[c] = "set" /\ start'[c] = Seconds /\ got'[c] = {} /\ now' = now
  BY Types, Zenon DEF TypeOK, Begin
<1>4. ClientInv(c)'
  BY <1>2, <1>3, Zenon DEF ClientInv, Intact
<1>5. QED
  BY <1>1, <1>4, LocalInv, Zenon

\* The user's Unlock preserves it.
LEMMA ReleaseInv ==
    ASSUME RedLockInv, NEW c \in Clients, Release(c)
    PROVE  RedLockInv'
<1>1. Local(c) /\ KeyInv'
  BY ReleaseKeyInv, Zenon DEF RedLockInv
<1>2. pc'[c] = "release" /\ start'[c] = start[c] /\ now' = now
  BY Types, Zenon DEF TypeOK, Release
<1>3. ClientInv(c)'
  BY <1>2, Zenon DEF RedLockInv, ClientInv
<1>4. QED
  BY <1>1, <1>3, LocalInv, Zenon

\* The return of Unlock preserves it.
LEMMA UnlockReturnsInv ==
    ASSUME RedLockInv, NEW c \in Clients, UnlockReturns(c)
    PROVE  RedLockInv'
<1>1. Local(c) /\ KeyInv'
  BY UnlockReturnsKeyInv, Zenon DEF RedLockInv
<1>2. pc'[c] \in {"begin", "idle"} /\ start'[c] = start[c] /\ now' = now
  BY Types, Zenon DEF TypeOK, UnlockReturns, AfterUndo
<1>3. ClientInv(c)'
  BY <1>2, Zenon DEF RedLockInv, ClientInv
<1>4. QED
  BY <1>1, <1>3, LocalInv, Zenon

\* The end of a round preserves the invariant.  The deadline lies no later than
\* the expiry of the keys that were counted, because what time(NULL) rounds away
\* is within the drift allowance.
LEMMA DecideInv ==
    ASSUME RedLockInv, DriftCoversRounding, NEW c \in Clients, Decide(c)
    PROVE  RedLockInv'
<1>1. Local(c) /\ KeyInv'
  BY DecideKeyInv, Zenon DEF RedLockInv
<1>2. /\ Seconds \in Nat /\ now - Seconds <= SecLen - 1
      /\ now \in Nat /\ start[c] \in Nat /\ Drift \in Nat
  <2>1. now \in Nat /\ start[c] \in Nat
    BY Types, Zenon DEF TypeOK
  <2>2. Drift \in Nat
    BY DEF Drift
  <2>3. QED
    BY <2>1, <2>2, RoundingDown, Zenon DEF Seconds
<1>3. /\ pc[c] = "set" /\ Intact(c, start[c] + Ttl)
      /\ got' = got /\ calls' = calls /\ now' = now /\ key' = key /\ broken' = broken
      /\ start'[c] = 0
  BY Zenon DEF RedLockInv, KeyInv, TypeOK, ClientInv, Decide, netVars
<1>4. CASE ~ Granted(c)
  <2>1. pc'[c] = "undo"
    BY <1>4, Types, Zenon DEF TypeOK, Decide
  <2>2. ClientInv(c)'
    BY <1>2, <1>3, <2>1 DEF ClientInv
  <2>3. QED
    BY <1>1, <2>2, LocalInv, Zenon
<1>5. CASE Granted(c)
  <2>1. /\ pc' = [pc EXCEPT ![c] = "held"]
        /\ deadline' = [deadline EXCEPT ![c] = now + Validity(c)]
        /\ Cardinality(got[c]) >= Quorum
        /\ Validity(c) > 0
    BY <1>5, Zenon DEF Decide, Granted
  <2>2. /\ now + Validity(c) \in Nat
        /\ now + Validity(c) <= start[c] + Ttl
    BY <1>2, <2>1 DEF Validity, DriftCoversRounding
  <2>4. pc'[c] = "held" /\ deadline'[c] = now + Validity(c)
    BY <2>1, Types, Zenon DEF TypeOK
  <2>5. ASSUME NEW s \in got[c], now < now + Validity(c)
        PROVE  key[s].id = <<c, calls[c]>> /\ key[s].exp >= now + Validity(c)
    <3>1. key[s].exp \in Nat
      BY Types, Zenon DEF TypeOK
    <3>2. start[c] + Ttl \in Nat /\ now < start[c] + Ttl
      BY <1>2, <2>2, <2>5
    <3>3. key[s].id = <<c, calls[c]>> /\ key[s].exp >= start[c] + Ttl
      BY <1>3, <3>2, Zenon DEF Intact
    <3>4. QED
      BY <2>2, <3>1, <3>2, <3>3
  <2>6. Intact(c, deadline[c])'
    BY <1>3, <2>4, <2>5, Zenon DEF Intact, Connected
  <2>7. ClientInv(c)'
    BY <1>2, <1>3, <2>1, <2>4, <2>6 DEF ClientInv
  <2>8. QED
    BY <1>1, <2>7, LocalInv, Zenon
<1>6. QED
  BY <1>4, <1>5, Zenon

\* A step in which c sends one command concerns the part of the invariant about c;
\* the rest follows.
LEMMA CommandInv ==
    ASSUME RedLockInv, NEW c \in Clients, NEW m \in Commands,
           m.server = idx[c], m.id[1] = c, m.old[1] = c,
           Replied(c, m) \/ Fails(c, m) \/ Refused(c),
           UNCHANGED <<now, pc, calls, old, tries, start, deadline>>,
           NextServer(c),
           \A d \in Clients \ {c} : got'[d] = got[d],
           KeyInv', ClientInv(c)'
    PROVE  RedLockInv'
<1>1. ASSUME NEW d \in Clients, d # c PROVE ClientInv(d)'
  <2>1. Harmless(d)
    BY <1>1, Outcome, Zenon
  <2>2. got[d] \in SUBSET Servers
    BY Types, Zenon DEF TypeOK
  <2>3. \A s \in got[d] : Connected(d, s) => Connected(d, s)'
    BY <1>1, <2>2, CommandEnds, Zenon DEF RedLockInv
  <2>4. idx'[d] = idx[d] /\ got'[d] = got[d]
    BY <1>1, Types, Zenon DEF NextServer, TypeOK
  <2>5. QED
    BY <2>1, <2>3, <2>4, Bystander, Zenon
<1>2. QED
  BY <1>1, Zenon DEF RedLockInv

\* LockInstance and ContinueLockInstance preserve the invariant: a server that is
\* counted has just set the key for the whole of ttl.
LEMMA InstanceInv ==
    ASSUME RedLockInv, NEW c \in Clients, Instance(c)
    PROVE  RedLockInv'
<1> DEFINE m == SetCommand(c)
<1>0. PICK u \in Nat : u = start[c] + Ttl
  BY PromiseType, Zenon
<1>1. idx[c] \in Servers /\ pc[c] = "set" /\ NextServer(c)
      /\ UNCHANGED <<now, pc, calls, old, tries, start, deadline>>
  BY Zenon DEF Instance
<1>2. /\ m \in Commands /\ m.id[1] = c /\ m.old[1] = c /\ m.server = idx[c]
      /\ m.id = <<c, calls[c]>> /\ m.op = "set"
  BY <1>1, CommandType, Zenon DEF RedLockInv, KeyInv, SetCommand
<1>3. \/ Replied(c, m) /\ got' = [got EXCEPT ![c] = @ \cup CountOK(c, m)]
      \/ (Fails(c, m) \/ Refused(c)) /\ got' = got
  BY Zenon DEF Instance
<1> HIDE DEF m
<1>4. CountOK(c, m) \in SUBSET Servers /\ CountOK(c, m) \in SUBSET {idx[c]}
  BY <1>1, <1>2, Zenon DEF CountOK
<1>5. PICK N \in SUBSET {idx[c]} :
          /\ got' = [got EXCEPT ![c] = @ \cup N]
          /\ idx[c] \in N => Replied(c, m) /\ SetSucceeds(m)
  <2>1. CASE Replied(c, m) /\ got' = [got EXCEPT ![c] = @ \cup CountOK(c, m)]
    BY <1>4, <2>1, Zenon DEF CountOK
  <2>2. CASE got' = got
    <3>1. got' = [got EXCEPT ![c] = @ \cup {}]
      BY <2>2, Types, Zenon DEF TypeOK
    <3>2. {} \in SUBSET {idx[c]} /\ idx[c] \notin {}
      BY Zenon
    <3>3. QED
      BY <3>1, <3>2, Zenon
  <2>3. QED
    BY <1>3, <2>1, <2>2, Zenon
<1>6. got'[c] = got[c] \cup N
      /\ \A d \in Clients \ {c} : got'[d] = got[d]
  BY <1>1, <1>5, Types, Zenon DEF TypeOK
<1>7. /\ now \in Nat /\ now + Ttl >= u /\ idx[c] \in Nat
      /\ Intact(c, u) /\ start[c] <= now
      /\ \A s \in got[c] : s \in Servers /\ s < idx[c]
  <2>1. ClientInv(c) /\ now \in Nat /\ start[c] \in Nat /\ got[c] \in SUBSET Servers
    BY Zenon DEF RedLockInv, KeyInv, TypeOK
  <2>2. QED
    BY <1>0, <1>1, <2>1 DEF ClientInv, Servers
<1>8. ASSUME NEW s \in got[c]
      PROVE  Connected(c, s)' /\ (now < u => key'[s].id = <<c, calls[c]>> /\ key'[s].exp >= u)
  <2>1. s \in Servers /\ s # idx[c]
    BY <1>7
  <2>2. Connected(c, s)'
    BY <1>2, <1>3, <1>7, <2>1, CommandEnds DEF RedLockInv, Intact
  <2>3. key'[s] = key[s]
    BY <1>2, <1>3, <2>1, Types, Zenon DEF TypeOK, Replied, Execute, Fails, Refused
  <2>4. QED
    BY <1>7, <2>2, <2>3, Zenon DEF Intact
<1>9. ASSUME idx[c] \in N
      PROVE  /\ <<c, idx[c]>> \notin broken'
             /\ key'[idx[c]].id = <<c, calls[c]>> /\ key'[idx[c]].exp >= u
  <2>1. Replied(c, m) /\ SetSucceeds(m)
    BY <1>5, <1>9, Zenon
  <2>2. key'[idx[c]] = [id |-> <<c, calls[c]>>, exp |-> now + Ttl]
    BY <1>1, <1>2, <2>1, Types, Zenon DEF TypeOK, Replied, Execute, KeyAfterSet
  <2>3. <<c, idx[c]>> \notin broken'
    BY <2>1, Zenon DEF Replied, Connected, netVars
  <2>4. key'[idx[c]].id = <<c, calls[c]>> /\ key'[idx[c]].exp = now + Ttl
    BY <2>2
  <2>5. QED
    BY <1>7, <2>3, <2>4, Zenon
<1>10. \A s \in got'[c] : s < idx'[c]
  <2>1. idx'[c] = idx[c] + 1
    BY <1>1, Types, Zenon DEF NextServer, TypeOK
  <2>2. ASSUME NEW s \in got'[c] PROVE s \in Nat /\ s <= idx[c]
    BY <1>6, <1>7 DEF Servers
  <2>3. QED
    BY <1>7, <2>1, <2>2
<1>11. ClientInv(c)'
  <2>1. Intact(c, u)'
    BY <1>1, <1>6, <1>8, <1>9, Zenon DEF Intact, Connected
  <2>2. Intact(c, start[c] + Ttl)'
    BY <1>0, <1>1, <2>1, Zenon DEF Intact
  <2>3. pc'[c] = "set" /\ start'[c] <= now'
    BY <1>1, <1>7, Zenon
  <2>4. QED
    BY <1>10, <2>2, <2>3, Zenon DEF ClientInv
<1>12. QED
  BY <1>1, <1>2, <1>3, <1>6, <1>11, InstanceKeyInv, CommandInv, Zenon DEF RedLockInv

\* UnlockInstance preserves the invariant: its client counts on nothing.
LEMMA UnlockInstanceInv ==
    ASSUME RedLockInv, NEW c \in Clients, UnlockInstance(c)
    PROVE  RedLockInv'
<1> DEFINE m == DelCommand(c)
<1>1. /\ idx[c] \in Servers /\ pc[c] \in {"undo", "release"} /\ NextServer(c)
      /\ UNCHANGED <<now, pc, calls, old, tries, start, got, deadline>>
      /\ Replied(c, m) \/ Fails(c, m) \/ Refused(c)
  BY Zenon DEF UnlockInstance
<1>2. m \in Commands /\ m.id[1] = c /\ m.old[1] = c /\ m.server = idx[c]
  BY <1>1, CommandType, Zenon DEF RedLockInv, KeyInv
<1> HIDE DEF m
<1>3. ClientInv(c)'
  BY <1>1, Zenon DEF RedLockInv, ClientInv
<1>4. QED
  BY <1>1, <1>2, <1>3, UnlockInstanceKeyInv, CommandInv, Zenon DEF RedLockInv

\* Every step preserves the inductive invariant.
LEMMA NextInv == DriftCoversRounding /\ RedLockInv /\ [Next]_vars => RedLockInv'
<1> SUFFICES ASSUME DriftCoversRounding, RedLockInv, [Next]_vars PROVE RedLockInv'
  BY Zenon
<1>1. CASE UNCHANGED vars
  BY <1>1, NextKeyInv, Zenon DEF vars, netVars, clientVars, RedLockInv, ClientInv, Intact, Connected
<1>2. CASE Tick
  BY <1>2, TickInv, Zenon
<1>3. CASE ExecuteLate
  BY <1>3, ExecuteLateInv, Zenon
<1>4. CASE \E c \in Clients : Client(c)
  <2>1. PICK c \in Clients : Client(c)
    BY <1>4, Zenon
  <2>2. QED
    BY <2>1, CallInv, BeginInv, InstanceInv, DecideInv, ReleaseInv, UnlockInstanceInv,
       UnlockReturnsInv, Zenon DEF Client
<1>5. QED
  BY <1>1, <1>2, <1>3, <1>4, Zenon DEF Next

\* The inductive invariant holds in every reachable state.
THEOREM Invariance == DriftCoversRounding => (Spec => []RedLockInv)
<1> SUFFICES ASSUME DriftCoversRounding PROVE Spec => []RedLockInv
  BY Zenon
<1>1. RedLockInv /\ [Next]_vars => RedLockInv'
  BY NextInv, Zenon
<1>2. QED
  BY <1>1, InitInv, PTL DEF Spec

\* m_validityTime is honest: until it has passed, a majority of the servers keeps
\* the holder's value.
THEOREM ValidityIsHonestThm == DriftCoversRounding => (Spec => []ValidityIsHonest)
<1> SUFFICES ASSUME DriftCoversRounding PROVE Spec => []ValidityIsHonest
  BY Zenon
<1>1. RedLockInv => ValidityIsHonest
  <2> SUFFICES ASSUME RedLockInv, NEW c \in Clients, Holder(c)
               PROVE  \E Q \in SUBSET Servers :
                         /\ Cardinality(Q) >= Quorum
                         /\ \A s \in Q : Holds(s, <<c, calls[c]>>)
    BY Zenon DEF ValidityIsHonest
  <2>1. /\ got[c] \in SUBSET Servers /\ Cardinality(got[c]) >= Quorum
        /\ Intact(c, deadline[c]) /\ now < deadline[c]
    BY Zenon DEF RedLockInv, KeyInv, TypeOK, ClientInv, Holder
  <2>2. ASSUME NEW s \in got[c] PROVE Holds(s, <<c, calls[c]>>)
    <3>1. key[s].exp \in Nat /\ now \in Nat /\ deadline[c] \in Nat
      BY <2>1, Types, Zenon DEF TypeOK
    <3>2. QED
      BY <2>1, <3>1 DEF Intact, Holds, Live
  <2>3. QED
    BY <2>1, <2>2, Zenon
<1>2. QED
  BY <1>1, Invariance, PTL

\* Within m_validityTime the lock is held by one client only: two holders would
\* both own the key of a server in both their majorities.
THEOREM MutualExclusionThm == DriftCoversRounding => (Spec => []MutualExclusion)
<1> SUFFICES ASSUME DriftCoversRounding PROVE Spec => []MutualExclusion
  BY Zenon
<1>1. ValidityIsHonest => MutualExclusion
  <2> SUFFICES ASSUME ValidityIsHonest, NEW c \in Clients, NEW d \in Clients,
                      Holder(c), Holder(d)
               PROVE  c = d
    BY Zenon DEF MutualExclusion
  <2>1. PICK Q \in SUBSET Servers :
            Cardinality(Q) >= Quorum /\ \A s \in Q : Holds(s, <<c, calls[c]>>)
    BY Zenon DEF ValidityIsHonest
  <2>2. PICK R \in SUBSET Servers :
            Cardinality(R) >= Quorum /\ \A s \in R : Holds(s, <<d, calls[d]>>)
    BY Zenon DEF ValidityIsHonest
  <2>3. PICK s \in Q : s \in R
    BY <2>1, <2>2, MajoritiesMeet, Zenon
  <2>4. <<c, calls[c]>> = <<d, calls[d]>>
    BY <2>1, <2>2, <2>3 DEF Holds
  <2>5. QED
    BY <2>4, Zenon
<1>2. QED
  BY <1>1, ValidityIsHonestThm, PTL
=============================================================================
