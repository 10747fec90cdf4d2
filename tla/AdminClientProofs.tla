------------------------- MODULE AdminClientProofs -------------------------
(* The native admin client. For any operators, brokers, name servers and   *)
(* failing requests, what the commands on one topic promise with their     *)
(* answer; for any numbers of queues and consumers, the allocation.        *)
EXTENDS TopicCommands, StaticTopic, AllocateQueues, FiniteSetTheorems, SequenceTheorems,
        WellFoundedInduction, TLAPS

-----------------------------------------------------------------------------
(* The inductive invariant of the topic commands *)

MaybeTopics == Configs \cup {NoTopic}
TopicsType == [Brokers -> MaybeTopics]
RoutesType == [NameServers -> [Brokers -> MaybeTopics]]

Commands ==
  [kind : {"none", "update", "perm", "delete"}, config : MaybeTopics,
   target : Brokers \cup {Cluster}, masters : SUBSET Brokers,
   pc : {"idle", "brokers", "servers", "ok", "failed"},
   todo : Seq(Brokers), written : SUBSET Brokers, servers : Seq(NameServers),
   refused : BOOLEAN, undisturbed : BOOLEAN,
   before : [topics : TopicsType, routes : RoutesType] \cup {NoTopic}]

Types ==
  /\ topics \in TopicsType /\ routes \in RoutesType /\ listed \subseteq Brokers
  /\ \A n \in NameServers : /\ DOMAIN orderConf[n] \subseteq Brokers
                            /\ Range(orderConf[n]) \subseteq QueueNums
  /\ DOMAIN orderConf = NameServers
  /\ command \in [Operators -> Commands]
  /\ commands \in 0..MaxCommands /\ faults \in 0..MaxFaults /\ absences \in 0..MaxAbsences

\* The masters a command has to write, and whether name servers follow them.
Due(c) == IF c.target = Cluster THEN c.masters ELSE {c.target}
GoesOn(c) == c.kind = "delete" \/ (c.kind = "update" /\ c.config.order)

\* What a command has written and still has to write, wherever it is.
Moving(c) ==
  /\ c.kind # "none"
  /\ c.kind = "delete" => c.config = NoTopic /\ c.target = Cluster
  /\ c.kind # "delete" => c.config \in Configs
  /\ c.pc = "brokers" => /\ Due(c) = c.written \cup Range(c.todo)
                         /\ Range(c.servers) = NameServers /\ ~c.refused
  /\ c.pc = "servers" => c.written = Due(c) /\ GoesOn(c)
  /\ c.pc = "ok" => ~c.refused /\ c.written = Due(c) /\ (GoesOn(c) => c.servers = <<>>)

Placed(c) ==
  \/ c.kind = "none" /\ c.pc = "idle"
  \/ /\ Moving(c)
     /\ c.pc = "brokers" => c.todo # <<>>
     /\ c.pc = "servers" => c.servers # <<>>

\* Beside an undisturbed command run its own repetitions only.
Alike == \A o, p \in Operators :
  command[o].undisturbed /\ command[o].kind # "none" /\ Running(p) => Same(command[p], command[o])

\* What was written is still there, when the masters hold this.
Wrote(c, held) == \A b \in c.written : held[b] = c.config

\* The name servers that were told list the queues of the ordered topic.
Past(c) == c.pc \in {"servers", "ok"} /\ ~c.refused
Ordered(c, lists) == c.kind = "update" /\ c.config.order /\ Past(c) =>
  \A n \in NameServers :
    n \in Range(c.servers) \/ lists[n] = [b \in c.written |-> c.config.queues]

\* The name servers that were told of the deletion route the topic nowhere.
Unrouted(c, routed) == c.kind = "delete" /\ c.masters = Brokers /\ Past(c) =>
  \A n \in NameServers : n \in Range(c.servers) \/ \A b \in Brokers : routed[n][b] = NoTopic

\* The topic was t everywhere when the command began.
Uniform(c, t) ==
  /\ \A b \in Brokers : c.before.topics[b] = t
  /\ \A n \in NameServers, b \in Brokers : c.before.routes[n][b] = t

\* A permission update of such a topic writes t but for the permission, and where it
\* does not write the topic is as it was.
Untouched(c, held) == c.kind = "perm" => \A t \in Configs : Uniform(c, t) =>
  c.config = PermConfig(t, c.config.perm) /\ \A b \in Brokers : b \in Due(c) \/ held[b] = t

Kept(c, held, routed, lists) == c.undisturbed /\ c.kind # "none" =>
  Wrote(c, held) /\ Ordered(c, lists) /\ Unrouted(c, routed) /\ Untouched(c, held)

IInv ==
  /\ Types /\ Alike
  /\ \A o \in Operators : Placed(command[o]) /\ Kept(command[o], topics, routes, orderConf)

-----------------------------------------------------------------------------
(* Servers in ascending order *)

LEMMA RanksDiffer ==
  ASSUME NEW S \in SUBSET Nat, IsFiniteSet(S), NEW x \in S, NEW y \in S, x < y
  PROVE  Cardinality({z \in S : z < x}) < Cardinality({z \in S : z < y})
<1>. DEFINE below(a) == {z \in S : z < a}
<1>1. below(x) \subseteq below(y) /\ x \in below(y) /\ x \notin below(x)
  <2>1. x \in Nat /\ y \in Nat /\ \A z \in S : z \in Nat
    OBVIOUS
  <2>2. \A z \in S : z < x => z < y
    BY <2>1
  <2>3. x < y /\ ~(x < x)
    BY <2>1
  <2>. QED  BY <2>2, <2>3
<1>2. IsFiniteSet(below(y))
  BY FS_Subset
<1>. HIDE DEF below
<1>3. Cardinality(below(x)) <= Cardinality(below(y))
  BY <1>1, <1>2, FS_Subset
<1>4. Cardinality(below(x)) # Cardinality(below(y))
  BY <1>1, <1>2, FS_Subset
<1>5. Cardinality(below(x)) \in Nat /\ Cardinality(below(y)) \in Nat
  BY <1>1, <1>2, FS_Subset, FS_CardinalityType
<1>. QED  BY <1>3, <1>4, <1>5 DEF below

LEMMA SortedParts ==
  ASSUME NEW S \in SUBSET Nat, IsFiniteSet(S)
  PROVE  Sorted(S) \in Seq(S) /\ Range(Sorted(S)) = S /\ (S # {} => Sorted(S) # <<>>)
<1>. DEFINE n == Cardinality(S)
            rank(x) == Cardinality({y \in S : y < x})
            ranks == [x \in S |-> rank(x) + 1]
<1>1. n \in Nat /\ IsFiniteSet(1..n) /\ Cardinality(1..n) = n
  BY FS_CardinalityType, FS_Interval
<1>2. ASSUME NEW x \in S  PROVE rank(x) \in Nat /\ rank(x) < n
  <2>. DEFINE below == {y \in S : y < x}
  <2>1. below \subseteq S /\ x \notin below
    OBVIOUS
  <2>. HIDE DEF below
  <2>2. IsFiniteSet(below) /\ Cardinality(below) <= n /\ Cardinality(below) # n
    BY <2>1, FS_Subset
  <2>3. Cardinality(below) \in Nat
    BY <2>2, FS_CardinalityType
  <2>. QED  BY <1>1, <2>2, <2>3 DEF below
<1>3. ASSUME NEW x \in S, NEW y \in S, x # y  PROVE rank(x) # rank(y)
  <2>1. x \in Nat /\ y \in Nat
    OBVIOUS
  <2>2. x < y \/ y < x
    BY <1>3, <2>1
  <2>3. rank(x) < rank(y) \/ rank(y) < rank(x)
    BY <2>2, RanksDiffer
  <2>. QED  BY <1>2, <2>3
<1>. HIDE DEF rank
<1>4. ranks \in [S -> 1..n] /\ \A x, y \in S : ranks[x] = ranks[y] => x = y
  <2>1. \A x \in S : rank(x) + 1 \in 1..n
    BY <1>1, <1>2
  <2>2. ASSUME NEW x \in S, NEW y \in S, rank(x) + 1 = rank(y) + 1  PROVE x = y
    BY <1>2, <1>3, <2>2
  <2>. QED  BY <2>1, <2>2
<1>5. \A i \in 1..n : \E x \in S : ranks[x] = i
  <2>1. ranks \in Injection(S, 1..n)
    BY <1>4 DEF Injection, IsInjective
  <2>2. ranks \in Surjection(S, 1..n)
    BY <1>1, <2>1, FS_Injection
  <2>. QED  BY <2>2 DEF Surjection
<1>6. ASSUME NEW i \in 1..n  PROVE \E x \in S : rank(x) = i - 1
  <2>1. PICK x \in S : ranks[x] = i
    BY <1>5
  <2>2. rank(x) + 1 = i /\ rank(x) \in Nat
    BY <1>2, <2>1
  <2>. QED  BY <2>2
<1>7. Sorted(S) = [i \in 1..n |-> CHOOSE x \in S : rank(x) = i - 1]
  BY DEF Sorted, rank
<1>8. \A i \in 1..n : Sorted(S)[i] \in S /\ rank(Sorted(S)[i]) = i - 1
  BY <1>6, <1>7
<1>9. Sorted(S) \in Seq(S) /\ Len(Sorted(S)) = n /\ DOMAIN Sorted(S) = 1..n
  <2>1. Sorted(S) \in [1..n -> S]
    BY <1>7, <1>8
  <2>. QED  BY <1>1, <2>1, LenProperties, SeqDef
<1>10. ASSUME NEW x \in S  PROVE \E i \in 1..n : Sorted(S)[i] = x
  <2>1. rank(x) + 1 \in 1..n /\ (rank(x) + 1) - 1 = rank(x)
    BY <1>1, <1>2
  <2>2. Sorted(S)[rank(x) + 1] \in S /\ rank(Sorted(S)[rank(x) + 1]) = rank(x)
    BY <1>8, <2>1
  <2>. QED  BY <1>3, <2>1, <2>2
<1>11. Range(Sorted(S)) = S
  BY <1>8, <1>9, <1>10 DEF Range
<1>12. Range(<<>>) = {}
  BY DEF Range
<1>. QED  BY <1>9, <1>11, <1>12

LEMMA ServersSorted ==
  ASSUME NEW S, S \subseteq Brokers \/ S = NameServers
  PROVE  Sorted(S) \in Seq(S) /\ Range(Sorted(S)) = S
<1>1. S \in SUBSET Nat /\ IsFiniteSet(S)
  BY BrokersAssumption, ServersAssumption, FS_Subset
<1>. QED  BY <1>1, SortedParts

LEMMA OneServed ==
  ASSUME NEW S, NEW s \in Seq(S), s # <<>>
  PROVE  /\ Head(s) \in S /\ Tail(s) \in Seq(S)
         /\ Range(s) = {Head(s)} \cup Range(Tail(s))
<1>1. Head(s) \in S /\ Tail(s) \in Seq(S) /\ Head(s) = s[1] /\ Len(s) \in Nat /\ Len(s) >= 1
      /\ Len(Tail(s)) = Len(s) - 1 /\ \A i \in 1..(Len(s) - 1) : Tail(s)[i] = s[i + 1]
  BY HeadTailProperties, LenProperties, EmptySeq
<1>2. DOMAIN s = 1..Len(s) /\ DOMAIN Tail(s) = 1..(Len(s) - 1)
  BY <1>1, LenProperties
<1>3. ASSUME NEW i \in 1..Len(s), i # 1  PROVE i - 1 \in 1..(Len(s) - 1) /\ s[i] = Tail(s)[i - 1]
  <2>1. i - 1 \in 1..(Len(s) - 1) /\ (i - 1) + 1 = i
    BY <1>1, <1>3
  <2>. QED  BY <1>1, <2>1
<1>4. Range(s) \subseteq {Head(s)} \cup Range(Tail(s))
  <2>1. ASSUME NEW i \in 1..Len(s)  PROVE s[i] = Head(s) \/ s[i] \in Range(Tail(s))
    BY <1>1, <1>2, <1>3 DEF Range
  <2>. QED  BY <1>2, <2>1 DEF Range
<1>5. {Head(s)} \cup Range(Tail(s)) \subseteq Range(s)
  <2>1. 1 \in 1..Len(s)
    BY <1>1
  <2>2. ASSUME NEW i \in 1..(Len(s) - 1)  PROVE i + 1 \in 1..Len(s)
    BY <1>1
  <2>. QED  BY <1>1, <1>2, <2>1, <2>2 DEF Range
<1>. QED  BY <1>1, <1>4, <1>5

-----------------------------------------------------------------------------
(* A command moves on *)

\* c and d are the same but for the places they are at.
AsBefore(c, d) ==
  /\ Same(c, d) /\ c.todo = d.todo /\ c.written = d.written /\ c.servers = d.servers
  /\ c.refused = d.refused /\ c.undisturbed = d.undisturbed /\ c.before = d.before

LEMMA WithPlace ==
  ASSUME NEW c \in Commands, NEW pc \in {"idle", "brokers", "servers", "ok", "failed"}
  PROVE  /\ [c EXCEPT !.pc = pc] \in Commands /\ [c EXCEPT !.pc = pc].pc = pc
         /\ AsBefore([c EXCEPT !.pc = pc], c)
BY DEF Commands, AsBefore, Same

LEMMA AdvancedParts ==
  ASSUME NEW c \in Commands, Moving(c), c.pc \in {"brokers", "servers"}
  PROVE  /\ Advanced(c) \in Commands /\ Placed(Advanced(c)) /\ AsBefore(Advanced(c), c)
         /\ Past(Advanced(c)) => Past(c) \/ Range(c.servers) = NameServers
<1>. DEFINE next == IF c.pc = "brokers" /\ c.todo = <<>> THEN AfterBrokers(c) ELSE c.pc
            place == IF next = "servers" /\ c.servers = <<>> THEN AfterServers(c) ELSE next
            d == Advanced(c)
<1>1. place \in {"brokers", "servers", "ok", "failed"}
  BY DEF AfterBrokers, AfterServers
<1>2. d = [c EXCEPT !.pc = place]
  BY DEF Advanced
<1>3. d \in Commands /\ d.pc = place /\ AsBefore(d, c)
  <2>. HIDE DEF place, d
  <2>1. /\ [c EXCEPT !.pc = place] \in Commands /\ [c EXCEPT !.pc = place].pc = place
        /\ AsBefore([c EXCEPT !.pc = place], c)
    <3>1. place \in {"idle", "brokers", "servers", "ok", "failed"}
      BY <1>1
    <3>. QED  BY <3>1, WithPlace
  <2>. QED  BY <1>2, <2>1
<1>4. Range(<<>>) = {}
  BY DEF Range
<1>5. Due(d) = Due(c) /\ GoesOn(d) = GoesOn(c)
  BY <1>3 DEF AsBefore, Same, Due, GoesOn
<1>. HIDE DEF d
<1>6. Placed(d)
  BY <1>3, <1>4, <1>5 DEF AsBefore, Same, Placed, Moving, GoesOn, AfterBrokers, AfterServers
<1>7. Past(d) => Past(c) \/ Range(c.servers) = NameServers
  BY <1>3 DEF AsBefore, Past, Moving, AfterServers
<1>. QED  BY <1>3, <1>6, <1>7 DEF d

-----------------------------------------------------------------------------
(* A write of d beside c *)

LEMMA KeptBesideTopics ==
  ASSUME NEW c \in Commands, NEW d \in Commands, Placed(d), d.pc = "brokers",
         c.undisturbed /\ c.kind # "none" => Placed(c) /\ Same(d, c),
         NEW held \in TopicsType, NEW routed, NEW lists, Kept(c, held, routed, lists),
         NEW b \in Range(d.todo)
  PROVE  Kept(c, [held EXCEPT ![b] = d.config], routed, lists)
<1>1. SUFFICES ASSUME c.undisturbed, c.kind # "none"
               PROVE  Kept(c, [held EXCEPT ![b] = d.config], routed, lists)
  BY DEF Kept
<1>2. /\ d.config = c.config /\ Due(d) = Due(c) /\ b \in Due(d)
      /\ c.written \subseteq Brokers
  BY <1>1 DEF Same, Due, Placed, Moving, Commands
<1>3. \A x \in Brokers : [held EXCEPT ![b] = d.config][x] = IF x = b THEN d.config ELSE held[x]
  BY DEF TopicsType
<1>4. Wrote(c, [held EXCEPT ![b] = d.config])
  BY <1>1, <1>2, <1>3 DEF Kept, Wrote
<1>5. Untouched(c, [held EXCEPT ![b] = d.config])
  BY <1>1, <1>2, <1>3 DEF Kept, Untouched
<1>. QED  BY <1>1, <1>4, <1>5 DEF Kept

LEMMA KeptBesideServers ==
  ASSUME NEW c \in Commands, NEW d \in Commands, Placed(d), d.pc = "servers",
         c.undisturbed /\ c.kind # "none" => Placed(c) /\ Same(d, c),
         NEW held, NEW routed \in RoutesType, NEW lists, DOMAIN lists = NameServers,
         Kept(c, held, routed, lists), NEW n \in NameServers
  PROVE  /\ d.kind = "delete" =>
              Kept(c, held, [routed EXCEPT ![n] = [b \in Brokers |-> NoTopic]], lists)
         /\ d.kind # "delete" =>
              Kept(c, held, routed, [lists EXCEPT ![n] = [b \in d.written |-> d.config.queues]])
<1>1. SUFFICES ASSUME c.undisturbed, c.kind # "none"
               PROVE  /\ d.kind = "delete" =>
                           Kept(c, held, [routed EXCEPT ![n] = [b \in Brokers |-> NoTopic]], lists)
                      /\ d.kind # "delete" =>
                           Kept(c, held, routed,
                                [lists EXCEPT ![n] = [b \in d.written |-> d.config.queues]])
  BY DEF Kept
<1>2. /\ d.kind = c.kind /\ d.config = c.config
      /\ c.pc \in {"servers", "ok"} => d.written = c.written
  BY <1>1 DEF Same, Due, Placed, Moving
<1>3. Wrote(c, held) /\ Ordered(c, lists) /\ Unrouted(c, routed) /\ Untouched(c, held)
  BY <1>1 DEF Kept
<1>4. Unrouted(c, [routed EXCEPT ![n] = [b \in Brokers |-> NoTopic]])
  BY <1>3 DEF Unrouted, RoutesType
<1>5. Ordered(c, [lists EXCEPT ![n] = [b \in d.written |-> d.config.queues]])
  BY <1>2, <1>3 DEF Ordered, Past
<1>. QED  BY <1>3, <1>4, <1>5 DEF Kept

\* The steps of p leave the command of p what it is.
LEMMA StaysAlike ==
  ASSUME Types, Alike, NEW p \in Operators, Running(p), NEW d \in Commands,
         command' = [command EXCEPT ![p] = d],
         Same(d, command[p]), d.undisturbed = command[p].undisturbed
  PROVE  Alike'
<1>1. \A o \in Operators : /\ Same(command'[o], command[o])
                           /\ command'[o].undisturbed = command[o].undisturbed
                           /\ Running(o)' => Running(o)
  BY DEF Types, Same, Running
<1>. QED  BY <1>1 DEF Alike, Same, Running

LEMMA InThePlace ==
  ASSUME IInv, NEW p \in Operators, Running(p)
  PROVE  /\ command[p] \in Commands /\ Placed(command[p]) /\ Moving(command[p])
         /\ Kept(command[p], topics, routes, orderConf)
         /\ \A o \in Operators :
              /\ command[o] \in Commands /\ Kept(command[o], topics, routes, orderConf)
              /\ command[o].undisturbed /\ command[o].kind # "none" =>
                   Placed(command[o]) /\ Same(command[p], command[o])
BY DEF IInv, Types, Alike, Running, Placed

LEMMA BrokerDone ==
  ASSUME NEW c \in Commands, Placed(c), c.pc = "brokers",
         NEW d, d = [c EXCEPT !.todo = Tail(@), !.written = @ \cup {Head(c.todo)}]
  PROVE  /\ Head(c.todo) \in Brokers /\ Head(c.todo) \in Range(c.todo)
         /\ d \in Commands /\ Moving(d) /\ Same(d, c)
         /\ d.pc = "brokers" /\ d.written = c.written \cup {Head(c.todo)}
         /\ d.servers = c.servers /\ d.undisturbed = c.undisturbed /\ d.before = c.before
<1>1. c.todo \in Seq(Brokers) /\ c.todo # <<>>
  BY DEF Placed, Commands
<1>2. /\ Head(c.todo) \in Brokers /\ Tail(c.todo) \in Seq(Brokers)
      /\ Range(c.todo) = {Head(c.todo)} \cup Range(Tail(c.todo))
  BY <1>1, OneServed
<1>3. /\ d \in Commands /\ d.todo = Tail(c.todo) /\ d.written = c.written \cup {Head(c.todo)}
      /\ d.pc = c.pc /\ d.kind = c.kind /\ d.config = c.config /\ d.target = c.target
      /\ d.masters = c.masters /\ d.servers = c.servers /\ d.refused = c.refused
      /\ d.undisturbed = c.undisturbed /\ d.before = c.before
  BY <1>2 DEF Commands
<1>4. Moving(d)
  BY <1>2, <1>3 DEF Placed, Moving, Due
<1>. QED  BY <1>2, <1>3, <1>4 DEF Same

LEMMA ServerDone ==
  ASSUME NEW c \in Commands, Placed(c), c.pc = "servers", NEW refused \in BOOLEAN,
         NEW d, d = [c EXCEPT !.servers = Tail(@), !.refused = refused]
  PROVE  /\ Head(c.servers) \in NameServers
         /\ Range(c.servers) = {Head(c.servers)} \cup Range(d.servers)
         /\ d \in Commands /\ Moving(d) /\ Same(d, c)
         /\ d.pc = "servers" /\ d.written = c.written /\ d.refused = refused
         /\ d.undisturbed = c.undisturbed /\ d.before = c.before
<1>1. c.servers \in Seq(NameServers) /\ c.servers # <<>>
  BY DEF Placed, Commands
<1>2. /\ Head(c.servers) \in NameServers /\ Tail(c.servers) \in Seq(NameServers)
      /\ Range(c.servers) = {Head(c.servers)} \cup Range(Tail(c.servers))
  BY <1>1, OneServed
<1>3. /\ d \in Commands /\ d.servers = Tail(c.servers) /\ d.refused = refused
      /\ d.pc = c.pc /\ d.kind = c.kind /\ d.config = c.config /\ d.target = c.target
      /\ d.masters = c.masters /\ d.todo = c.todo /\ d.written = c.written
      /\ d.undisturbed = c.undisturbed /\ d.before = c.before
  BY <1>1, <1>2 DEF Commands
<1>4. Moving(d)
  BY <1>3 DEF Placed, Moving, Due, GoesOn
<1>. QED  BY <1>2, <1>3, <1>4 DEF Same

-----------------------------------------------------------------------------
(* The actions *)

LEMMA WriteBrokerKeeps ==
  ASSUME IInv, NEW p \in Operators, WriteBroker(p)
  PROVE  IInv'
<1>. DEFINE c == command[p]
            b == Head(c.todo)
            done == [c EXCEPT !.todo = Tail(@), !.written = @ \cup {b}]
            d == Advanced(done)
            held == [topics EXCEPT ![b] = c.config]
<1>1. /\ c.pc = "brokers" /\ Running(p) /\ topics' = held
      /\ command' = [command EXCEPT ![p] = d]
      /\ UNCHANGED <<routes, orderConf, listed, commands, faults, absences>>
  BY DEF WriteBroker, Takes, Running
<1>2. c \in Commands /\ Placed(c) /\ Kept(c, topics, routes, orderConf)
  BY <1>1, InThePlace
<1>. HIDE DEF c
<1>3. /\ b \in Brokers /\ b \in Range(c.todo) /\ done \in Commands /\ Moving(done)
      /\ Same(done, c) /\ done.pc = "brokers" /\ done.written = c.written \cup {b}
      /\ done.undisturbed = c.undisturbed /\ done.before = c.before
  BY <1>1, <1>2, BrokerDone
<1>. HIDE DEF done, b
<1>4. /\ d \in Commands /\ Placed(d) /\ AsBefore(d, done)
      /\ Past(d) => Range(d.servers) = NameServers
  BY <1>3, AdvancedParts DEF AsBefore, Past
<1>. HIDE DEF d
<1>5. Types'
  <2>1. topics \in TopicsType /\ c.config \in MaybeTopics
    BY <1>2 DEF IInv, Types, Commands
  <2>2. held \in TopicsType
    BY <2>1 DEF TopicsType
  <2>. QED  BY <1>1, <1>4, <2>2 DEF IInv, Types
<1>6. Alike'
  BY <1>1, <1>3, <1>4, StaysAlike DEF IInv, AsBefore, Same, c
<1>7. \A o \in Operators : Kept(command[o], held, routes, orderConf)
  <2>1. topics \in TopicsType
    BY DEF IInv, Types
  <2>. QED  BY <1>1, <1>2, <1>3, <2>1, InThePlace, KeptBesideTopics DEF c
<1>8. Kept(d, held, routes, orderConf)
  <2>1. Kept(c, held, routes, orderConf)
    BY <1>7 DEF c
  <2>2. held[b] = c.config
    BY <1>3 DEF IInv, Types, TopicsType
  <2>. HIDE DEF held
  <2>3. /\ d.kind = c.kind /\ d.config = c.config /\ d.written = c.written \cup {b}
        /\ d.masters = c.masters /\ d.target = c.target
        /\ d.undisturbed = c.undisturbed /\ d.before = c.before
    BY <1>3, <1>4 DEF AsBefore, Same
  <2>4. d.undisturbed /\ d.kind # "none" => Wrote(d, held)
    BY <2>1, <2>2, <2>3 DEF Kept, Wrote
  <2>5. Ordered(d, orderConf) /\ Unrouted(d, routes)
    BY <1>4 DEF Ordered, Unrouted
  <2>6. d.undisturbed /\ d.kind # "none" => Untouched(d, held)
    BY <2>1, <2>3 DEF Kept, Untouched, Uniform, Due
  <2>. QED  BY <2>4, <2>5, <2>6 DEF Kept
<1>9. \A o \in Operators : command'[o] = IF o = p THEN d ELSE command[o]
  BY <1>1 DEF IInv, Types
<1>. QED  BY <1>1, <1>4, <1>5, <1>6, <1>7, <1>8, <1>9 DEF IInv

\* A command that gives up where it is.
LEMMA AbandonedParts ==
  ASSUME NEW c \in Commands, Placed(c), c.pc \in {"brokers", "servers"}
  PROVE  /\ Abandons(c) \in Commands /\ Placed(Abandons(c)) /\ AsBefore(Abandons(c), c)
         /\ Abandons(c).pc = "failed"
<1>. DEFINE d == [c EXCEPT !.pc = "failed"]
<1>1. d \in Commands /\ d.pc = "failed" /\ AsBefore(d, c)
  BY WithPlace
<1>. HIDE DEF d
<1>2. Placed(d)
  BY <1>1 DEF AsBefore, Same, Placed, Moving
<1>. QED  BY <1>1, <1>2 DEF Abandons, d

LEMMA AbandonedKept ==
  ASSUME NEW c, NEW d, AsBefore(d, c), d.pc = "failed",
         NEW held, NEW routed, NEW lists, Kept(c, held, routed, lists)
  PROVE  Kept(d, held, routed, lists)
<1>1. SUFFICES ASSUME d.undisturbed, d.kind # "none"  PROVE Kept(d, held, routed, lists)
  BY DEF Kept
<1>2. Wrote(d, held) /\ Untouched(d, held)
  BY <1>1 DEF AsBefore, Same, Kept, Wrote, Untouched, Uniform, Due
<1>3. Ordered(d, lists) /\ Unrouted(d, routed)
  BY DEF Ordered, Unrouted, Past
<1>. QED  BY <1>2, <1>3 DEF Kept

LEMMA WriteBrokerFailsKeeps ==
  ASSUME IInv, NEW p \in Operators, WriteBrokerFails(p)
  PROVE  IInv'
<1>. DEFINE c == command[p]
            b == Head(c.todo)
            d == Abandons(c)
            held == topics'
<1>1. /\ c.pc = "brokers" /\ Running(p)
      /\ held = [topics EXCEPT ![b] = c.config] \/ held = topics
      /\ command' = [command EXCEPT ![p] = d]
      /\ faults < MaxFaults /\ faults' = faults + 1
      /\ UNCHANGED <<routes, orderConf, listed, commands, absences>>
  BY DEF WriteBrokerFails, Takes, Running
<1>2. c \in Commands /\ Placed(c) /\ Kept(c, topics, routes, orderConf)
  BY <1>1, InThePlace
<1>. HIDE DEF c
<1>3. b \in Brokers /\ b \in Range(c.todo)
  BY <1>1, <1>2, BrokerDone
<1>. HIDE DEF b
<1>4. d \in Commands /\ Placed(d) /\ AsBefore(d, c) /\ d.pc = "failed"
  BY <1>1, <1>2, AbandonedParts
<1>. HIDE DEF d
<1>5. Types'
  <2>1. topics \in TopicsType /\ c.config \in MaybeTopics
    BY <1>2 DEF IInv, Types, Commands
  <2>2. held \in TopicsType
    BY <1>1, <2>1 DEF TopicsType
  <2>3. faults' \in 0..MaxFaults
    BY <1>1, BoundsAssumption DEF IInv, Types
  <2>. QED  BY <1>1, <1>4, <2>2, <2>3 DEF IInv, Types
<1>6. Alike'
  BY <1>1, <1>4, StaysAlike DEF IInv, AsBefore, c
<1>7. \A o \in Operators : Kept(command[o], held, routes, orderConf)
  <2>1. topics \in TopicsType
    BY DEF IInv, Types
  <2>2. CASE held = topics
    BY <1>1, <2>2, InThePlace
  <2>3. CASE held = [topics EXCEPT ![b] = c.config]
    <3>1. \A o \in Operators : Kept(command[o], [topics EXCEPT ![b] = c.config], routes, orderConf)
      BY <1>1, <1>2, <1>3, <2>1, InThePlace, KeptBesideTopics DEF c
    <3>. QED  BY <2>3, <3>1
  <2>. QED  BY <1>1, <2>2, <2>3
<1>8. Kept(d, held, routes, orderConf)
  BY <1>4, <1>7, AbandonedKept DEF c
<1>9. \A o \in Operators : command'[o] = IF o = p THEN d ELSE command[o]
  BY <1>1 DEF IInv, Types
<1>. QED  BY <1>1, <1>4, <1>5, <1>6, <1>7, <1>8, <1>9 DEF IInv

\* What a name server keeps that obeys, or does not.
LEMMA ObeysParts ==
  ASSUME IInv, NEW p \in Operators, command[p].pc = "servers", NEW n \in NameServers,
         Obeys(n, command[p]) \/ UNCHANGED <<routes, orderConf>>
  PROVE  /\ routes' \in RoutesType /\ DOMAIN orderConf' = NameServers
         /\ \A m \in NameServers : /\ DOMAIN orderConf'[m] \subseteq Brokers
                                   /\ Range(orderConf'[m]) \subseteq QueueNums
         /\ \A o \in Operators : Kept(command[o], topics, routes', orderConf')
<1>. DEFINE c == command[p]
            nowhere == [b \in Brokers |-> NoTopic]
            list == [b \in c.written |-> c.config.queues]
<1>1. Running(p)
  BY DEF Running
<1>2. c \in Commands /\ Placed(c) /\ Moving(c)
  BY <1>1, InThePlace
<1>3. /\ routes \in RoutesType /\ DOMAIN orderConf = NameServers
      /\ \A m \in NameServers : /\ DOMAIN orderConf[m] \subseteq Brokers
                                /\ Range(orderConf[m]) \subseteq QueueNums
  BY DEF IInv, Types
<1>. HIDE DEF c
<1>4. CASE UNCHANGED <<routes, orderConf>>
  BY <1>1, <1>3, <1>4, InThePlace
<1>5. CASE c.kind = "delete" /\ routes' = [routes EXCEPT ![n] = nowhere] /\ UNCHANGED orderConf
  <2>1. routes' \in RoutesType
    BY <1>3, <1>5 DEF RoutesType, MaybeTopics
  <2>2. \A o \in Operators : Kept(command[o], topics, [routes EXCEPT ![n] = nowhere], orderConf)
    BY <1>1, <1>2, <1>3, <1>5, InThePlace, KeptBesideServers DEF c
  <2>. QED  BY <1>3, <1>5, <2>1, <2>2
<1>6. CASE c.kind # "delete" /\ orderConf' = [orderConf EXCEPT ![n] = list] /\ UNCHANGED routes
  <2>1. c.written \subseteq Brokers /\ c.config.queues \in QueueNums
    BY <1>2, <1>6 DEF Commands, Moving, Configs
  <2>2. DOMAIN list \subseteq Brokers /\ Range(list) \subseteq QueueNums
    BY <2>1 DEF Range
  <2>3. \A m \in NameServers : orderConf'[m] = IF m = n THEN list ELSE orderConf[m]
    BY <1>3, <1>6
  <2>4. \A o \in Operators : Kept(command[o], topics, routes, [orderConf EXCEPT ![n] = list])
    BY <1>1, <1>2, <1>3, <1>6, InThePlace, KeptBesideServers DEF c
  <2>. HIDE DEF list
  <2>. QED  BY <1>3, <1>6, <2>2, <2>3, <2>4
<1>. QED  BY <1>4, <1>5, <1>6 DEF Obeys, c

\* From c to d, once name server n has answered.
LEMMA ToldKept ==
  ASSUME NEW c, c.pc = "servers", NEW d, Same(d, c), d.written = c.written,
         d.undisturbed = c.undisturbed, d.before = c.before,
         NEW n, Range(c.servers) = {n} \cup Range(d.servers),
         NEW held, NEW routed, NEW lists, Kept(c, held, routed, lists),
         ~d.refused =>
           /\ ~c.refused
           /\ c.kind = "delete" => \A b \in Brokers : routed[n][b] = NoTopic
           /\ c.kind # "delete" => lists[n] = [b \in c.written |-> c.config.queues]
  PROVE  Kept(d, held, routed, lists)
<1>1. SUFFICES ASSUME d.undisturbed, d.kind # "none"  PROVE Kept(d, held, routed, lists)
  BY DEF Kept
<1>2. Wrote(d, held) /\ Untouched(d, held)
  BY <1>1 DEF Same, Kept, Wrote, Untouched, Uniform, Due
<1>3. Ordered(d, lists)
  BY <1>1 DEF Same, Kept, Ordered, Past
<1>4. Unrouted(d, routed)
  BY <1>1 DEF Same, Kept, Unrouted, Past
<1>. QED  BY <1>2, <1>3, <1>4 DEF Kept

\* A command hears of a name server: from WriteServer and ServerRefuses.
LEMMA AnsweredKeeps ==
  ASSUME IInv, NEW p \in Operators, command[p].pc = "servers", NEW refused \in BOOLEAN,
         command' = [command EXCEPT ![p] = Answered(@, refused)],
         IF refused THEN UNCHANGED <<routes, orderConf>>
                    ELSE Obeys(Head(command[p].servers), command[p]),
         UNCHANGED <<topics, listed, commands, absences>>, faults' \in 0..MaxFaults
  PROVE  IInv'
<1>. DEFINE c == command[p]
            n == Head(c.servers)
            more == c.refused \/ refused
            done == [c EXCEPT !.servers = Tail(@), !.refused = @ \/ refused]
            d == Advanced(done)
<1>1. Running(p) /\ c.pc = "servers" /\ command' = [command EXCEPT ![p] = d]
  BY DEF Running, Answered
<1>2. c \in Commands /\ Placed(c)
  BY <1>1, InThePlace
<1>3. /\ n \in NameServers /\ Range(c.servers) = {n} \cup Range(done.servers)
      /\ done \in Commands /\ Moving(done) /\ Same(done, c)
      /\ done.pc = "servers" /\ done.written = c.written /\ done.refused = more
      /\ done.undisturbed = c.undisturbed /\ done.before = c.before
  <2>. HIDE DEF c
  <2>1. done = [c EXCEPT !.servers = Tail(@), !.refused = more]
    OBVIOUS
  <2>2. more \in BOOLEAN
    OBVIOUS
  <2>. HIDE DEF done, more, d
  <2>3. done \in Commands /\ Moving(done) /\ Same(done, c)
    BY <1>1, <1>2, <2>1, <2>2, ServerDone
  <2>4. /\ done.pc = "servers" /\ done.written = c.written
      /\ done.undisturbed = c.undisturbed /\ done.before = c.before
    BY <1>1, <1>2, <2>1 DEF Commands
  <2>5. done.refused = more
    BY <1>2, <2>1 DEF Commands
  <2>6. n \in NameServers /\ Range(c.servers) = {n} \cup Range(done.servers)
    BY <1>1, <1>2, <2>1, <2>2, ServerDone
  <2>. QED  BY <2>3, <2>4, <2>5, <2>6
<1>4. d \in Commands /\ Placed(d) /\ AsBefore(d, done)
  <2>. HIDE DEF done
  <2>. QED  BY <1>3, AdvancedParts
<1>5. /\ routes' \in RoutesType /\ DOMAIN orderConf' = NameServers
      /\ \A m \in NameServers : /\ DOMAIN orderConf'[m] \subseteq Brokers
                                /\ Range(orderConf'[m]) \subseteq QueueNums
      /\ \A o \in Operators : Kept(command[o], topics, routes', orderConf')
  BY <1>3, ObeysParts
<1>6. ~refused =>
        /\ c.kind = "delete" => \A b \in Brokers : routes'[n][b] = NoTopic
        /\ c.kind # "delete" => orderConf'[n] = [b \in c.written |-> c.config.queues]
  BY <1>3 DEF Obeys, IInv, Types, RoutesType
<1>. HIDE DEF c, n, more, done, d
<1>7. Types'
  BY <1>1, <1>4, <1>5 DEF IInv, Types
<1>8. Alike'
  <2>1. Same(d, c) /\ d.undisturbed = c.undisturbed
    BY <1>3, <1>4 DEF AsBefore, Same
  <2>. QED  BY <1>1, <1>4, <2>1, StaysAlike DEF IInv, c
<1>9. Kept(d, topics, routes', orderConf')
  <2>1. Kept(c, topics, routes', orderConf')
    BY <1>5 DEF c
  <2>2. /\ Same(d, c) /\ d.written = c.written /\ d.undisturbed = c.undisturbed
        /\ d.before = c.before /\ d.servers = done.servers /\ d.refused = more
    BY <1>3, <1>4 DEF AsBefore, Same
  <2>3. /\ Range(c.servers) = {n} \cup Range(d.servers)
        /\ ~d.refused => ~c.refused /\ ~refused
    BY <1>2, <1>3, <2>2 DEF Commands, more
  <2>. QED  BY <1>1, <1>6, <2>1, <2>2, <2>3, ToldKept
<1>10. \A o \in Operators : command'[o] = IF o = p THEN d ELSE command[o]
  BY <1>1 DEF IInv, Types
<1>. QED  BY <1>4, <1>5, <1>7, <1>8, <1>9, <1>10 DEF IInv

LEMMA WriteServerKeeps ==
  ASSUME IInv, NEW p \in Operators, WriteServer(p)
  PROVE  IInv'
BY AnsweredKeeps DEF WriteServer, IInv, Types

LEMMA ServerRefusesKeeps ==
  ASSUME IInv, NEW p \in Operators, ServerRefuses(p)
  PROVE  IInv'
<1>1. faults' \in 0..MaxFaults
  BY BoundsAssumption DEF ServerRefuses, IInv, Types
<1>. QED  BY <1>1, AnsweredKeeps DEF ServerRefuses

LEMMA WriteServerFailsKeeps ==
  ASSUME IInv, NEW p \in Operators, WriteServerFails(p)
  PROVE  IInv'
<1>. DEFINE c == command[p]
            n == Head(c.servers)
            d == Abandons(c)
<1>1. /\ c.pc = "servers" /\ Running(p) /\ command' = [command EXCEPT ![p] = d]
      /\ Obeys(n, c) \/ UNCHANGED <<routes, orderConf>>
      /\ faults < MaxFaults /\ faults' = faults + 1
      /\ UNCHANGED <<topics, listed, commands, absences>>
  BY DEF WriteServerFails, Running
<1>2. c \in Commands /\ Placed(c)
  BY <1>1, InThePlace
<1>3. n \in NameServers
  <2>1. c.servers \in Seq(NameServers) /\ c.servers # <<>>
    <3>. HIDE DEF c
    <3>. QED  BY <1>1, <1>2 DEF Placed, Commands
  <2>. QED  BY <2>1, OneServed
<1>4. /\ routes' \in RoutesType /\ DOMAIN orderConf' = NameServers
      /\ \A m \in NameServers : /\ DOMAIN orderConf'[m] \subseteq Brokers
                                /\ Range(orderConf'[m]) \subseteq QueueNums
      /\ \A o \in Operators : Kept(command[o], topics, routes', orderConf')
  BY <1>1, <1>3, ObeysParts
<1>. HIDE DEF c, n
<1>5. d \in Commands /\ Placed(d) /\ AsBefore(d, c) /\ d.pc = "failed"
  BY <1>1, <1>2, AbandonedParts
<1>. HIDE DEF d
<1>6. Types'
  <2>1. faults' \in 0..MaxFaults
    BY <1>1, BoundsAssumption DEF IInv, Types
  <2>. QED  BY <1>1, <1>4, <1>5, <2>1 DEF IInv, Types
<1>7. Alike'
  BY <1>1, <1>5, StaysAlike DEF IInv, AsBefore, c
<1>8. Kept(d, topics, routes', orderConf')
  BY <1>4, <1>5, AbandonedKept DEF c
<1>9. \A o \in Operators : command'[o] = IF o = p THEN d ELSE command[o]
  BY <1>1 DEF IInv, Types
<1>. QED  BY <1>1, <1>4, <1>5, <1>6, <1>7, <1>8, <1>9 DEF IInv

\* c and d are the same but for what ran beside them.
AsAlone(c, d) ==
  /\ Same(c, d) /\ c.pc = d.pc /\ c.todo = d.todo /\ c.written = d.written
  /\ c.servers = d.servers /\ c.refused = d.refused /\ c.before = d.before

LEMMA WithMark ==
  ASSUME NEW c \in Commands, NEW mark \in BOOLEAN
  PROVE  /\ [c EXCEPT !.undisturbed = mark] \in Commands
         /\ [c EXCEPT !.undisturbed = mark].undisturbed = mark
         /\ AsAlone([c EXCEPT !.undisturbed = mark], c)
BY DEF Commands, AsAlone, Same

LEMMA MarkedPlaced ==
  ASSUME NEW c, NEW d, AsAlone(d, c), Placed(c)
  PROVE  Placed(d)
BY DEF AsAlone, Same, Placed, Moving, Due, GoesOn

\* A mark that is taken away takes nothing else.
LEMMA MarkedKept ==
  ASSUME NEW c, NEW d, AsAlone(d, c), d.undisturbed => c.undisturbed,
         NEW held, NEW routed, NEW lists, Kept(c, held, routed, lists)
  PROVE  Kept(d, held, routed, lists)
BY DEF AsAlone, Same, Kept, Wrote, Ordered, Unrouted, Untouched, Uniform, Past, Due

\* A command begins: from UpdateTopic, UpdateTopicPerm and DeleteTopic.
LEMMA BeginsKeeps ==
  ASSUME IInv, NEW p \in Operators, NEW kind \in {"update", "perm", "delete"},
         NEW config \in MaybeTopics, NEW target \in Brokers \cup {Cluster},
         kind = "delete" => config = NoTopic /\ target = Cluster,
         kind # "delete" => config \in Configs,
         kind = "perm" => \E n \in NameServers, b \in Brokers :
                            config = PermConfig(routes[n][b], config.perm),
         Begins(p, kind, config, target)
  PROVE  IInv'
<1>. DEFINE before == IF kind = "perm" THEN [topics |-> topics, routes |-> routes] ELSE NoTopic
            todo == Sorted(Targets(target))
            servers == Sorted(NameServers)
            c == [kind |-> kind, config |-> config, target |-> target, masters |-> listed,
                  pc |-> "brokers", todo |-> todo, written |-> {},
                  servers |-> servers, refused |-> FALSE, undisturbed |-> TRUE, before |-> before]
            disturbs(o) == command[o].kind # "none" /\ ~Same(command[o], c)
            alone == \A o \in Operators : Running(o) => ~disturbs(o)
            begun == Advanced(c)
            d == [begun EXCEPT !.undisturbed = alone]
<1>1. /\ ~Running(p) /\ commands < MaxCommands /\ commands' = commands + 1
      /\ command' = [o \in Operators |-> IF o = p THEN d
                       ELSE [command[o] EXCEPT !.undisturbed = @ /\ ~disturbs(o)]]
      /\ UNCHANGED <<topics, routes, orderConf, listed, faults, absences>>
  BY DEF Begins
<1>2. /\ todo \in Seq(Brokers) /\ Range(todo) = Targets(target)
      /\ servers \in Seq(NameServers) /\ Range(servers) = NameServers
  <2>1. listed \subseteq Brokers /\ (target # Cluster => {target} \subseteq Brokers)
    BY DEF IInv, Types
  <2>2. Targets(target) \subseteq Brokers
    BY <2>1 DEF Targets
  <2>3. todo \in Seq(Targets(target)) /\ Range(todo) = Targets(target)
    BY <2>2, ServersSorted
  <2>4. todo \in Seq(Brokers)
    BY <2>2, <2>3, SeqMonotonic
  <2>5. servers \in Seq(NameServers) /\ Range(servers) = NameServers
    BY ServersSorted
  <2>. QED  BY <2>3, <2>4, <2>5
<1>3. before \in [topics : TopicsType, routes : RoutesType] \cup {NoTopic}
  BY DEF IInv, Types
<1>4. /\ c \in Commands /\ Moving(c)
  <2>. HIDE DEF todo, servers, before
  <2>1. c \in Commands
    BY <1>2, <1>3 DEF Commands, IInv, Types
  <2>2. Moving(c)
    BY <1>2 DEF Moving, Due, Targets
  <2>. QED  BY <2>1, <2>2
<1>5. /\ c.kind = kind /\ c.config = config /\ c.target = target /\ c.masters = listed
      /\ c.pc = "brokers" /\ c.todo = todo /\ c.written = {} /\ c.servers = servers
      /\ c.refused = FALSE /\ c.before = before
  OBVIOUS
<1>. HIDE DEF c, todo, servers
<1>6. /\ begun \in Commands /\ Placed(begun) /\ AsBefore(begun, c)
      /\ Past(begun) => Range(begun.servers) = NameServers
  BY <1>2, <1>4, <1>5, AdvancedParts DEF AsBefore, Past
<1>. HIDE DEF begun
<1>7. /\ d \in Commands /\ Placed(d) /\ Same(d, c) /\ d.written = {} /\ d.before = before
      /\ d.undisturbed => alone
      /\ Past(d) => Range(d.servers) = NameServers
  <2>1. alone \in BOOLEAN
    OBVIOUS
  <2>2. d = [begun EXCEPT !.undisturbed = alone]
    OBVIOUS
  <2>. HIDE DEF alone, d
  <2>3. d \in Commands /\ AsAlone(d, begun) /\ d.undisturbed = alone
    BY <1>6, <2>1, <2>2, WithMark
  <2>4. Placed(d)
    BY <1>6, <2>3, MarkedPlaced
  <2>. QED  BY <1>5, <1>6, <2>3, <2>4 DEF AsAlone, AsBefore, Same, Past
<1>. DEFINE e(o) == [command[o] EXCEPT !.undisturbed = @ /\ ~disturbs(o)]
<1>8. ASSUME NEW o \in Operators
      PROVE  /\ e(o) \in Commands /\ AsAlone(e(o), command[o])
             /\ e(o).undisturbed => command[o].undisturbed /\ ~disturbs(o)
  <2>. DEFINE mark == command[o].undisturbed /\ ~disturbs(o)
  <2>1. mark \in BOOLEAN /\ command[o] \in Commands
    BY DEF IInv, Types
  <2>2. e(o) = [command[o] EXCEPT !.undisturbed = mark]
    OBVIOUS
  <2>. HIDE DEF mark, e
  <2>3. e(o) \in Commands /\ AsAlone(e(o), command[o]) /\ e(o).undisturbed = mark
    BY <2>1, <2>2, WithMark
  <2>. QED  BY <2>3 DEF mark
<1>. HIDE DEF d, e
<1>9. \A o \in Operators : command'[o] = IF o = p THEN d ELSE e(o)
  BY <1>1 DEF e
<1>10. Types'
  <2>1. command' \in [Operators -> Commands]
    <3>1. command' = [o \in Operators |-> IF o = p THEN d ELSE e(o)]
      BY <1>1 DEF e
    <3>. QED  BY <1>7, <1>8, <3>1
  <2>2. commands' \in 0..MaxCommands
    BY <1>1, BoundsAssumption DEF IInv, Types
  <2>. QED  BY <1>1, <2>1, <2>2 DEF IInv, Types
<1>11. Alike'
  <2>1. ASSUME NEW o \in Operators, NEW q \in Operators,
               command'[o].undisturbed, command'[o].kind # "none", Running(q)'
        PROVE  Same(command'[q], command'[o])
    <3>1. ASSUME NEW x \in Operators, x # p
          PROVE  /\ Same(command'[x], command[x]) /\ command'[x].pc = command[x].pc
                 /\ Running(x)' => Running(x) /\ command[x].kind # "none"
                 /\ command'[x].undisturbed => command[x].undisturbed /\ ~disturbs(x)
      <4>1. command'[x] = e(x)
        BY <1>9, <3>1
      <4>2. /\ Same(command'[x], command[x]) /\ command'[x].pc = command[x].pc
            /\ command'[x].undisturbed => command[x].undisturbed /\ ~disturbs(x)
        BY <1>8, <4>1 DEF AsAlone
      <4>3. Running(x) => command[x].kind # "none"
        BY DEF IInv, Placed, Moving, Running
      <4>. QED  BY <4>2, <4>3 DEF Running
    <3>2. CASE o = p
      BY <1>7, <1>9, <2>1, <3>1, <3>2 DEF Same, alone, disturbs
    <3>3. CASE o # p /\ q = p
      BY <1>7, <1>9, <2>1, <3>1, <3>3 DEF Same, disturbs
    <3>4. CASE o # p /\ q # p
      BY <2>1, <3>1, <3>4 DEF IInv, Alike, Same
    <3>. QED  BY <3>2, <3>3, <3>4
  <2>. QED  BY <2>1 DEF Alike
<1>12. Kept(d, topics, routes, orderConf)
  <2>1. Wrote(d, topics)
    BY <1>7 DEF Wrote
  <2>2. Ordered(d, orderConf) /\ Unrouted(d, routes)
    BY <1>7 DEF Ordered, Unrouted
  <2>3. Untouched(d, topics)
    <3>1. SUFFICES ASSUME kind = "perm", NEW t \in Configs, Uniform(d, t)
                   PROVE  /\ config = PermConfig(t, config.perm)
                          /\ \A b \in Brokers : topics[b] = t
      BY <1>5, <1>7 DEF Untouched, Same
    <3>2. before = [topics |-> topics, routes |-> routes]
      BY <3>1
    <3>3. before.topics = topics /\ before.routes = routes
      BY <3>2
    <3>4. /\ \A b \in Brokers : topics[b] = t
          /\ \A n \in NameServers, b \in Brokers : routes[n][b] = t
      BY <1>7, <3>1, <3>3 DEF Uniform
    <3>5. PICK n \in NameServers, b \in Brokers : config = PermConfig(routes[n][b], config.perm)
      BY <3>1
    <3>. QED  BY <3>4, <3>5
  <2>. QED  BY <2>1, <2>2, <2>3 DEF Kept
<1>13. ASSUME NEW o \in Operators
       PROVE  Placed(command'[o]) /\ Kept(command'[o], topics, routes, orderConf)
  <2>1. CASE o = p
    BY <1>7, <1>9, <1>12, <2>1
  <2>2. CASE o # p
    <3>1. Placed(command[o]) /\ Kept(command[o], topics, routes, orderConf)
      BY DEF IInv
    <3>2. Placed(e(o)) /\ Kept(e(o), topics, routes, orderConf)
      BY <1>8, <3>1, MarkedPlaced, MarkedKept
    <3>. QED  BY <1>9, <2>2, <3>2
  <2>. QED  BY <2>1, <2>2
<1>. QED  BY <1>1, <1>10, <1>11, <1>13 DEF IInv

LEMMA UpdateTopicPermKeeps ==
  ASSUME IInv, NEW p \in Operators, NEW perm \in Perms, NEW target \in Brokers \cup {Cluster},
         UpdateTopicPerm(p, perm, target)
  PROVE  IInv'
<1>1. PICK n \in NameServers, b \in Brokers :
        routes[n][b] # NoTopic /\ Begins(p, "perm", PermConfig(routes[n][b], perm), target)
  BY DEF UpdateTopicPerm
<1>. DEFINE config == PermConfig(routes[n][b], perm)
<1>2. routes[n][b] \in Configs
  BY <1>1 DEF IInv, Types, RoutesType, MaybeTopics
<1>3. config \in Configs /\ config.perm = perm
  BY <1>2 DEF PermConfig, Configs
<1>4. config = PermConfig(routes[n][b], config.perm)
  BY <1>3
<1>. HIDE DEF config
<1>5. \E m \in NameServers, x \in Brokers : config = PermConfig(routes[m][x], config.perm)
  BY <1>4
<1>6. Begins(p, "perm", config, target)
  BY <1>1 DEF config
<1>. QED  BY <1>3, <1>5, <1>6, BeginsKeeps DEF MaybeTopics

LEMMA RegistersKeeps ==
  ASSUME IInv, NEW b \in Brokers, NEW n \in NameServers, Registers(b, n)
  PROVE  IInv'
<1>1. /\ routes' = [routes EXCEPT ![n][b] = topics[b]] /\ topics[b] # NoTopic
      /\ UNCHANGED <<topics, orderConf, listed, command, commands, faults, absences>>
  BY DEF Registers
<1>2. Types'
  <2>1. routes' \in RoutesType
    BY <1>1 DEF IInv, Types, RoutesType, TopicsType
  <2>. QED  BY <1>1, <2>1 DEF IInv, Types
<1>3. ASSUME NEW o \in Operators  PROVE Kept(command[o], topics, routes', orderConf)
  <2>. DEFINE c == command[o]
  <2>1. Placed(c) /\ Kept(c, topics, routes, orderConf)
    BY DEF IInv
  <2>. HIDE DEF c
  <2>2. SUFFICES ASSUME c.undisturbed, c.kind # "none"  PROVE Kept(c, topics, routes', orderConf)
    BY DEF Kept, c
  <2>3. Wrote(c, topics) /\ Ordered(c, orderConf) /\ Untouched(c, topics)
    BY <2>1, <2>2 DEF Kept
  <2>4. ~(c.kind = "delete" /\ c.masters = Brokers /\ Past(c))
    <3>1. SUFFICES ASSUME c.kind = "delete", c.masters = Brokers, Past(c)  PROVE FALSE
      OBVIOUS
    <3>2. c.config = NoTopic /\ c.written = Brokers
      BY <2>1, <3>1 DEF Placed, Moving, Due, Past
    <3>. QED  BY <1>1, <2>3, <3>2 DEF Wrote
  <2>5. Unrouted(c, routes')
    BY <2>4 DEF Unrouted
  <2>. QED  BY <2>3, <2>5 DEF Kept
<1>. QED  BY <1>1, <1>2, <1>3 DEF IInv, Alike, Running

LEMMA MastersKeep ==
  ASSUME IInv, NEW b \in Brokers, MasterLeaves(b) \/ MasterReturns(b)
  PROVE  IInv'
<1>1. /\ listed' \subseteq Brokers /\ absences' \in 0..MaxAbsences
      /\ UNCHANGED <<topics, routes, orderConf, command, commands, faults>>
  BY BoundsAssumption DEF MasterLeaves, MasterReturns, IInv, Types
<1>. QED  BY <1>1 DEF IInv, Types, Alike, Running

LEMMA InitHolds ==
  ASSUME Init
  PROVE  IInv
<1>1. Types
  <2>1. topics \in TopicsType /\ routes \in RoutesType
    BY DEF Init, TopicsType, RoutesType, MaybeTopics
  <2>2. NoCommand \in Commands
    <3>1. \A S : <<>> \in Seq(S)
      BY EmptySeq
    <3>. QED  BY <3>1 DEF NoCommand, Commands, MaybeTopics
  <2>3. Range(NoOrder) \subseteq QueueNums /\ DOMAIN NoOrder \subseteq Brokers
    BY DEF NoOrder, Range
  <2>4. commands \in 0..MaxCommands /\ faults \in 0..MaxFaults /\ absences \in 0..MaxAbsences
    BY BoundsAssumption DEF Init
  <2>. QED  BY <2>1, <2>2, <2>3, <2>4 DEF Init, Types
<1>2. \A o \in Operators : command[o].kind = "none" /\ command[o].pc = "idle"
  BY DEF Init, NoCommand
<1>. QED  BY <1>1, <1>2 DEF IInv, Alike, Running, Placed, Kept

LEMMA Inductive ==
  ASSUME IInv, [Next]_vars
  PROVE  IInv'
<1>1. ASSUME NEW p \in Operators, NEW target \in Brokers \cup {Cluster}, NEW config \in Asked,
             UpdateTopic(p, config, target)
      PROVE  IInv'
  <2>1. config \in Configs
    BY AskedAssumption
  <2>. QED  BY <1>1, <2>1, BeginsKeeps DEF UpdateTopic, MaybeTopics
<1>2. ASSUME NEW p \in Operators, NEW target \in Brokers \cup {Cluster}, NEW perm \in Perms,
             UpdateTopicPerm(p, perm, target)
      PROVE  IInv'
  BY <1>2, UpdateTopicPermKeeps
<1>3. ASSUME NEW p \in Operators, DeleteTopic(p)  PROVE IInv'
  BY <1>3, BeginsKeeps DEF DeleteTopic, MaybeTopics
<1>4. ASSUME NEW p \in Operators, WriteBroker(p) \/ WriteBrokerFails(p)  PROVE IInv'
  BY <1>4, WriteBrokerKeeps, WriteBrokerFailsKeeps
<1>5. ASSUME NEW p \in Operators, WriteServer(p) \/ ServerRefuses(p) \/ WriteServerFails(p)
      PROVE  IInv'
  BY <1>5, WriteServerKeeps, ServerRefusesKeeps, WriteServerFailsKeeps
<1>6. ASSUME NEW b \in Brokers,
             MasterLeaves(b) \/ MasterReturns(b) \/ \E n \in NameServers : Registers(b, n)
      PROVE  IInv'
  BY <1>6, MastersKeep, RegistersKeeps
<1>7. CASE UNCHANGED vars
  BY <1>7 DEF vars, IInv, Types, Alike, Running
<1>. QED  BY <1>1, <1>2, <1>3, <1>4, <1>5, <1>6, <1>7 DEF Next

-----------------------------------------------------------------------------
(* What an answer promises *)

\* The inductive invariant of updateTopic, updateTopicPerm and deleteTopic, side by
\* side: beside an undisturbed command run its repetitions only, so that what it has
\* written at masters and name servers is still there.
THEOREM Invariance == Spec => []IInv
BY InitHolds, Inductive, PTL DEF Spec

LEMMA TypesAreOK ==
  ASSUME IInv
  PROVE  TypeOK
<1>1. \A o \in Operators :
        /\ command[o].kind \in {"none", "update", "perm", "delete"}
        /\ command[o].pc \in {"idle", "brokers", "servers", "ok", "failed"}
        /\ command[o].written \subseteq Brokers
  BY DEF IInv, Types, Commands
<1>2. \A o \in Operators :
        /\ command[o].pc = "brokers" => command[o].todo # <<>>
        /\ command[o].pc = "servers" => command[o].servers # <<>>
  BY DEF IInv, Placed
<1>. QED  BY <1>1, <1>2 DEF IInv, Types, TypeOK, TopicsType, RoutesType, MaybeTopics

\* An answered command has no master left to write, and no name server.
LEMMA HasAnswered ==
  ASSUME IInv, NEW o \in Operators, command[o].pc = "ok", command[o].undisturbed
  PROVE  /\ command[o].kind # "none" /\ Moving(command[o]) /\ Past(command[o])
         /\ command[o].written = Due(command[o])
         /\ GoesOn(command[o]) => Range(command[o].servers) = {}
         /\ Wrote(command[o], topics) /\ Ordered(command[o], orderConf)
         /\ Unrouted(command[o], routes) /\ Untouched(command[o], topics)
<1>. DEFINE c == command[o]
<1>1. Placed(c) /\ Kept(c, topics, routes, orderConf)
  BY DEF IInv
<1>. HIDE DEF c
<1>2. c.pc = "ok" /\ c.undisturbed
  BY DEF c
<1>3. Moving(c) /\ c.kind # "none"
  BY <1>1, <1>2 DEF Placed, Moving
<1>4. Range(<<>>) = {}
  BY DEF Range
<1>5. GoesOn(c) => Range(c.servers) = {}
  BY <1>2, <1>3, <1>4 DEF Moving
<1>6. Past(c) /\ c.written = Due(c)
  BY <1>2, <1>3 DEF Moving, Past
<1>. QED  BY <1>1, <1>2, <1>3, <1>5, <1>6 DEF Kept, c

\* Client.UpdateTopic: an ok means that every master has the config and every name
\* server the queues of an ordered topic, for any failures before it.
THEOREM UpdatesHold == Spec => []AnsweredUpdatesHold
<1>1. ASSUME IInv  PROVE AnsweredUpdatesHold
  <2>1. ASSUME NEW o \in Operators, Holds(command[o], "update")
        PROVE  LET c == command[o] IN
               /\ \A b \in Brokers : (IF c.target = Cluster THEN b \in c.masters ELSE b = c.target)
                                     => b \in c.written /\ topics[b] = c.config
               /\ c.config.order => \A n \in NameServers :
                      orderConf[n] = [b \in c.written |-> c.config.queues]
    <3>. DEFINE c == command[o]
    <3>1. /\ c.kind = "update" /\ Past(c) /\ c.written = Due(c)
          /\ GoesOn(c) => Range(c.servers) = {}
          /\ Wrote(c, topics) /\ Ordered(c, orderConf)
      BY <1>1, <2>1, HasAnswered DEF Holds
    <3>. HIDE DEF c
    <3>2. \A b \in Brokers : (IF c.target = Cluster THEN b \in c.masters ELSE b = c.target)
                             => b \in c.written /\ topics[b] = c.config
      BY <3>1 DEF Due, Wrote
    <3>3. c.config.order => \A n \in NameServers :
            orderConf[n] = [b \in c.written |-> c.config.queues]
      BY <3>1 DEF Ordered, GoesOn
    <3>. QED  BY <3>2, <3>3 DEF c
  <2>. QED  BY <1>1, <2>1, TypesAreOK DEF AnsweredUpdatesHold
<1>. QED  BY <1>1, Invariance, PTL

\* Client.DeleteTopic: an ok means that no master holds the topic, and, if all
\* masters were listed, that no name server routes it again.
THEOREM DeletesFinal == Spec => []DeletesAreFinal
<1>1. ASSUME IInv  PROVE DeletesAreFinal
  <2>1. ASSUME NEW o \in Operators, Holds(command[o], "delete")
        PROVE  /\ \A b \in command[o].masters : topics[b] = NoTopic
               /\ command[o].masters = Brokers =>
                      \A n \in NameServers, b \in Brokers : routes[n][b] = NoTopic
    <3>. DEFINE c == command[o]
    <3>1. /\ c.kind = "delete" /\ Past(c) /\ c.written = Due(c) /\ Moving(c)
          /\ GoesOn(c) => Range(c.servers) = {}
          /\ Wrote(c, topics) /\ Unrouted(c, routes)
      BY <1>1, <2>1, HasAnswered DEF Holds
    <3>. HIDE DEF c
    <3>2. c.written = c.masters /\ c.config = NoTopic
      BY <3>1 DEF Moving, Due
    <3>3. c.masters = Brokers => \A n \in NameServers, b \in Brokers : routes[n][b] = NoTopic
      BY <3>1 DEF Unrouted, GoesOn
    <3>. QED  BY <3>1, <3>2, <3>3 DEF Wrote, c
  <2>. QED  BY <2>1 DEF DeletesAreFinal
<1>. QED  BY <1>1, Invariance, PTL

LEMMA OnlyThePerm ==
  ASSUME NEW t \in Configs, ~t.order, NEW perm
  PROVE  [t EXCEPT !.perm = perm] = PermConfig(t, perm)
<1>. DEFINE d == [t EXCEPT !.perm = perm]
<1>1. /\ DOMAIN t = {"queues", "perm", "order"} /\ t.order = FALSE
      /\ t = [f \in DOMAIN t |-> t[f]]
  BY DEF Configs
<1>2. DOMAIN d = {"queues", "perm", "order"} /\ d = [f \in DOMAIN t |-> d[f]]
  BY <1>1
<1>3. d.queues = t.queues /\ d.perm = perm /\ d.order = FALSE
  BY <1>1
<1>. HIDE DEF d
<1>4. d = [queues |-> d.queues, perm |-> d.perm, order |-> d.order]
  BY <1>1, <1>2
<1>. QED  BY <1>3, <1>4 DEF PermConfig, d

\* Client.UpdateTopicPerm: of a topic that was the same everywhere an ok changes the
\* permission, at the masters that were written, and nothing else.
THEOREM PermUpdatesPrecise == Spec => []PermUpdatesOfUniformTopics
<1>1. ASSUME IInv  PROVE PermUpdatesOfUniformTopics
  <2>1. ASSUME NEW o \in Operators, NEW t \in Configs, Holds(command[o], "perm"), ~t.order,
               \A b \in Brokers : command[o].before.topics[b] = t,
               \A n \in NameServers, b \in Brokers : command[o].before.routes[n][b] = t,
               NEW b \in Brokers
        PROVE  topics[b] = IF b \in command[o].written
                           THEN [t EXCEPT !.perm = command[o].config.perm] ELSE t
    <3>. DEFINE c == command[o]
    <3>1. c.kind = "perm" /\ c.written = Due(c) /\ Wrote(c, topics) /\ Untouched(c, topics)
      BY <1>1, <2>1, HasAnswered DEF Holds
    <3>2. Uniform(c, t)
      BY <2>1 DEF Uniform
    <3>. HIDE DEF c
    <3>3. c.config = PermConfig(t, c.config.perm) /\ (b \in Due(c) \/ topics[b] = t)
      BY <3>1, <3>2 DEF Untouched
    <3>4. [t EXCEPT !.perm = c.config.perm] = PermConfig(t, c.config.perm)
      BY <2>1, OnlyThePerm
    <3>5. b \in c.written => topics[b] = c.config
      BY <3>1 DEF Wrote
    <3>. QED  BY <3>1, <3>3, <3>4, <3>5 DEF c
  <2>. QED  BY <2>1 DEF PermUpdatesOfUniformTopics
<1>. QED  BY <1>1, Invariance, PTL

-----------------------------------------------------------------------------
(* The inductive invariant of the static topics *)

\* b still gets the config that the command has made for it.
Pending(b) == plan.pc = "writing" /\ b \in plan.todo /\ Reachable(b)

\* What b holds, and what it is still to hold.
Held(b) == IF b \in DOMAIN stored THEN {stored[b]} ELSE {}
Of(b) == Held(b) \cup (IF Pending(b) THEN {plan.configs[b]} ELSE {})

WellFormed(c) ==
  /\ c.write \in Nat /\ DOMAIN c.hosted \subseteq LogicQueues
  /\ \A q \in DOMAIN c.hosted : c.hosted[q] \in Seq(Range(c.hosted[q]))

\* The generations of q that the config c of x says are taken: those of x itself,
\* and all of them where x is the leader.
Counts(c, x, q, i) ==
  /\ q \in DOMAIN c.hosted /\ i \in DOMAIN c.hosted[q]
  /\ c.hosted[q][i].broker = x \/ Last(c.hosted[q]).broker = x

\* A physical queue has a number below the write queues of its broker, as x with
\* the config c and the other brokers count them.
Below(c, x, item) ==
  /\ item.queue \in Nat
  /\ item.broker = x => item.queue < c.write
  /\ item.broker # x => /\ item.broker \in Brokers /\ item.broker \in DOMAIN stored
                        /\ item.queue < stored[item.broker].write

\* What is taken is taken by one generation of one logical queue.
Exclusive(c, x, d, y) ==
  \A p \in DOMAIN c.hosted, q \in DOMAIN d.hosted :
    \A i \in DOMAIN c.hosted[p], j \in DOMAIN d.hosted[q] :
      Counts(c, x, p, i) /\ Counts(d, y, q, j) /\ c.hosted[p][i] = d.hosted[q][j]
      => p = q /\ i = j

Fields == {"pc", "configs", "todo", "table"}

StaticInv ==
  /\ DOMAIN stored \subseteq Brokers /\ Fields \subseteq DOMAIN plan
  /\ \A x \in Brokers : \A c \in Of(x) :
       /\ WellFormed(c)
       /\ \A q \in DOMAIN c.hosted : \A i \in DOMAIN c.hosted[q] :
            Counts(c, x, q, i) => Below(c, x, c.hosted[q][i])
  /\ \A x \in Brokers : Pending(x) /\ x \in DOMAIN stored =>
       stored[x].write <= plan.configs[x].write
  /\ \A x, y \in Brokers : \A c \in Of(x), d \in Of(y) : Exclusive(c, x, d, y)

\* A step that gives no broker anything but what it was to hold, and takes nothing
\* away.
LEMMA NothingNew ==
  ASSUME StaticInv, DOMAIN stored' \subseteq Brokers, Fields \subseteq DOMAIN plan',
         \A x \in Brokers : Of(x)' \subseteq Of(x),
         \A x \in Brokers : x \in DOMAIN stored =>
           x \in DOMAIN stored' /\ stored[x].write <= stored'[x].write,
         \A x \in Brokers : Pending(x)' /\ x \in DOMAIN stored' =>
           stored'[x].write <= plan'.configs[x].write
  PROVE  StaticInv'
<1>1. ASSUME NEW x \in Brokers, NEW c \in Of(x)', NEW q \in DOMAIN c.hosted,
             NEW i \in DOMAIN c.hosted[q], Counts(c, x, q, i)
      PROVE  Below(c, x, c.hosted[q][i])'
  <2>. DEFINE item == c.hosted[q][i]
  <2>1. Below(c, x, item)
    BY <1>1 DEF StaticInv
  <2>2. CASE item.broker = x
    BY <2>1, <2>2 DEF Below
  <2>3. CASE item.broker # x
    <3>. DEFINE y == item.broker
    <3>1. y \in Brokers /\ y \in DOMAIN stored /\ item.queue < stored[y].write /\ item.queue \in Nat
      BY <2>1, <2>3 DEF Below
    <3>2. y \in DOMAIN stored' /\ stored[y].write <= stored'[y].write
      BY <3>1
    <3>3. stored[y] \in Of(y) /\ stored'[y] \in Of(y)
      BY <3>1, <3>2 DEF Of, Held
    <3>4. stored[y].write \in Nat /\ stored'[y].write \in Nat
      BY <3>1, <3>3 DEF StaticInv, WellFormed
    <3>. QED  BY <2>3, <3>1, <3>2, <3>4 DEF Below
  <2>. QED  BY <2>2, <2>3
<1>2. ASSUME NEW x \in Brokers, NEW c \in Of(x)'  PROVE WellFormed(c)
  BY <1>2 DEF StaticInv
<1>3. ASSUME NEW x \in Brokers, NEW y \in Brokers, NEW c \in Of(x)', NEW d \in Of(y)'
      PROVE  Exclusive(c, x, d, y)
  BY <1>3 DEF StaticInv
<1>. QED  BY <1>1, <1>2, <1>3 DEF StaticInv, Counts, Exclusive, WellFormed

-----------------------------------------------------------------------------
(* The configs that a command makes *)

\* x holds a generation of q as it is.
Known(q, i, item) == \E y \in Brokers : \E c \in Held(y) :
  Counts(c, y, q, i) /\ c.hosted[q][i] = item

\* A generation with a number that x has not used.
New(c, x, q, i) ==
  /\ Counts(c, x, q, i) /\ c.hosted[q][i].broker = x
  /\ c.hosted[q][i].queue \in Nat /\ c.hosted[q][i].queue < c.write
  /\ x \in DOMAIN stored => stored[x].write <= c.hosted[q][i].queue

\* What a command makes of what it has read takes numbers that are free.
Built(c, x) ==
  /\ WellFormed(c)
  /\ x \in DOMAIN stored => stored[x].write <= c.write
  /\ \A q \in DOMAIN c.hosted : \A i \in DOMAIN c.hosted[q] :
       Counts(c, x, q, i) => Known(q, i, c.hosted[q][i]) \/ New(c, x, q, i)
  /\ \A p, q \in DOMAIN c.hosted : \A i \in DOMAIN c.hosted[p], j \in DOMAIN c.hosted[q] :
       New(c, x, p, i) /\ New(c, x, q, j) /\ c.hosted[p][i] = c.hosted[q][j]
       => p = q /\ i = j

\* A generation that is known has a number below what its broker has written.
LEMMA KnownBelow ==
  ASSUME StaticInv, NEW q, NEW i, NEW item, Known(q, i, item)
  PROVE  /\ item.broker \in Brokers /\ item.broker \in DOMAIN stored
         /\ item.queue \in Nat /\ stored[item.broker].write \in Nat
         /\ item.queue < stored[item.broker].write
<1>1. PICK y \in Brokers : \E c \in Held(y) : Counts(c, y, q, i) /\ c.hosted[q][i] = item
  BY DEF Known
<1>2. y \in DOMAIN stored /\ Counts(stored[y], y, q, i) /\ stored[y].hosted[q][i] = item
  BY <1>1 DEF Held
<1>3. stored[y] \in Of(y)
  BY <1>2 DEF Of, Held
<1>4. q \in DOMAIN stored[y].hosted /\ i \in DOMAIN stored[y].hosted[q]
  BY <1>2 DEF Counts
<1>5. Below(stored[y], y, item)
  BY <1>2, <1>3, <1>4 DEF StaticInv
<1>6. item.broker \in Brokers /\ item.broker \in DOMAIN stored /\ item.queue \in Nat
      /\ item.queue < stored[item.broker].write
  BY <1>2, <1>5 DEF Below
<1>7. stored[item.broker] \in Of(item.broker)
  BY <1>6 DEF Of, Held
<1>. QED  BY <1>6, <1>7 DEF StaticInv, WellFormed

LEMMA KnownOnce ==
  ASSUME StaticInv, NEW p, NEW i, NEW q, NEW j, NEW item, Known(p, i, item), Known(q, j, item)
  PROVE  p = q /\ i = j
<1>1. PICK x \in Brokers : \E c \in Held(x) : Counts(c, x, p, i) /\ c.hosted[p][i] = item
  BY DEF Known
<1>2. PICK y \in Brokers : \E c \in Held(y) : Counts(c, y, q, j) /\ c.hosted[q][j] = item
  BY DEF Known
<1>3. PICK c \in Of(x) : Counts(c, x, p, i) /\ c.hosted[p][i] = item
  BY <1>1 DEF Of
<1>4. PICK d \in Of(y) : Counts(d, y, q, j) /\ d.hosted[q][j] = item
  BY <1>2 DEF Of
<1>5. Exclusive(c, x, d, y)
  BY DEF StaticInv
<1>. QED  BY <1>3, <1>4, <1>5 DEF Exclusive, Counts

LEMMA KnownIsNotNew ==
  ASSUME StaticInv, NEW c, NEW x \in Brokers, NEW q, NEW j, New(c, x, q, j),
         NEW p, NEW i, Known(p, i, c.hosted[q][j])
  PROVE  FALSE
<1>. DEFINE item == c.hosted[q][j]
<1>1. item.broker = x /\ item.queue \in Nat /\ (x \in DOMAIN stored => stored[x].write <= item.queue)
  BY DEF New
<1>2. item.broker \in DOMAIN stored /\ item.queue < stored[item.broker].write
      /\ stored[item.broker].write \in Nat
  BY KnownBelow
<1>. QED  BY <1>1, <1>2

\* A command that begins with such configs.
LEMMA StartKeeps ==
  ASSUME StaticInv, stored' = stored, plan.pc # "writing", Fields \subseteq DOMAIN plan',
         \A x \in Brokers : Pending(x)' => Built(plan'.configs[x], x)
  PROVE  StaticInv'
<1>1. \A x \in Brokers : Of(x) = Held(x) /\ Held(x)' = Held(x)
  BY DEF Of, Pending, Held
<1>2. ASSUME NEW x \in Brokers, NEW c \in Of(x)'  PROVE c \in Of(x) \/ (Built(c, x) /\ c \notin Of(x))
  BY <1>1, <1>2 DEF Of
<1>3. ASSUME NEW x \in Brokers, NEW c \in Of(x), NEW q, NEW i, Counts(c, x, q, i)
      PROVE  Known(q, i, c.hosted[q][i])
  BY <1>1, <1>3 DEF Known
<1>4. ASSUME NEW x \in Brokers, NEW c \in Of(x)', NEW q, NEW i, Counts(c, x, q, i)
      PROVE  Known(q, i, c.hosted[q][i]) \/ (New(c, x, q, i) /\ Built(c, x) /\ c \notin Of(x))
  BY <1>2, <1>3, <1>4 DEF Built, Counts
<1>5. ASSUME NEW x \in Brokers, NEW c \in Of(x)'  PROVE WellFormed(c)
  BY <1>2, <1>5 DEF Built, StaticInv
<1>6. ASSUME NEW x \in Brokers, NEW c \in Of(x)', NEW q \in DOMAIN c.hosted,
             NEW i \in DOMAIN c.hosted[q], Counts(c, x, q, i)
      PROVE  Below(c, x, c.hosted[q][i])'
  <2>. DEFINE item == c.hosted[q][i]
  <2>1. CASE New(c, x, q, i)
    BY <2>1 DEF New, Below
  <2>2. CASE Known(q, i, item)
    <3>1. /\ item.broker \in Brokers /\ item.broker \in DOMAIN stored
          /\ item.queue \in Nat /\ stored[item.broker].write \in Nat
          /\ item.queue < stored[item.broker].write
      BY <2>2, KnownBelow
    <3>2. c \in Of(x) => c = stored[x]
      BY <1>1 DEF Held
    <3>3. c \notin Of(x) => (x \in DOMAIN stored => stored[x].write <= c.write)
      BY <1>2 DEF Built
    <3>4. c.write \in Nat
      BY <1>5 DEF WellFormed
    <3>5. item.broker = x => item.queue < c.write
      BY <3>1, <3>2, <3>3, <3>4
    <3>. QED  BY <3>1, <3>5 DEF Below
  <2>. QED  BY <1>4, <1>6, <2>1, <2>2
<1>7. ASSUME NEW x \in Brokers, NEW y \in Brokers, NEW c \in Of(x)', NEW d \in Of(y)',
             NEW p \in DOMAIN c.hosted, NEW q \in DOMAIN d.hosted,
             NEW i \in DOMAIN c.hosted[p], NEW j \in DOMAIN d.hosted[q],
             Counts(c, x, p, i), Counts(d, y, q, j), c.hosted[p][i] = d.hosted[q][j]
      PROVE  p = q /\ i = j
  <2>. DEFINE item == c.hosted[p][i]
  <2>1. CASE Known(p, i, item) /\ Known(q, j, item)
    BY <2>1, KnownOnce
  <2>2. CASE Known(p, i, item) /\ New(d, y, q, j)
    BY <1>7, <2>2, KnownIsNotNew
  <2>3. CASE New(c, x, p, i) /\ Known(q, j, item)
    BY <1>7, <2>3, KnownIsNotNew
  <2>4. CASE /\ New(c, x, p, i) /\ Built(c, x) /\ c \notin Of(x)
             /\ New(d, y, q, j) /\ Built(d, y) /\ d \notin Of(y)
    <3>1. x = y
      BY <1>7, <2>4 DEF New
    <3>2. c = d
      BY <1>1, <2>4, <3>1 DEF Of
    <3>. QED  BY <1>7, <2>4, <3>1, <3>2 DEF Built
  <2>. QED  BY <1>4, <1>7, <2>1, <2>2, <2>3, <2>4
<1>8. ASSUME NEW x \in Brokers, Pending(x)', x \in DOMAIN stored'
      PROVE  stored'[x].write <= plan'.configs[x].write
  BY <1>8 DEF Built
<1>9. DOMAIN stored' \subseteq Brokers
  BY DEF StaticInv
<1>. QED  BY <1>5, <1>6, <1>7, <1>8, <1>9 DEF StaticInv, Exclusive, Counts, WellFormed

LEMMA RankParts ==
  ASSUME NEW M \in SUBSET LogicQueues
  PROVE  /\ Cardinality(M) \in Nat
         /\ \A q \in M : Rank(q, M) \in Nat /\ Rank(q, M) < Cardinality(M)
         /\ \A p, q \in M : Rank(p, M) = Rank(q, M) => p = q
<1>1. LogicQueues \subseteq Nat /\ IsFiniteSet(LogicQueues)
  BY QueuesAssumption, FS_Interval DEF LogicQueues
<1>2. M \in SUBSET Nat /\ IsFiniteSet(M) /\ Cardinality(M) \in Nat
  BY <1>1, FS_Subset, FS_CardinalityType
<1>3. ASSUME NEW q \in M  PROVE Rank(q, M) \in Nat /\ Rank(q, M) < Cardinality(M)
  <2>. DEFINE below == {p \in M : p < q}
  <2>1. below \subseteq M /\ q \notin below
    BY <1>2
  <2>. HIDE DEF below
  <2>2. IsFiniteSet(below) /\ Cardinality(below) <= Cardinality(M) /\ Cardinality(below) # Cardinality(M)
    BY <1>2, <2>1, FS_Subset
  <2>3. Cardinality(below) \in Nat
    BY <2>2, FS_CardinalityType
  <2>. QED  BY <1>2, <2>2, <2>3 DEF below, Rank
<1>4. ASSUME NEW p \in M, NEW q \in M, p # q  PROVE Rank(p, M) # Rank(q, M)
  <2>1. p \in Nat /\ q \in Nat
    BY <1>2
  <2>2. p < q \/ q < p
    BY <1>4, <2>1
  <2>3. Rank(p, M) < Rank(q, M) \/ Rank(q, M) < Rank(p, M)
    BY <1>2, <2>2, RanksDiffer DEF Rank
  <2>. QED  BY <1>3, <2>3
<1>. QED  BY <1>2, <1>3, <1>4

\* What x starts from: what it holds, or nothing.
IsBase(base, x) ==
  /\ x \in DOMAIN stored => base = stored[x]
  /\ x \notin DOMAIN stored => base.write = 0 /\ DOMAIN base.hosted = {}

LEMMA BaseParts ==
  ASSUME StaticInv, NEW x \in Brokers, NEW base, IsBase(base, x)
  PROVE  /\ WellFormed(base)
         /\ \A q \in DOMAIN base.hosted : x \in DOMAIN stored /\ base = stored[x]
<1>1. CASE x \in DOMAIN stored
  BY <1>1 DEF IsBase, StaticInv, Of, Held
<1>2. CASE x \notin DOMAIN stored
  BY <1>2 DEF IsBase, WellFormed
<1>. QED  BY <1>1, <1>2

LEMMA FetchedBase ==
  ASSUME StaticInv, NEW x \in Brokers, table[x] = "master", NEW total, NEW epoch
  PROVE  IsBase(IF x \in DOMAIN Fetched THEN Fetched[x] ELSE EmptyConfig(total, epoch), x)
BY DEF Fetched, Restrict, IsBase, EmptyConfig

\* x makes c of what it starts from: each queue that is touched gets one generation
\* more than its past, on the broker it goes to, and x numbers those it gains after
\* its write queues.
Gains(c, x, base, touched, gained, past, to, num) ==
  /\ c.write = base.write + Cardinality(gained)
  /\ DOMAIN c.hosted = DOMAIN base.hosted \cup touched
  /\ \A q \in DOMAIN base.hosted \ touched : c.hosted[q] = base.hosted[q]
  /\ \A q \in touched :
       /\ c.hosted[q] = Append(past[q], [broker |-> to[q], queue |-> num[q]])
       /\ past[q] \in Seq(Range(past[q]))
       /\ \A i \in DOMAIN past[q] : Known(q, i, past[q][i])
       /\ to[q] = x <=> q \in gained
       /\ q \in gained => num[q] = base.write + Rank(q, gained)

LEMMA GainsAreBuilt ==
  ASSUME StaticInv, NEW x \in Brokers, NEW base, IsBase(base, x),
         NEW touched \in SUBSET LogicQueues, NEW gained \in SUBSET touched,
         NEW past, NEW to, NEW num, NEW c,
         Gains(c, x, base, touched, gained, past, to, num)
  PROVE  Built(c, x)
<1>1. WellFormed(base) /\ \A q \in DOMAIN base.hosted : x \in DOMAIN stored /\ base = stored[x]
  BY BaseParts
<1>2. gained \in SUBSET LogicQueues
  OBVIOUS
<1>3. /\ Cardinality(gained) \in Nat
      /\ \A q \in gained : Rank(q, gained) \in Nat /\ Rank(q, gained) < Cardinality(gained)
      /\ \A p, q \in gained : Rank(p, gained) = Rank(q, gained) => p = q
  BY <1>2, RankParts
<1>4. base.write \in Nat /\ c.write \in Nat
  BY <1>1, <1>3 DEF WellFormed, Gains
<1>. DEFINE item(q) == [broker |-> to[q], queue |-> num[q]]
            last(q) == Len(past[q]) + 1
<1>5. ASSUME NEW q \in touched
      PROVE  /\ Len(past[q]) \in Nat /\ DOMAIN past[q] = 1..Len(past[q])
             /\ DOMAIN c.hosted[q] = 1..last(q) /\ Len(c.hosted[q]) = last(q)
             /\ c.hosted[q][last(q)] = item(q)
             /\ \A i \in DOMAIN past[q] : c.hosted[q][i] = past[q][i]
             /\ c.hosted[q] \in Seq(Range(c.hosted[q]))
  <2>. DEFINE S == Range(past[q]) \cup {item(q)}
  <2>1. past[q] \in Seq(Range(past[q])) /\ c.hosted[q] = Append(past[q], item(q))
    BY DEF Gains
  <2>. HIDE DEF item
  <2>2. Len(past[q]) \in Nat /\ DOMAIN past[q] = 1..Len(past[q])
    BY <2>1, LenProperties
  <2>3. past[q] \in Seq(S)
    <3>1. \A i \in 1..Len(past[q]) : past[q][i] \in S
      BY <2>2 DEF Range
    <3>2. past[q] \in [1..Len(past[q]) -> S]
      BY <2>1, <2>2, <3>1, SeqDef
    <3>. QED  BY <2>2, <3>2, SeqDef
  <2>4. /\ c.hosted[q] \in Seq(S) /\ Len(c.hosted[q]) = last(q)
        /\ \A i \in 1..Len(past[q]) : c.hosted[q][i] = past[q][i]
        /\ c.hosted[q][last(q)] = item(q)
    BY <2>1, <2>2, <2>3, AppendProperties
  <2>5. DOMAIN c.hosted[q] = 1..last(q)
    BY <2>4, LenProperties
  <2>6. c.hosted[q] \in [1..last(q) -> Range(c.hosted[q])]
    BY <2>4, <2>5, SeqDef DEF Range
  <2>. QED  BY <2>2, <2>4, <2>5, <2>6, SeqDef
<1>6. WellFormed(c)
  <2>1. ASSUME NEW q \in DOMAIN c.hosted, q \notin touched  PROVE c.hosted[q] \in Seq(Range(c.hosted[q]))
    BY <1>1, <2>1 DEF WellFormed, Gains
  <2>. QED  BY <1>1, <1>4, <1>5, <2>1 DEF WellFormed, Gains
<1>7. x \in DOMAIN stored => stored[x].write <= c.write
  BY <1>3, <1>4 DEF IsBase, Gains
<1>. HIDE DEF item
<1>8. ASSUME NEW q \in touched, NEW i \in DOMAIN c.hosted[q]
      PROVE  (i \in DOMAIN past[q] /\ Known(q, i, c.hosted[q][i])) \/ i = last(q)
  <2>1. i \in DOMAIN past[q] \/ i = last(q)
    BY <1>5
  <2>2. i \in DOMAIN past[q] => Known(q, i, past[q][i]) /\ c.hosted[q][i] = past[q][i]
    BY <1>5 DEF Gains
  <2>. QED  BY <2>1, <2>2
<1>9. ASSUME NEW q \in DOMAIN c.hosted, NEW i \in DOMAIN c.hosted[q], Counts(c, x, q, i)
      PROVE  Known(q, i, c.hosted[q][i]) \/
             (New(c, x, q, i) /\ q \in gained /\ i = last(q) /\ c.hosted[q][i] = item(q))
  <2>1. CASE q \notin touched
    <3>1. x \in DOMAIN stored /\ c.hosted[q] = stored[x].hosted[q] /\ q \in DOMAIN stored[x].hosted
      BY <1>1, <2>1 DEF Gains
    <3>2. stored[x] \in Held(x) /\ Counts(stored[x], x, q, i)
      BY <1>9, <3>1 DEF Held, Counts
    <3>. QED  BY <3>1, <3>2 DEF Known
  <2>2. CASE q \in touched /\ i = last(q)
    <3>1. c.hosted[q][i] = item(q) /\ Last(c.hosted[q]) = item(q)
      BY <1>5, <2>2 DEF Last
    <3>2. to[q] = x
      BY <1>9, <3>1 DEF Counts, item
    <3>3. q \in gained /\ num[q] = base.write + Rank(q, gained)
      BY <2>2, <3>2 DEF Gains
    <3>4. num[q] \in Nat /\ num[q] < c.write /\ (x \in DOMAIN stored => stored[x].write <= num[q])
      BY <1>3, <1>4, <3>3 DEF IsBase, Gains
    <3>. QED  BY <1>9, <2>2, <3>1, <3>2, <3>3, <3>4 DEF New, item
  <2>. QED  BY <1>8, <2>1, <2>2
<1>10. ASSUME NEW p \in DOMAIN c.hosted, NEW q \in DOMAIN c.hosted,
              NEW i \in DOMAIN c.hosted[p], NEW j \in DOMAIN c.hosted[q],
              New(c, x, p, i), New(c, x, q, j), c.hosted[p][i] = c.hosted[q][j]
       PROVE  p = q /\ i = j
  <2>1. ~Known(p, i, c.hosted[p][i]) /\ ~Known(q, j, c.hosted[q][j])
    BY <1>10, KnownIsNotNew
  <2>2. /\ p \in gained /\ i = last(p) /\ c.hosted[p][i] = item(p)
        /\ q \in gained /\ j = last(q) /\ c.hosted[q][j] = item(q)
    BY <1>9, <1>10, <2>1 DEF New
  <2>3. num[p] = num[q]
    BY <1>10, <2>2 DEF item
  <2>4. base.write + Rank(p, gained) = base.write + Rank(q, gained)
    BY <2>2, <2>3 DEF Gains
  <2>5. p = q
    BY <1>3, <1>4, <2>2, <2>4
  <2>. QED  BY <2>2, <2>5
<1>. QED  BY <1>6, <1>7, <1>9, <1>10 DEF Built

\* A broker that is only completed gets an empty config.
LEMMA EmptyIsBuilt ==
  ASSUME StaticInv, NEW x \in Brokers, x \notin DOMAIN stored, NEW total, NEW epoch
  PROVE  Built(EmptyConfig(total, epoch), x)
BY DEF EmptyConfig, Built, WellFormed

\* A leader knows a queue with all its generations.
LEMMA LeadersKnow ==
  ASSUME StaticInv, NEW q \in KnownQueues(Fetched)
  PROVE  /\ LeaderItems(Fetched, q) \in Seq(Range(LeaderItems(Fetched, q)))
         /\ \A i \in DOMAIN LeaderItems(Fetched, q) : Known(q, i, LeaderItems(Fetched, q)[i])
<1>. DEFINE l == LeaderOf(Fetched, q)
<1>1. l \in DOMAIN Fetched /\ Leads(Fetched, l, q)
  BY DEF KnownQueues, LeaderOf
<1>2. l \in Brokers /\ l \in DOMAIN stored /\ Fetched[l] = stored[l]
  BY <1>1 DEF Fetched, Restrict, StaticInv
<1>3. q \in DOMAIN stored[l].hosted /\ Last(stored[l].hosted[q]).broker = l
      /\ LeaderItems(Fetched, q) = stored[l].hosted[q]
  BY <1>1, <1>2 DEF Leads, Hosts, LeaderItems
<1>4. stored[l] \in Held(l) /\ stored[l] \in Of(l)
  BY <1>2 DEF Of, Held
<1>5. \A i \in DOMAIN stored[l].hosted[q] : Counts(stored[l], l, q, i)
  BY <1>3 DEF Counts
<1>6. \A i \in DOMAIN stored[l].hosted[q] : Known(q, i, stored[l].hosted[q][i])
  BY <1>2, <1>4, <1>5 DEF Known
<1>. QED  BY <1>2, <1>3, <1>4, <1>6 DEF StaticInv, WellFormed

LEMMA UpdatedAreBuilt ==
  ASSUME StaticInv, NEW new, DOMAIN new \subseteq LogicQueues, NEW n, NEW epoch,
         NEW x \in Brokers, table[x] = "master",
         x \in DOMAIN UpdatedConfigs(Fetched, new, n, epoch)
  PROVE  Built(UpdatedConfigs(Fetched, new, n, epoch)[x], x)
<1>. DEFINE mine == {q \in DOMAIN new : new[q] = x}
            base == IF x \in DOMAIN Fetched THEN Fetched[x] ELSE EmptyConfig(0, epoch)
            c == UpdatedConfigs(Fetched, new, n, epoch)[x]
            past == [q \in mine |-> <<>>]
            to == [q \in mine |-> x]
            num == [q \in mine |-> base.write + Rank(q, mine)]
<1>1. IsBase(base, x)
  BY FetchedBase
<1>2. mine \in SUBSET LogicQueues /\ mine \in SUBSET mine
  OBVIOUS
<1>3. /\ c.write = base.write + Cardinality(mine)
      /\ c.hosted = [q \in DOMAIN base.hosted \cup mine |->
           IF q \in mine THEN <<[broker |-> x, queue |-> base.write + Rank(q, mine)]>>
                         ELSE base.hosted[q]]
  BY DEF UpdatedConfigs
<1>. HIDE DEF mine, base, c
<1>4. ASSUME NEW q \in mine
      PROVE  /\ past[q] \in Seq(Range(past[q]))
             /\ \A i \in DOMAIN past[q] : Known(q, i, past[q][i])
             /\ to[q] = x <=> q \in mine
             /\ q \in mine => num[q] = base.write + Rank(q, mine)
             /\ c.hosted[q] = Append(past[q], [broker |-> to[q], queue |-> num[q]])
  <2>1. past[q] = <<>> /\ to[q] = x /\ num[q] = base.write + Rank(q, mine)
    OBVIOUS
  <2>2. c.hosted[q] = <<[broker |-> x, queue |-> base.write + Rank(q, mine)]>>
    BY <1>3
  <2>. QED  BY <2>1, <2>2
<1>5. DOMAIN c.hosted = DOMAIN base.hosted \cup mine
      /\ \A q \in DOMAIN base.hosted \ mine : c.hosted[q] = base.hosted[q]
  BY <1>3
<1>. HIDE DEF past, to, num
<1>6. Gains(c, x, base, mine, mine, past, to, num)
  BY <1>3, <1>4, <1>5 DEF Gains
<1>7. Built(c, x)
  BY <1>1, <1>2, <1>6, GainsAreBuilt
<1>. QED  BY <1>7 DEF c

LEMMA RemappedAreBuilt ==
  ASSUME StaticInv, NEW moves, DOMAIN moves \subseteq KnownQueues(Fetched),
         NEW total, NEW epoch, NEW x \in Brokers, table[x] = "master",
         x \in DOMAIN RemappedConfigs(Fetched, moves, total, epoch)
  PROVE  Built(RemappedConfigs(Fetched, moves, total, epoch)[x], x)
<1>. DEFINE Gained(b) == {q \in DOMAIN moves : moves[q] = b}
            Base(b) == IF b \in DOMAIN Fetched THEN Fetched[b] ELSE EmptyConfig(total, epoch)
            touched == Touched(moves, Fetched, x)
            c == RemappedConfigs(Fetched, moves, total, epoch)[x]
            past == [q \in touched |-> LeaderItems(Fetched, q)]
            num == [q \in touched |-> Base(moves[q]).write + Rank(q, Gained(moves[q]))]
<1>1. IsBase(Base(x), x)
  BY FetchedBase
<1>2. touched \in SUBSET LogicQueues /\ Gained(x) \in SUBSET touched
      /\ touched \subseteq KnownQueues(Fetched)
  BY DEF Touched, KnownQueues
<1>3. /\ c.write = Base(x).write + Cardinality(Gained(x))
      /\ c.hosted = [q \in DOMAIN Base(x).hosted \cup touched |->
           IF q \in touched
             THEN Append(LeaderItems(Fetched, q),
                         [broker |-> moves[q],
                          queue |-> Base(moves[q]).write + Rank(q, Gained(moves[q]))])
             ELSE Base(x).hosted[q]]
  BY DEF RemappedConfigs, PhysicalQueue
<1>4. \A q \in touched : q \in DOMAIN moves
  BY DEF Touched
<1>. HIDE DEF c, touched
<1>5. ASSUME NEW q \in touched
      PROVE  /\ past[q] \in Seq(Range(past[q]))
             /\ \A i \in DOMAIN past[q] : Known(q, i, past[q][i])
             /\ moves[q] = x <=> q \in Gained(x)
             /\ q \in Gained(x) => num[q] = Base(x).write + Rank(q, Gained(x))
             /\ c.hosted[q] = Append(past[q], [broker |-> moves[q], queue |-> num[q]])
  <2>1. past[q] = LeaderItems(Fetched, q)
        /\ num[q] = Base(moves[q]).write + Rank(q, Gained(moves[q]))
    OBVIOUS
  <2>2. past[q] \in Seq(Range(past[q])) /\ \A i \in DOMAIN past[q] : Known(q, i, past[q][i])
    BY <1>2, <2>1, LeadersKnow
  <2>3. c.hosted[q] = Append(LeaderItems(Fetched, q),
                         [broker |-> moves[q],
                          queue |-> Base(moves[q]).write + Rank(q, Gained(moves[q]))])
    BY <1>3
  <2>4. c.hosted[q] = Append(past[q], [broker |-> moves[q], queue |-> num[q]])
    BY <2>1, <2>3
  <2>5. moves[q] = x <=> q \in Gained(x)
    BY <1>4
  <2>. QED  BY <2>1, <2>2, <2>4, <2>5
<1>6. DOMAIN c.hosted = DOMAIN Base(x).hosted \cup touched
      /\ \A q \in DOMAIN Base(x).hosted \ touched : c.hosted[q] = Base(x).hosted[q]
  BY <1>3
<1>. HIDE DEF past, num, Base, Gained
<1>7. Gains(c, x, Base(x), touched, Gained(x), past, moves, num)
  BY <1>3, <1>5, <1>6 DEF Gains
<1>8. Built(c, x)
  BY <1>1, <1>2, <1>7, GainsAreBuilt
<1>. QED  BY <1>8 DEF c

\* The brokers that a command completes, it has not read, so they hold nothing.
LEMMA CompletedAreBuilt ==
  ASSUME StaticInv, NEW configs, NEW total, NEW epoch, DOMAIN Fetched \subseteq DOMAIN configs,
         NEW x \in Brokers, table[x] = "master", x \in DOMAIN Completed(configs, total, epoch),
         x \in DOMAIN configs => Built(configs[x], x)
  PROVE  Built(Completed(configs, total, epoch)[x], x)
<1>1. CASE x \in DOMAIN configs
  BY <1>1 DEF Completed
<1>2. CASE x \notin DOMAIN configs
  <2>1. x \notin DOMAIN stored
    BY <1>2 DEF Fetched, Restrict
  <2>2. Built(EmptyConfig(total, epoch), x)
    BY <2>1, EmptyIsBuilt
  <2>. QED  BY <1>2, <2>2 DEF Completed
<1>. QED  BY <1>1, <1>2

LEMMA StartsPending ==
  ASSUME NEW kind, NEW targets, NEW n, NEW epoch, NEW configs,
         Starts(kind, targets, n, epoch, configs), NEW x, Pending(x)'
  PROVE  x \in DOMAIN configs /\ table[x] = "master" /\ plan'.configs = configs
BY DEF Starts, Pending, Reachable

LEMMA UpdateStaticTopicKeeps ==
  ASSUME StaticInv, NEW targets, NEW n \in 1..MaxQueues, UpdateStaticTopic(targets, n)
  PROVE  StaticInv'
<1>. DEFINE new == NewQueues(Fetched, targets, n)
<1>0. PICK epoch \in Epochs :
        /\ plan.pc # "writing"
        /\ Starts("update", targets, n, epoch,
                  Completed(UpdatedConfigs(Fetched, new, n, epoch), n, epoch))
  BY DEF UpdateStaticTopic
<1>. DEFINE updated == UpdatedConfigs(Fetched, new, n, epoch)
            configs == Completed(updated, n, epoch)
<1>1. plan.pc # "writing" /\ Starts("update", targets, n, epoch, configs)
  BY <1>0
<1>2. DOMAIN new \subseteq LogicQueues
  <2>. DEFINE k == Cardinality(KnownQueues(Fetched))
  <2>1. KnownQueues(Fetched) \in SUBSET LogicQueues
    BY DEF KnownQueues
  <2>2. k \in Nat
    BY <2>1, RankParts
  <2>. HIDE DEF k
  <2>3. k..(n - 1) \subseteq LogicQueues
    BY <2>2, QueuesAssumption DEF LogicQueues
  <2>. QED  BY <2>3 DEF NewQueues, k
<1>. HIDE DEF new
<1>3. DOMAIN Fetched \subseteq DOMAIN updated
  BY DEF UpdatedConfigs
<1>4. ASSUME NEW x \in Brokers, Pending(x)'  PROVE Built(plan'.configs[x], x)
  <2>1. x \in DOMAIN configs /\ table[x] = "master" /\ plan'.configs = configs
    BY <1>1, <1>4, StartsPending
  <2>2. x \in DOMAIN updated => Built(updated[x], x)
    BY <1>2, <2>1, UpdatedAreBuilt
  <2>. HIDE DEF updated
  <2>. QED  BY <1>3, <2>1, <2>2, CompletedAreBuilt
<1>5. stored' = stored /\ Fields \subseteq DOMAIN plan'
  BY <1>1 DEF Starts, Fields
<1>. QED  BY <1>1, <1>4, <1>5, StartKeeps

\* Only queues that are known move.
LEMMA KnownMove ==
  ASSUME NEW configs, NEW expected
  PROVE  DOMAIN Moves(configs, expected) \subseteq KnownQueues(configs)
BY DEF Moves, Matched, WaitingQueues

LEMMA RemappingStaticTopicKeeps ==
  ASSUME StaticInv, NEW targets, RemappingStaticTopic(targets)
  PROVE  StaticInv'
<1>. DEFINE n == Total(Fetched)
            moves == Moves(Fetched, Expected(Fetched, targets, n))
<1>0. PICK epoch \in Epochs :
        /\ plan.pc # "writing"
        /\ Starts("remap", targets, n, epoch,
                  Completed(RemappedConfigs(Fetched, moves, n, epoch), n, epoch))
  BY DEF RemappingStaticTopic
<1>. DEFINE remapped == RemappedConfigs(Fetched, moves, n, epoch)
            configs == Completed(remapped, n, epoch)
<1>1. plan.pc # "writing" /\ Starts("remap", targets, n, epoch, configs)
  BY <1>0
<1>2. DOMAIN moves \subseteq KnownQueues(Fetched)
  BY KnownMove
<1>. HIDE DEF moves, n
<1>3. DOMAIN Fetched \subseteq DOMAIN remapped
  BY DEF RemappedConfigs
<1>4. ASSUME NEW x \in Brokers, Pending(x)'  PROVE Built(plan'.configs[x], x)
  <2>1. x \in DOMAIN configs /\ table[x] = "master" /\ plan'.configs = configs
    BY <1>1, <1>4, StartsPending
  <2>2. x \in DOMAIN remapped => Built(remapped[x], x)
    BY <1>2, <2>1, RemappedAreBuilt
  <2>. HIDE DEF remapped
  <2>. QED  BY <1>3, <2>1, <2>2, CompletedAreBuilt
<1>5. stored' = stored /\ Fields \subseteq DOMAIN plan'
  BY <1>1 DEF Starts, Fields
<1>. QED  BY <1>1, <1>4, <1>5, StartKeeps

-----------------------------------------------------------------------------
(* The steps of a command, and of the name server *)

\* The command ends, or goes on with fewer brokers.
LEMMA PlanAfter ==
  ASSUME StaticInv, NEW b, NEW pc,
         plan' = [plan EXCEPT !.pc = pc] \/ plan' = [plan EXCEPT !.todo = @ \ {b}, !.pc = pc]
  PROVE  /\ Fields \subseteq DOMAIN plan' /\ plan'.configs = plan.configs
         /\ plan'.pc = pc /\ plan'.todo \subseteq plan.todo /\ plan'.table = plan.table
BY DEF StaticInv, Fields

\* A broker that is written has the config that it was to hold, which has at least
\* as many write queues.
LEMMA StoresWhatIsDue ==
  ASSUME StaticInv, NEW b \in Brokers, Turn(b), Reachable(b),
         stored' = stored \/ Stores(b),
         Fields \subseteq DOMAIN plan', plan'.configs = plan.configs,
         plan'.todo \subseteq plan.todo, plan'.table = plan.table
  PROVE  StaticInv'
<1>1. Pending(b)
  BY DEF Turn, Pending
<1>2. ASSUME NEW x \in Brokers, Pending(x)'  PROVE Pending(x)
  BY <1>1, <1>2 DEF Pending, Reachable
<1>3. /\ DOMAIN stored \subseteq DOMAIN stored' /\ DOMAIN stored' \subseteq Brokers
      /\ \A x \in DOMAIN stored' : \/ x \in DOMAIN stored /\ stored'[x] = stored[x]
                                   \/ x = b /\ stored'[x] = plan.configs[b]
  <2>1. DOMAIN stored \subseteq Brokers
    BY DEF StaticInv
  <2>2. CASE stored' = stored
    BY <2>1, <2>2
  <2>3. CASE Stores(b)
    <3>1. DOMAIN stored' = DOMAIN stored \cup {b}
          /\ \A x \in DOMAIN stored \cup {b} :
               stored'[x] = IF x = b THEN plan.configs[b] ELSE stored[x]
      BY <2>3 DEF Stores
    <3>. QED  BY <2>1, <3>1
  <2>. QED  BY <2>2, <2>3
<1>4. ASSUME NEW x \in Brokers  PROVE Of(x)' \subseteq Of(x)
  BY <1>1, <1>2, <1>3 DEF Of, Held
<1>5. plan.configs[b] \in Of(b) /\ WellFormed(plan.configs[b])
  BY <1>1 DEF StaticInv, Of
<1>6. ASSUME NEW x \in Brokers, x \in DOMAIN stored
      PROVE  x \in DOMAIN stored' /\ stored[x].write <= stored'[x].write
  <2>1. stored[x] \in Of(x)
    BY <1>6 DEF Of, Held
  <2>2. stored[x].write \in Nat
    BY <2>1 DEF StaticInv, WellFormed
  <2>3. CASE stored'[x] = stored[x]
    BY <1>3, <1>6, <2>2, <2>3
  <2>4. CASE x = b /\ stored'[x] = plan.configs[b]
    BY <1>1, <1>3, <1>6, <2>4 DEF StaticInv
  <2>. QED  BY <1>3, <1>6, <2>3, <2>4
<1>7. ASSUME NEW x \in Brokers, Pending(x)', x \in DOMAIN stored'
      PROVE  stored'[x].write <= plan'.configs[x].write
  BY <1>2, <1>3, <1>5, <1>7 DEF StaticInv, WellFormed
<1>. QED  BY <1>3, <1>4, <1>6, <1>7, NothingNew

LEMMA StepsOfCommandKeep ==
  ASSUME StaticInv, NEW b \in Brokers, WriteMaster(b) \/ BrokerHasNoMaster(b) \/ WriteFails(b)
  PROVE  StaticInv'
<1>1. CASE WriteMaster(b)
  <2>1. /\ Turn(b) /\ Reachable(b) /\ Stores(b)
        /\ plan' = [plan EXCEPT !.todo = @ \ {b}, !.pc = Ended(plan.todo \ {b})]
    BY <1>1 DEF WriteMaster
  <2>2. /\ Fields \subseteq DOMAIN plan' /\ plan'.configs = plan.configs
        /\ plan'.todo \subseteq plan.todo /\ plan'.table = plan.table
    BY <2>1, PlanAfter
  <2>. QED  BY <2>1, <2>2, StoresWhatIsDue
<1>2. CASE WriteFails(b)
  <2>1. /\ Turn(b) /\ Reachable(b) /\ (stored' = stored \/ Stores(b))
        /\ plan' = [plan EXCEPT !.pc = "failed"]
    BY <1>2 DEF WriteFails
  <2>2. /\ Fields \subseteq DOMAIN plan' /\ plan'.configs = plan.configs
        /\ plan'.todo \subseteq plan.todo /\ plan'.table = plan.table
    BY <2>1, PlanAfter
  <2>. QED  BY <2>1, <2>2, StoresWhatIsDue
<1>3. CASE BrokerHasNoMaster(b)
  <2>1. stored' = stored /\ plan' = [plan EXCEPT !.pc = "failed"]
    BY <1>3 DEF BrokerHasNoMaster
  <2>2. Fields \subseteq DOMAIN plan' /\ plan'.pc = "failed"
    BY <2>1, PlanAfter
  <2>3. \A x \in Brokers : ~Pending(x)'
    BY <2>2 DEF Pending
  <2>4. ASSUME NEW x \in Brokers  PROVE Of(x)' \subseteq Of(x)
    BY <2>1, <2>3 DEF Of, Held
  <2>5. ASSUME NEW x \in Brokers, x \in DOMAIN stored
        PROVE  x \in DOMAIN stored' /\ stored[x].write <= stored'[x].write
    BY <2>1, <2>5 DEF StaticInv, Of, Held, WellFormed
  <2>. QED  BY <2>1, <2>2, <2>3, <2>4, <2>5, NothingNew DEF StaticInv
<1>. QED  BY <1>1, <1>2, <1>3

LEMMA OthersKeep ==
  ASSUME StaticInv, UNCHANGED <<stored, plan>>
  PROVE  StaticInv'
BY DEF StaticInv, Of, Held, Pending, Reachable, Below, WellFormed, Counts, Exclusive

LEMMA StaticInitHolds == StaticInit => StaticInv
<1>1. ASSUME StaticInit  PROVE StaticInv
  <2>1. DOMAIN stored = {} /\ plan.pc = "idle" /\ Fields \subseteq DOMAIN plan
    BY <1>1 DEF StaticInit, NoConfigs, Fields
  <2>2. \A x \in Brokers : Of(x) = {} /\ ~Pending(x)
    BY <2>1 DEF Of, Held, Pending
  <2>. QED  BY <2>1, <2>2 DEF StaticInv
<1>. QED  BY <1>1

LEMMA StaticInductive == StaticInv /\ [StaticNext]_staticVars => StaticInv'
<1>. SUFFICES ASSUME StaticInv, [StaticNext]_staticVars  PROVE StaticInv'
  OBVIOUS
<1>1. ASSUME NEW targets, NEW n \in 1..MaxQueues, UpdateStaticTopic(targets, n)
      PROVE  StaticInv'
  BY <1>1, UpdateStaticTopicKeeps
<1>2. ASSUME NEW targets, RemappingStaticTopic(targets)  PROVE StaticInv'
  BY <1>2, RemappingStaticTopicKeeps
<1>3. ASSUME NEW b \in Brokers, WriteMaster(b) \/ BrokerHasNoMaster(b) \/ WriteFails(b)
      PROVE  StaticInv'
  BY <1>3, StepsOfCommandKeep
<1>4. ASSUME NEW b \in Brokers, BrokerLeaves(b) \/ BrokerReturns(b)  PROVE StaticInv'
  BY <1>4, OthersKeep DEF BrokerLeaves, BrokerReturns
<1>5. CASE UNCHANGED staticVars
  BY <1>5, OthersKeep DEF staticVars
<1>. QED  BY <1>1, <1>2, <1>3, <1>4, <1>5 DEF StaticNext

\* Whatever fails and whoever is away, a broker never uses one physical queue for
\* two logical ones: for any brokers, numbers of queues, commands and failures.
THEOREM QueuesExclusive == StaticSpec => []PhysicalQueuesAreExclusive
<1>1. StaticInv => PhysicalQueuesAreExclusive
  <2>. SUFFICES ASSUME StaticInv, NEW b \in DOMAIN stored,
                       NEW p \in DOMAIN stored[b].hosted, NEW q \in DOMAIN stored[b].hosted,
                       NEW i \in DOMAIN stored[b].hosted[p], NEW j \in DOMAIN stored[b].hosted[q],
                       stored[b].hosted[p][i] = stored[b].hosted[q][j],
                       stored[b].hosted[p][i].broker = b
                PROVE  p = q /\ i = j
    BY DEF PhysicalQueuesAreExclusive
  <2>1. b \in Brokers /\ stored[b] \in Of(b)
    BY DEF StaticInv, Of, Held
  <2>2. Exclusive(stored[b], b, stored[b], b)
    BY <2>1 DEF StaticInv
  <2>3. Counts(stored[b], b, p, i) /\ Counts(stored[b], b, q, j)
    BY DEF Counts
  <2>. QED  BY <2>2, <2>3 DEF Exclusive
<1>. QED  BY <1>1, StaticInitHolds, StaticInductive, PTL DEF StaticSpec

\* While all masters are listed, no command builds upon a mapping that a failed one
\* left torn: for any brokers, commands and failures.
THEOREM TornRefused == StaticSpec => TornTopicsAreRefused
<1>. DEFINE Refused == Torn /\ AllMasters(table) /\ plan.pc # "writing"
                       => UNCHANGED <<stored, plan>>
<1>1. StaticInv /\ [StaticNext]_staticVars => [Refused]_staticVars
  <2>. SUFFICES ASSUME StaticInv, StaticNext, Torn, AllMasters(table), plan.pc # "writing"
                PROVE  UNCHANGED <<stored, plan>>
    OBVIOUS
  <2>1. DOMAIN Fetched = DOMAIN stored /\ \A b \in DOMAIN stored : Fetched[b] = stored[b]
    BY DEF StaticInv, AllMasters, Fetched, Restrict
  <2>2. ~OneVersion(Fetched)
    BY <2>1 DEF Torn, OneVersion
  <2>3. /\ \A targets, n : ~UpdateStaticTopic(targets, n)
        /\ \A targets : ~RemappingStaticTopic(targets)
    BY <2>2 DEF UpdateStaticTopic, UpdateAllowed, RemappingStaticTopic, RemapAllowed
  <2>4. \A b \in Brokers : ~Turn(b)
    BY DEF Turn
  <2>5. PICK b \in Brokers : BrokerLeaves(b) \/ BrokerReturns(b)
    BY <2>3, <2>4 DEF StaticNext, WriteMaster, BrokerHasNoMaster, WriteFails
  <2>. QED  BY <2>5 DEF BrokerLeaves, BrokerReturns
<1>. QED  BY <1>1, StaticInitHolds, StaticInductive, PTL DEF StaticSpec, TornTopicsAreRefused

-----------------------------------------------------------------------------
(* The allocator of the static topics *)

LEMMA LeastElement ==
  ASSUME NEW T \in SUBSET Nat, T # {}
  PROVE  \E x \in T : \A y \in T : x <= y
<1>1. \E x \in T : \A y \in T : ~(<<y, x>> \in OpToRel(<, Nat))
  BY WFMin, NatLessThanWellFounded
<1>2. ASSUME NEW x \in Nat, NEW y \in Nat, y < x  PROVE <<y, x>> \in OpToRel(<, Nat)
  BY <1>2 DEF OpToRel
<1>3. PICK x \in T : \A y \in T : ~(<<y, x>> \in OpToRel(<, Nat))
  BY <1>1
<1>4. ASSUME NEW y \in T  PROVE x <= y
  <2>1. x \in Nat /\ y \in Nat /\ ~(y < x)
    BY <1>2, <1>3
  <2>. QED  BY <2>1
<1>. QED  BY <1>4

\* Induction, for a set of numbers.
LEMMA AllNumbers ==
  ASSUME NEW T, 0 \in T, \A m \in Nat : m \in T => m + 1 \in T
  PROVE  Nat \subseteq T
<1>. SUFFICES ASSUME Nat \ T # {}  PROVE FALSE
  OBVIOUS
<1>1. PICK x \in Nat \ T : \A y \in Nat \ T : x <= y
  BY LeastElement
<1>2. x # 0 /\ x - 1 \in Nat
  BY <1>1
<1>3. x - 1 \in T
  BY <1>1, <1>2
<1>. QED  BY <1>1, <1>2, <1>3

\* below[x] are the elements before x in a total order of S.
OneBelowAnother(S, below) ==
  /\ below \in [S -> SUBSET S]
  /\ \A x \in S : x \notin below[x]
  /\ \A x, y \in S : \/ x = y
                     \/ x \in below[y] /\ below[x] \subseteq below[y]
                     \/ y \in below[x] /\ below[y] \subseteq below[x]

\* Every rank is that of one element.
AllRanked(S, below) ==
  /\ \A x \in S : Cardinality(below[x]) \in 0..(Cardinality(S) - 1)
  /\ \A x, y \in S : Cardinality(below[x]) = Cardinality(below[y]) => x = y
  /\ \A i \in 0..(Cardinality(S) - 1) : \E x \in S : Cardinality(below[x]) = i

\* In a finite set with a total order every rank is that of one element.
LEMMA RanksAreAll ==
  ASSUME NEW S, IsFiniteSet(S), NEW below, OneBelowAnother(S, below)
  PROVE  AllRanked(S, below)
<1>. DEFINE n == Cardinality(S)
            ranks == [x \in S |-> Cardinality(below[x]) + 1]
<1>. USE DEF OneBelowAnother
<1>1. n \in Nat /\ IsFiniteSet(1..n) /\ Cardinality(1..n) = n
  BY FS_CardinalityType, FS_Interval
<1>2. ASSUME NEW x \in S
      PROVE  IsFiniteSet(below[x]) /\ Cardinality(below[x]) \in Nat /\ Cardinality(below[x]) < n
  <2>1. below[x] \subseteq S /\ below[x] # S
    OBVIOUS
  <2>2. IsFiniteSet(below[x]) /\ Cardinality(below[x]) <= n /\ Cardinality(below[x]) # n
    BY <2>1, FS_Subset
  <2>3. Cardinality(below[x]) \in Nat
    BY <2>2, FS_CardinalityType
  <2>. QED  BY <1>1, <2>2, <2>3
<1>3. ASSUME NEW x \in S, NEW y \in S, x \in below[y], below[x] \subseteq below[y]
      PROVE  Cardinality(below[x]) # Cardinality(below[y])
  <2>1. below[x] # below[y]
    BY <1>3
  <2>. QED  BY <1>2, <1>3, <2>1, FS_Subset
<1>4. ASSUME NEW x \in S, NEW y \in S, Cardinality(below[x]) = Cardinality(below[y])  PROVE x = y
  BY <1>3, <1>4
<1>5. ranks \in Injection(S, 1..n)
  <2>1. \A x \in S : Cardinality(below[x]) + 1 \in 1..n
    BY <1>1, <1>2
  <2>2. ASSUME NEW x \in S, NEW y \in S, ranks[x] = ranks[y]  PROVE x = y
    BY <1>2, <1>4, <2>2
  <2>. QED  BY <2>1, <2>2 DEF Injection, IsInjective
<1>6. ranks \in Surjection(S, 1..n)
  BY <1>1, <1>5, FS_Injection
<1>7. ASSUME NEW i \in 0..(n - 1)  PROVE \E x \in S : Cardinality(below[x]) = i
  <2>1. i + 1 \in 1..n
    BY <1>1
  <2>2. PICK x \in S : ranks[x] = i + 1
    BY <1>6, <2>1 DEF Surjection
  <2>. QED  BY <1>2, <2>2
<1>8. \A x \in S : Cardinality(below[x]) \in 0..(n - 1)
  BY <1>1, <1>2
<1>. QED  BY <1>4, <1>7, <1>8 DEF AllRanked

LEMMA InOrderParts ==
  ASSUME NEW S \in SUBSET Nat, IsFiniteSet(S), NEW before, \A x \in S : before[x] \in Nat
  PROVE  /\ InOrder(S, before) \in Seq(S) /\ Len(InOrder(S, before)) = Cardinality(S)
         /\ \A i, j \in 1..Cardinality(S) :
              InOrder(S, before)[i] = InOrder(S, before)[j] => i = j
<1>. DEFINE n == Cardinality(S)
            below == [x \in S |-> Preceding(x, S, before)]
            s == InOrder(S, before)
<1>1. below \in [S -> SUBSET S] /\ \A x \in S : x \notin below[x]
  BY DEF Preceding
<1>2. \A x, y \in S : \/ x = y
                      \/ x \in below[y] /\ below[x] \subseteq below[y]
                      \/ y \in below[x] /\ below[y] \subseteq below[x]
  <2>. DEFINE Less(x, y) == before[x] < before[y] \/ (before[x] = before[y] /\ x < y)
  <2>1. \A x, y, z \in S : (x = y \/ Less(x, y) \/ Less(y, x)) /\ (Less(x, y) /\ Less(y, z) => Less(x, z))
    <3>1. \A x \in S : x \in Nat /\ before[x] \in Nat
      OBVIOUS
    <3>. QED  BY <3>1
  <2>2. \A x, y \in S : y \in below[x] <=> Less(y, x)
    BY DEF Preceding
  <2>. HIDE DEF Less, below
  <2>. QED  BY <1>1, <2>1, <2>2
<1>3. \A i \in 0..(n - 1) : \E x \in S : Cardinality(below[x]) = i
  <2>. HIDE DEF below
  <2>1. OneBelowAnother(S, below)
    BY <1>1, <1>2 DEF OneBelowAnother
  <2>2. AllRanked(S, below)
    BY <2>1, RanksAreAll
  <2>. QED  BY <2>2 DEF AllRanked
<1>4. n \in Nat
  BY FS_CardinalityType
<1>5. DOMAIN s = 1..n /\ \A i \in 1..n :
        s[i] = CHOOSE x \in S : Cardinality(Preceding(x, S, before)) = i - 1
  BY DEF InOrder
<1>6. ASSUME NEW i \in 1..n
      PROVE  s[i] \in S /\ Cardinality(Preceding(s[i], S, before)) = i - 1
  <2>1. i - 1 \in 0..(n - 1)
    BY <1>4
  <2>2. \E x \in S : Cardinality(Preceding(x, S, before)) = i - 1
    BY <1>3, <2>1
  <2>. QED  BY <1>5, <2>2
<1>7. s \in [1..n -> S]
  <2>1. s = [i \in 1..n |-> s[i]]
    BY DEF InOrder
  <2>. QED  BY <1>6, <2>1
<1>8. s \in Seq(S) /\ Len(s) = n
  BY <1>4, <1>7, SeqDef, LenProperties
<1>9. ASSUME NEW i \in 1..n, NEW j \in 1..n, s[i] = s[j]  PROVE i = j
  BY <1>4, <1>6, <1>9
<1>. QED  BY <1>8, <1>9

\* l lists brokers that have the fewest queues, each once.
IsLeast(l, loads) ==
  /\ l \in Seq(DOMAIN loads)
  /\ \A i, j \in 1..Len(l) : l[i] = l[j] => i = j
  /\ \A i \in 1..Len(l) : \A c \in DOMAIN loads : loads[l[i]] <= loads[c]

LEMMA LeastBrokersAreLeast ==
  ASSUME NEW D \in SUBSET Nat, IsFiniteSet(D), D # {}, NEW loads \in [D -> Nat],
         NEW before \in [D -> Nat]
  PROVE  IsLeast(LeastBrokers(loads, before), loads) /\ LeastBrokers(loads, before) # <<>>
<1>. DEFINE S == {b \in DOMAIN loads : \A c \in DOMAIN loads : loads[b] <= loads[c]}
            l == LeastBrokers(loads, before)
<1>1. S \in SUBSET Nat /\ IsFiniteSet(S) /\ \A x \in S : before[x] \in Nat
  BY FS_Subset
<1>2. S # {}
  <2>. DEFINE T == {loads[b] : b \in D}
  <2>1. T \in SUBSET Nat /\ T # {}
    OBVIOUS
  <2>2. PICK m \in T : \A y \in T : m <= y
    BY <2>1, LeastElement
  <2>. QED  BY <2>2
<1>3. Cardinality(S) \in Nat /\ Cardinality(S) # 0
  BY <1>1, <1>2, FS_CardinalityType, FS_EmptySet
<1>4. \A b \in S : b \in D /\ \A c \in D : loads[b] <= loads[c]
  OBVIOUS
<1>5. l = InOrder(S, before)
  BY DEF LeastBrokers
<1>. HIDE DEF S
<1>6. /\ l \in Seq(S) /\ Len(l) = Cardinality(S)
      /\ \A i, j \in 1..Cardinality(S) : l[i] = l[j] => i = j
  BY <1>1, <1>5, InOrderParts
<1>. HIDE DEF l
<1>7. \A i \in 1..Len(l) : l[i] \in S
  BY <1>6, ElementOfSeq
<1>8. l \in Seq(D)
  BY <1>4, <1>6, <1>7, SeqDef
<1>9. l # <<>>
  BY <1>3, <1>6
<1>. QED  BY <1>4, <1>6, <1>7, <1>8, <1>9 DEF IsLeast, l

LEMMA RemoveAtParts ==
  ASSUME NEW S, NEW l \in Seq(S), NEW index \in 1..Len(l)
  PROVE  /\ RemoveAt(l, index) \in Seq(S) /\ Len(RemoveAt(l, index)) = Len(l) - 1
         /\ \A k \in 1..(Len(l) - 1) :
              RemoveAt(l, index)[k] = l[IF k < index THEN k ELSE k + 1]
<1>. DEFINE front == SubSeq(l, 1, index - 1)  rest == SubSeq(l, index + 1, Len(l))
<1>1. Len(l) \in Nat /\ index \in Nat
  BY LenProperties
<1>2. front \in Seq(S) /\ Len(front) = index - 1 /\ \A k \in 1..(index - 1) : front[k] = l[k]
  <2>1. \A k \in 1..(index - 1) : l[k] \in S
    BY <1>1, ElementOfSeq
  <2>. QED  BY <1>1, <2>1, SubSeqProperties
<1>3. rest \in Seq(S) /\ Len(rest) = Len(l) - index
      /\ \A k \in 1..(Len(l) - index) : rest[k] = l[index + k]
  <2>1. \A k \in (index + 1)..Len(l) : l[k] \in S
    BY <1>1, ElementOfSeq
  <2>2. /\ rest \in Seq(S)
        /\ Len(rest) = IF index + 1 <= Len(l) THEN Len(l) - (index + 1) + 1 ELSE 0
        /\ \A k \in 1..(Len(l) - (index + 1) + 1) : rest[k] = l[index + 1 + k - 1]
    BY <1>1, <2>1, SubSeqProperties
  <2>. QED  BY <1>1, <2>2
<1>. HIDE DEF front, rest
<1>4. /\ front \o rest \in Seq(S) /\ Len(front \o rest) = Len(front) + Len(rest)
      /\ \A k \in 1..(Len(front) + Len(rest)) :
           (front \o rest)[k] = IF k <= Len(front) THEN front[k] ELSE rest[k - Len(front)]
  BY <1>2, <1>3, ConcatProperties
<1>5. ASSUME NEW k \in 1..(Len(l) - 1)
      PROVE  (front \o rest)[k] = l[IF k < index THEN k ELSE k + 1]
  <2>1. CASE k < index
    BY <1>1, <1>2, <1>3, <1>4, <2>1
  <2>2. CASE ~(k < index)
    <3>1. (front \o rest)[k] = rest[k - (index - 1)] /\ k - (index - 1) \in 1..(Len(l) - index)
      BY <1>1, <1>2, <1>3, <1>4, <2>2
    <3>2. rest[k - (index - 1)] = l[index + (k - (index - 1))]
      BY <1>3, <3>1
    <3>3. index + (k - (index - 1)) = k + 1
      BY <1>1
    <3>. QED  BY <2>2, <3>1, <3>2, <3>3
  <2>. QED  BY <2>1, <2>2
<1>6. RemoveAt(l, index) = front \o rest
  BY DEF RemoveAt, front, rest
<1>7. Len(front) + Len(rest) = Len(l) - 1
  BY <1>1, <1>2, <1>3
<1>. QED  BY <1>4, <1>5, <1>6, <1>7

\* One slot for each queue of each broker.
Slots(loads) == UNION {{b} \X (1..loads[b]) : b \in DOMAIN loads}

\* What is true when i queues have been dealt out to brokers with these loads: those
\* that got some have at most one queue more than any other.
DealtOut(s, loads, i) ==
  /\ s.loads \in [DOMAIN loads -> Nat] /\ s.current \in Nat
  /\ s.dealt \in Seq(DOMAIN loads) /\ Len(s.dealt) = i
  /\ IsLeast(s.least, s.loads)
  /\ \A b \in DOMAIN loads :
       s.loads[b] = loads[b] + Cardinality({k \in 1..i : s.dealt[k] = b})
  /\ \A b, c \in DOMAIN loads : s.loads[b] # loads[b] => s.loads[b] <= s.loads[c] + 1
  /\ IsFiniteSet(Slots(s.loads)) /\ Cardinality(Slots(s.loads)) = Cardinality(Slots(loads)) + i

LEMMA OneMoreDealt ==
  ASSUME NEW D, NEW loads \in [D -> Nat], NEW s, NEW i \in Nat, DealtOut(s, loads, i),
         NEW l, IsLeast(l, s.loads), l # <<>>, NEW current \in Nat,
         Cardinality(Slots(loads)) \in Nat
  PROVE  DealtOut(Deal(s, l, current), loads, i + 1)
<1>. DEFINE index == (current % Len(l)) + 1
            x == l[index]
            t == Deal(s, l, current)
<1>1. l \in Seq(D) /\ Len(l) \in Nat /\ s.loads \in [D -> Nat]
      /\ s.dealt \in Seq(D) /\ Len(s.dealt) = i
  BY LenProperties DEF IsLeast, DealtOut
<1>2. Len(l) # 0
  BY <1>1, EmptySeq
<1>3. index \in 1..Len(l)
  BY <1>1, <1>2
<1>4. x \in D /\ \A c \in D : s.loads[x] <= s.loads[c]
  BY <1>1, <1>3, ElementOfSeq DEF IsLeast
<1>5. /\ t.loads = [s.loads EXCEPT ![x] = @ + 1] /\ t.least = RemoveAt(l, index)
      /\ t.current = current /\ t.dealt = Append(s.dealt, x)
  BY DEF Deal
<1>. HIDE DEF t, index
<1>6. /\ t.least \in Seq(D) /\ Len(t.least) = Len(l) - 1
      /\ \A k \in 1..(Len(l) - 1) : t.least[k] = l[IF k < index THEN k ELSE k + 1]
  <2>1. /\ RemoveAt(l, index) \in Seq(D) /\ Len(RemoveAt(l, index)) = Len(l) - 1
        /\ \A k \in 1..(Len(l) - 1) : RemoveAt(l, index)[k] = l[IF k < index THEN k ELSE k + 1]
    BY <1>1, <1>3, RemoveAtParts
  <2>2. t.least = RemoveAt(l, index)
    BY <1>5
  <2>. QED  BY <2>1, <2>2
<1>7. /\ t.loads \in [D -> Nat] /\ t.loads[x] = s.loads[x] + 1
      /\ \A c \in D \ {x} : t.loads[c] = s.loads[c]
  <2>1. t.loads = [s.loads EXCEPT ![x] = s.loads[x] + 1]
    BY <1>5
  <2>2. x \in D /\ s.loads \in [D -> Nat] /\ s.loads[x] + 1 \in Nat
    BY <1>1, <1>4
  <2>. HIDE DEF x
  <2>. QED  BY <2>1, <2>2
<1>13. ASSUME NEW c \in D
       PROVE  s.loads[c] \in Nat /\ t.loads[c] \in Nat /\ s.loads[c] <= t.loads[c]
  <2>1. s.loads[c] \in Nat
    BY <1>1
  <2>2. t.loads[c] = s.loads[c] + 1 \/ t.loads[c] = s.loads[c]
    BY <1>7
  <2>. QED  BY <2>1, <2>2
<1>8. IsLeast(t.least, t.loads)
  <2>. DEFINE from(k) == IF k < index THEN k ELSE k + 1
  <2>1. ASSUME NEW k \in 1..Len(t.least)
        PROVE  from(k) \in 1..Len(l) /\ from(k) # index /\ t.least[k] = l[from(k)]
    <3>1. k \in 1..(Len(l) - 1)
      BY <1>6, <2>1
    <3>2. t.least[k] = l[from(k)]
      BY <1>6, <3>1
    <3>3. from(k) \in 1..Len(l) /\ from(k) # index
      <4>1. Len(l) \in Nat
        BY <1>1
      <4>. QED  BY <1>3, <3>1, <4>1
    <3>. QED  BY <3>2, <3>3
  <2>2. ASSUME NEW j \in 1..Len(t.least), NEW k \in 1..Len(t.least), from(j) = from(k)  PROVE j = k
    BY <1>1, <1>3, <1>6, <2>2
  <2>. HIDE DEF from
  <2>3. ASSUME NEW j \in 1..Len(t.least), NEW k \in 1..Len(t.least), t.least[j] = t.least[k]
        PROVE  j = k
    BY <2>1, <2>2, <2>3 DEF IsLeast
  <2>4. ASSUME NEW k \in 1..Len(t.least), NEW c \in D  PROVE t.loads[t.least[k]] <= t.loads[c]
    <3>1. t.least[k] # x /\ t.least[k] \in D
      BY <1>1, <1>3, <2>1, ElementOfSeq DEF IsLeast
    <3>2. s.loads[t.least[k]] <= s.loads[c]
      BY <1>1, <2>1 DEF IsLeast
    <3>3. t.loads[t.least[k]] = s.loads[t.least[k]]
      BY <1>7, <3>1
    <3>4. s.loads[c] <= t.loads[c]
      BY <1>13
    <3>5. s.loads[t.least[k]] \in Nat
      BY <1>1, <3>1
    <3>. QED  BY <1>13, <3>2, <3>3, <3>4, <3>5
  <2>. QED  BY <1>6, <1>7, <2>3, <2>4 DEF IsLeast
<1>9. /\ t.dealt \in Seq(D) /\ Len(t.dealt) = i + 1 /\ t.dealt[i + 1] = x
      /\ \A k \in 1..i : t.dealt[k] = s.dealt[k]
  <2>. DEFINE a == s.dealt
  <2>1. a \in Seq(D) /\ Len(a) = i /\ x \in D /\ t.dealt = Append(a, x)
    BY <1>1, <1>4, <1>5
  <2>. HIDE DEF x, a
  <2>2. /\ Append(a, x) \in Seq(D) /\ Len(Append(a, x)) = Len(a) + 1
        /\ \A k \in 1..Len(a) : Append(a, x)[k] = a[k]
        /\ Append(a, x)[Len(a) + 1] = x
    BY <2>1, AppendProperties
  <2>. QED  BY <2>1, <2>2 DEF a
<1>10. ASSUME NEW b \in D
       PROVE  t.loads[b] = loads[b] + Cardinality({k \in 1..(i + 1) : t.dealt[k] = b})
  <2>. DEFINE old == {k \in 1..i : s.dealt[k] = b}  new == {k \in 1..(i + 1) : t.dealt[k] = b}
  <2>1. s.loads[b] = loads[b] + Cardinality(old)
    BY DEF DealtOut
  <2>2. IsFiniteSet(old)
    <3>1. old \subseteq 1..i /\ IsFiniteSet(1..i)
      BY FS_Interval
    <3>. QED  BY <3>1, FS_Subset
  <2>3. CASE b = x
    <3>1. new = old \cup {i + 1} /\ i + 1 \notin old
      BY <1>9, <2>3
    <3>. HIDE DEF old, new
    <3>2. Cardinality(new) = Cardinality(old) + 1
      BY <2>2, <3>1, FS_AddElement
    <3>3. Cardinality(old) \in Nat
      BY <2>2, FS_CardinalityType
    <3>4. t.loads[b] = loads[b] + Cardinality(new)
      BY <1>7, <2>1, <2>3, <3>2, <3>3
    <3>. QED  BY <3>4 DEF new
  <2>4. CASE b # x
    <3>1. new = old
      BY <1>9, <2>4
    <3>. QED  BY <1>7, <2>1, <2>4, <3>1
  <2>. QED  BY <2>3, <2>4
<1>11. ASSUME NEW b \in D, NEW c \in D, t.loads[b] # loads[b]  PROVE t.loads[b] <= t.loads[c] + 1
  <2>1. s.loads[c] <= t.loads[c] /\ s.loads[c] \in Nat /\ t.loads[c] \in Nat /\ s.loads[b] \in Nat
    BY <1>13
  <2>2. CASE b = x
    <3>1. t.loads[b] = s.loads[b] + 1 /\ s.loads[b] <= s.loads[c]
      BY <1>4, <1>7, <2>2
    <3>. QED  BY <2>1, <3>1
  <2>3. CASE b # x
    <3>1. t.loads[b] = s.loads[b] /\ s.loads[b] <= s.loads[c] + 1
      BY <1>7, <1>11, <2>3 DEF DealtOut
    <3>. QED  BY <2>1, <3>1
  <2>. QED  BY <2>2, <2>3
<1>12. /\ IsFiniteSet(Slots(t.loads))
       /\ Cardinality(Slots(t.loads)) = Cardinality(Slots(loads)) + (i + 1)
  <2>. DEFINE new == <<x, s.loads[x] + 1>>
  <2>1. \A b, k : <<b, k>> \in Slots(s.loads) <=> b \in D /\ k \in 1..s.loads[b]
    BY <1>1 DEF Slots
  <2>2. \A b, k : <<b, k>> \in Slots(t.loads) <=> b \in D /\ k \in 1..t.loads[b]
    BY <1>7 DEF Slots
  <2>3. /\ \A e \in Slots(s.loads) : e = <<e[1], e[2]>>
        /\ \A e \in Slots(t.loads) : e = <<e[1], e[2]>>
    BY DEF Slots
  <2>4. \A b \in D : \A k : k \in 1..t.loads[b] <=> k \in 1..s.loads[b] \/ (b = x /\ k = s.loads[x] + 1)
    <3>1. s.loads[x] \in Nat /\ t.loads[x] = s.loads[x] + 1
      BY <1>1, <1>4, <1>7
    <3>2. \A k : k \in 1..(s.loads[x] + 1) <=> k \in 1..s.loads[x] \/ k = s.loads[x] + 1
      BY <3>1
    <3>. QED  BY <1>7, <3>1, <3>2
  <2>5. new \notin Slots(s.loads)
    BY <1>1, <1>4, <2>1
  <2>6. ASSUME NEW e  PROVE e \in Slots(t.loads) <=> e \in Slots(s.loads) \/ e = new
    BY <1>4, <2>1, <2>2, <2>3, <2>4
  <2>7. Slots(t.loads) = Slots(s.loads) \cup {new}
    BY <2>6
  <2>. HIDE DEF new
  <2>8. IsFiniteSet(Slots(s.loads)) /\ Cardinality(Slots(s.loads)) = Cardinality(Slots(loads)) + i
    BY DEF DealtOut
  <2>9. IsFiniteSet(Slots(t.loads)) /\ Cardinality(Slots(t.loads)) = Cardinality(Slots(s.loads)) + 1
    BY <2>5, <2>7, <2>8, FS_AddElement
  <2>. QED  BY <2>8, <2>9
<1>14. DOMAIN loads = D /\ t.current = current
  BY <1>5
<1>. HIDE DEF x
<1>15. DealtOut(t, loads, i + 1)
  BY <1>7, <1>8, <1>9, <1>10, <1>11, <1>12, <1>14, ZenonT(20) DEF DealtOut
<1>. QED  BY <1>15 DEF t

LEMMA NoneDealtYet ==
  ASSUME NEW D, NEW loads \in [D -> Nat], IsFiniteSet(Slots(loads))
  PROVE  DealtOut(NoneDealt(loads), loads, 0)
<1>. DEFINE s == NoneDealt(loads)
<1>1. s.loads = loads /\ s.least = <<>> /\ s.current = 0 /\ s.dealt = <<>>
  BY DEF NoneDealt
<1>2. IsLeast(s.least, s.loads)
  BY <1>1 DEF IsLeast
<1>3. \A b : {k \in 1..0 : s.dealt[k] = b} = {}
  OBVIOUS
<1>4. \A b \in D : loads[b] = loads[b] + Cardinality({k \in 1..0 : s.dealt[k] = b})
  BY <1>3, FS_EmptySet
<1>5. Cardinality(Slots(loads)) = Cardinality(Slots(loads)) + 0
  BY FS_CardinalityType
<1>. QED  BY <1>1, <1>2, <1>4, <1>5 DEF DealtOut

LEMMA NextIsDealt ==
  ASSUME NEW D \in SUBSET Nat, IsFiniteSet(D), D # {}, NEW loads \in [D -> Nat],
         NEW before \in [D -> Nat], Cardinality(Slots(loads)) \in Nat,
         NEW s, NEW i \in Nat, DealtOut(s, loads, i)
  PROVE  DealtOut(NextBroker(s, before), loads, i + 1)
<1>. DEFINE l == LeastBrokers(s.loads, before)
<1>1. s.loads \in [D -> Nat] /\ IsLeast(s.least, s.loads) /\ s.current \in Nat
  BY DEF DealtOut
<1>2. CASE s.least = <<>>
  <2>1. IsLeast(l, s.loads) /\ l # <<>>
    BY <1>1, LeastBrokersAreLeast
  <2>. HIDE DEF l
  <2>2. Len(l) - 1 \in Nat
    BY <2>1, EmptySeq, LenProperties DEF IsLeast
  <2>3. NextBroker(s, before) = Deal(s, l, Len(l) - 1)
    BY <1>2 DEF NextBroker, DealFresh, l
  <2>. QED  BY <2>1, <2>2, <2>3, OneMoreDealt
<1>3. CASE s.least # <<>>
  BY <1>1, <1>3, OneMoreDealt DEF NextBroker
<1>. QED  BY <1>2, <1>3

\* The states of the allocator exist, as each is made from the one before.
AreStates(f, loads, before, n) ==
  f = [i \in 0..n |-> IF i = 0 THEN NoneDealt(loads) ELSE NextBroker(f[i - 1], before)]

LEMMA StatesExist ==
  ASSUME NEW loads, NEW before, NEW n \in Nat
  PROVE  \E f : AreStates(f, loads, before, n)
<1>. DEFINE T == {m \in Nat : \E f : AreStates(f, loads, before, m)}
<1>1. 0 \in T
  <2>. DEFINE f == [i \in 0..0 |-> NoneDealt(loads)]
  <2>1. AreStates(f, loads, before, 0)
    BY DEF AreStates
  <2>. QED  BY <2>1
<1>2. ASSUME NEW m \in Nat, m \in T  PROVE m + 1 \in T
  <2>1. PICK f : AreStates(f, loads, before, m)
    BY <1>2
  <2>. DEFINE g == [i \in 0..(m + 1) |-> IF i = m + 1 THEN NextBroker(f[m], before) ELSE f[i]]
  <2>2. ASSUME NEW i \in 0..(m + 1)
        PROVE  g[i] = IF i = 0 THEN NoneDealt(loads) ELSE NextBroker(g[i - 1], before)
    <3>1. CASE i = m + 1
      BY <3>1
    <3>2. CASE i # m + 1
      <4>1. i \in 0..m /\ (i # 0 => i - 1 \in 0..m)
        BY <3>2
      <4>2. f[i] = IF i = 0 THEN NoneDealt(loads) ELSE NextBroker(f[i - 1], before)
        BY <2>1, <4>1 DEF AreStates
      <4>3. g[i] = f[i] /\ (i # 0 => g[i - 1] = f[i - 1])
        BY <3>2, <4>1
      <4>. QED  BY <4>2, <4>3
    <3>. QED  BY <3>1, <3>2
  <2>3. AreStates(g, loads, before, m + 1)
    BY <2>2 DEF AreStates
  <2>. QED  BY <2>3
<1>. HIDE DEF T
<1>3. n \in T
  BY <1>1, <1>2, AllNumbers
<1>. QED  BY <1>3 DEF T

\* upToNum deals out n queues, for any brokers and loads.
LEMMA UpToNumDeals ==
  ASSUME NEW D \in SUBSET Nat, IsFiniteSet(D), D # {}, NEW loads \in [D -> Nat],
         NEW before \in [D -> Nat], IsFiniteSet(Slots(loads)), NEW n \in Nat
  PROVE  DealtOut(UpToNum(n, loads, before), loads, n)
<1>. DEFINE f == CHOOSE state : AreStates(state, loads, before, n)
<1>1. AreStates(f, loads, before, n)
  BY StatesExist
<1>2. UpToNum(n, loads, before) = f[n]
  BY DEF UpToNum, AreStates
<1>. HIDE DEF f
<1>3. Cardinality(Slots(loads)) \in Nat
  BY FS_CardinalityType
<1>. DEFINE T == {i \in Nat : i <= n => DealtOut(f[i], loads, i)}
<1>4. 0 \in T
  <2>1. f[0] = NoneDealt(loads)
    BY <1>1 DEF AreStates
  <2>. QED  BY <2>1, NoneDealtYet
<1>5. ASSUME NEW i \in Nat, i \in T  PROVE i + 1 \in T
  <2>. SUFFICES ASSUME i + 1 <= n  PROVE DealtOut(f[i + 1], loads, i + 1)
    OBVIOUS
  <2>1. DealtOut(f[i], loads, i)
    BY <1>5
  <2>2. f[i + 1] = NextBroker(f[i], before)
    BY <1>1 DEF AreStates
  <2>3. DealtOut(NextBroker(f[i], before), loads, i + 1)
    BY <1>3, <2>1, NextIsDealt
  <2>. QED  BY <2>2, <2>3
<1>. HIDE DEF T
<1>6. n \in T
  BY <1>4, <1>5, AllNumbers
<1>. QED  BY <1>2, <1>6 DEF T

LEMMA SlotsAreFinite ==
  ASSUME NEW D, IsFiniteSet(D), NEW loads \in [D -> Nat]
  PROVE  IsFiniteSet(Slots(loads))
<1>. DEFINE T == {{b} \X (1..loads[b]) : b \in D}
<1>1. IsFiniteSet(T)
  <2>. DEFINE f == [b \in D |-> {b} \X (1..loads[b])]
  <2>1. f \in Surjection(D, T)
    BY DEF Surjection
  <2>. HIDE DEF f, T
  <2>. QED  BY <2>1, FS_Surjection
<1>2. ASSUME NEW b \in D  PROVE IsFiniteSet({b} \X (1..loads[b]))
  <2>1. IsFiniteSet({b}) /\ IsFiniteSet(1..loads[b])
    <3>1. IsFiniteSet({})
      BY FS_EmptySet
    <3>2. IsFiniteSet({} \cup {b})
      BY <3>1, FS_AddElement
    <3>3. {} \cup {b} = {b}
      OBVIOUS
    <3>4. IsFiniteSet(1..loads[b])
      BY FS_Interval
    <3>. QED  BY <3>2, <3>3, <3>4
  <2>. QED  BY <2>1, FS_Product
<1>3. \A S \in T : IsFiniteSet(S)
  BY <1>2
<1>. HIDE DEF T
<1>4. IsFiniteSet(UNION T)
  BY <1>1, <1>3, FS_UNION
<1>. QED  BY <1>4 DEF Slots, T

-----------------------------------------------------------------------------
(* What a command makes of the configs that it has read *)

IsFcn(f) == f = [x \in DOMAIN f |-> f[x]]

\* The configs of brokers.
AreConfigs(configs) ==
  IsFcn(configs) /\ DOMAIN configs \subseteq Brokers /\ \A b \in DOMAIN configs : IsConfig(configs[b])

OneLeader(configs) ==
  \A a, b \in DOMAIN configs, q \in LogicQueues :
    Leads(configs, a, q) /\ Leads(configs, b, q) => a = b

\* All configs are of one command.
IsVersion(configs, n, epoch) ==
  \A b \in DOMAIN configs : configs[b].total = n /\ configs[b].epoch = epoch

\* Queues that move are led by the brokers that they go to, others as before.
Lead(made, configs, to) ==
  \A b, q : Leads(made, b, q) <=> IF q \in DOMAIN to THEN b = to[q] ELSE Leads(configs, b, q)

LEMMA KnownParts ==
  ASSUME NEW configs
  PROVE  /\ KnownQueues(configs) \in SUBSET LogicQueues
         /\ IsFiniteSet(KnownQueues(configs)) /\ Cardinality(KnownQueues(configs)) \in Nat
         /\ \A b : /\ QueuesLedBy(configs, b) \in SUBSET LogicQueues
                   /\ QueuesLedBy(configs, b) \subseteq KnownQueues(configs)
                   /\ IsFiniteSet(QueuesLedBy(configs, b))
                   /\ Cardinality(QueuesLedBy(configs, b)) \in Nat
         /\ LogicQueues \in SUBSET Nat /\ IsFiniteSet(LogicQueues)
<1>1. LogicQueues \in SUBSET Nat /\ IsFiniteSet(LogicQueues)
  BY QueuesAssumption, FS_Interval DEF LogicQueues
<1>2. KnownQueues(configs) \in SUBSET LogicQueues
  BY DEF KnownQueues
<1>3. ASSUME NEW b
      PROVE  /\ QueuesLedBy(configs, b) \in SUBSET LogicQueues
             /\ QueuesLedBy(configs, b) \subseteq KnownQueues(configs)
  BY DEF QueuesLedBy, KnownQueues, Leads, Hosts
<1>. QED  BY <1>1, <1>2, <1>3, FS_Subset, FS_CardinalityType

LEMMA LeaderParts ==
  ASSUME NEW configs, OneLeader(configs), NEW b, NEW q \in LogicQueues, Leads(configs, b, q)
  PROVE  q \in KnownQueues(configs) /\ LeaderOf(configs, q) = b /\ q \in QueuesLedBy(configs, b)
<1>1. b \in DOMAIN configs
  BY DEF Leads, Hosts
<1>2. \A c \in DOMAIN configs : Leads(configs, c, q) => c = b
  BY <1>1 DEF OneLeader
<1>. QED  BY <1>1, <1>2 DEF KnownQueues, LeaderOf, QueuesLedBy

LEMMA KnownAreLed ==
  ASSUME NEW configs, NEW q \in KnownQueues(configs)
  PROVE  LeaderOf(configs, q) \in DOMAIN configs /\ Leads(configs, LeaderOf(configs, q), q)
BY DEF KnownQueues, LeaderOf

LEMMA NewLeaders ==
  ASSUME NEW made, NEW configs, NEW to, Lead(made, configs, to), OneLeader(configs)
  PROVE  OneLeader(made)
BY DEF Lead, OneLeader, Leads, Hosts

\* The brokers that a command completes lead nothing.
LEMMA CompletedParts ==
  ASSUME NEW made, AreConfigs(made), NEW n \in 0..MaxQueues, NEW epoch \in Nat,
         IsVersion(made, n, epoch)
  PROVE  /\ AreConfigs(Completed(made, n, epoch))
         /\ IsVersion(Completed(made, n, epoch), n, epoch)
         /\ DOMAIN made \subseteq DOMAIN Completed(made, n, epoch)
         /\ \A b \in DOMAIN made : Completed(made, n, epoch)[b] = made[b]
         /\ \A b, q : Leads(Completed(made, n, epoch), b, q) <=> Leads(made, b, q)
<1>. DEFINE c == Completed(made, n, epoch)
            empty == EmptyConfig(n, epoch)
<1>1. IsConfig(empty) /\ empty.total = n /\ empty.epoch = epoch /\ DOMAIN empty.hosted = {}
  BY DEF EmptyConfig, IsConfig
<1>2. PICK added \in SUBSET Brokers :
        c = [b \in DOMAIN made \cup added |-> IF b \in DOMAIN made THEN made[b] ELSE empty]
  <2>. DEFINE clusters == {ClusterOf[b] : b \in {x \in DOMAIN made : table[x] # "gone"}}
              added == {b \in Brokers : table[b] # "gone" /\ ClusterOf[b] \in clusters}
  <2>1. c = [b \in DOMAIN made \cup added |-> IF b \in DOMAIN made THEN made[b] ELSE empty]
    BY DEF Completed
  <2>. HIDE DEF clusters, c, empty
  <2>. QED  BY <2>1
<1>. HIDE DEF empty, c
<1>3. DOMAIN c = DOMAIN made \cup added /\ IsFcn(c)
  BY <1>2 DEF IsFcn
<1>4. \A b \in DOMAIN made : c[b] = made[b]
  BY <1>2, <1>3
<1>5. \A b \in DOMAIN c \ DOMAIN made : c[b] = empty
  BY <1>2, <1>3
<1>6. AreConfigs(c)
  BY <1>1, <1>3, <1>4, <1>5 DEF AreConfigs
<1>7. IsVersion(c, n, epoch)
  BY <1>1, <1>3, <1>4, <1>5 DEF IsVersion
<1>8. \A b, q : Leads(c, b, q) <=> Leads(made, b, q)
  BY <1>1, <1>3, <1>4, <1>5 DEF Leads, Hosts
<1>. QED  BY <1>3, <1>4, <1>6, <1>7, <1>8 DEF c

LEMMA VersionIsOne ==
  ASSUME NEW configs, NEW n, NEW epoch, IsVersion(configs, n, epoch)
  PROVE  OneVersion(configs)
BY DEF IsVersion, OneVersion

-----------------------------------------------------------------------------
(* updateStaticTopic *)

Gets(dealt, m, b) == Cardinality({i \in 1..m : dealt[i] = b})

\* The queues from k on go to brokers as dealt; who gets some has no more than one
\* queue more than any other of D.
Levels(new, dealt, configs, D, k, n) ==
  /\ \A q \in DOMAIN new : new[q] = dealt[q - k + 1]
  /\ \A b, c \in D :
       Gets(dealt, n - k, b) # 0
       => Loads(configs, b) + Gets(dealt, n - k, b) <= Loads(configs, c) + Gets(dealt, n - k, c) + 1

\* Where the new queues go, and how many of them to each broker.
LEMMA NewQueuesParts ==
  ASSUME NEW configs, AreConfigs(configs), NEW targets \in SUBSET Brokers, targets # {},
         NEW n \in 1..MaxQueues, n > Cardinality(KnownQueues(configs))
  PROVE  LET k == Cardinality(KnownQueues(configs))
             D == targets \cup DOMAIN configs
             new == NewQueues(configs, targets, n)
         IN  /\ new \in [(k..(n - 1)) \ KnownQueues(configs) -> D]
             /\ DOMAIN new \in SUBSET LogicQueues
             /\ \E dealt \in [1..(n - k) -> D] : Levels(new, dealt, configs, D, k, n)
<1>. DEFINE known == KnownQueues(configs)
            k == Cardinality(known)
            D == targets \cup DOMAIN configs
            new == NewQueues(configs, targets, n)
            loads == [b \in D |-> Cardinality(QueuesLedBy(configs, b))]
            zero == [b \in D |-> 0]
            s == UpToNum(n - k, loads, zero)
            gets(x) == Gets(s.dealt, n - k, x)
<1>1. D \in SUBSET Nat /\ IsFiniteSet(D) /\ D # {}
  BY BrokersAssumption, FS_Subset DEF AreConfigs
<1>2. k \in Nat /\ n \in Nat /\ n - k \in Nat /\ loads \in [D -> Nat] /\ zero \in [D -> Nat]
  BY KnownParts, QueuesAssumption
<1>3. IsFiniteSet(Slots(loads))
  BY <1>1, <1>2, SlotsAreFinite
<1>4. DealtOut(s, loads, n - k)
  <2>. HIDE DEF loads, zero, D, k
  <2>. QED  BY <1>1, <1>2, <1>3, UpToNumDeals
<1>5. new = [q \in (k..(n - 1)) \ known |-> s.dealt[q - k + 1]]
  BY DEF NewQueues
<1>. HIDE DEF s, known, k
<1>6. s.dealt \in [1..(n - k) -> D]
  BY <1>4, SeqDef, LenProperties DEF DealtOut
<1>7. ASSUME NEW q \in (k..(n - 1)) \ known  PROVE q - k + 1 \in 1..(n - k)
  BY <1>2
<1>8. new \in [(k..(n - 1)) \ known -> D] /\ \A q \in DOMAIN new : new[q] = s.dealt[q - k + 1]
  BY <1>5, <1>6, <1>7
<1>9. (k..(n - 1)) \ known \in SUBSET LogicQueues
  BY <1>2, QueuesAssumption DEF LogicQueues
<1>10. ASSUME NEW b \in D, NEW c \in D, gets(b) # 0
       PROVE  loads[b] + gets(b) <= loads[c] + gets(c) + 1
  <2>1. s.loads[b] = loads[b] + gets(b) /\ s.loads[c] = loads[c] + gets(c)
    BY <1>4 DEF DealtOut, Gets
  <2>2. IsFiniteSet({i \in 1..(n - k) : s.dealt[i] = b})
    <3>1. IsFiniteSet(1..(n - k))
      BY <1>2, FS_Interval
    <3>2. {i \in 1..(n - k) : s.dealt[i] = b} \subseteq 1..(n - k)
      OBVIOUS
    <3>. QED  BY <3>1, <3>2, FS_Subset
  <2>3. gets(b) \in Nat
    BY <2>2, FS_CardinalityType DEF Gets
  <2>4. s.loads[b] # loads[b]
    BY <1>2, <1>10, <2>1, <2>3
  <2>5. s.loads[b] <= s.loads[c] + 1
    BY <1>4, <2>4 DEF DealtOut
  <2>. QED  BY <2>1, <2>5
<1>11. Levels(new, s.dealt, configs, D, k, n)
  BY <1>8, <1>10 DEF Levels, Loads
<1>. HIDE DEF new
<1>. QED  BY <1>6, <1>8, <1>9, <1>11 DEF new, known, k

LEMMA UpdatedParts ==
  ASSUME NEW configs, AreConfigs(configs), NEW n \in 1..MaxQueues, NEW epoch \in Nat,
         NEW new, DOMAIN new \in SUBSET LogicQueues, \A q \in DOMAIN new : new[q] \in Brokers,
         DOMAIN new \cap KnownQueues(configs) = {}
  PROVE  LET made == UpdatedConfigs(configs, new, n, epoch)
         IN  /\ AreConfigs(made) /\ IsVersion(made, n, epoch)
             /\ DOMAIN configs \subseteq DOMAIN made /\ Lead(made, configs, new)
             /\ \A b \in DOMAIN configs : \A q \in DOMAIN configs[b].hosted \ DOMAIN new :
                  made[b].hosted[q] = configs[b].hosted[q]
<1>. DEFINE made == UpdatedConfigs(configs, new, n, epoch)
            Mine(b) == {q \in DOMAIN new : new[q] = b}
            Base(b) == IF b \in DOMAIN configs THEN configs[b] ELSE EmptyConfig(0, epoch)
            item(b, q) == [broker |-> b, queue |-> Base(b).write + Rank(q, Mine(b))]
<1>1. /\ IsFcn(made) /\ DOMAIN made = DOMAIN configs \cup {new[q] : q \in DOMAIN new}
      /\ \A b \in DOMAIN made :
           /\ DOMAIN made[b] = {"write", "epoch", "total", "hosted"}
           /\ made[b].write = Base(b).write + Cardinality(Mine(b))
           /\ made[b].epoch = epoch /\ made[b].total = n
           /\ DOMAIN made[b].hosted = DOMAIN Base(b).hosted \cup Mine(b)
           /\ \A q \in DOMAIN made[b].hosted :
                /\ q \in Mine(b) => made[b].hosted[q] = <<item(b, q)>>
                /\ q \notin Mine(b) => made[b].hosted[q] = Base(b).hosted[q]
  <2>1. IsFcn(made) /\ DOMAIN made = DOMAIN configs \cup {new[q] : q \in DOMAIN new}
    BY DEF UpdatedConfigs, IsFcn
  <2>. DEFINE hosted(b) == [q \in DOMAIN Base(b).hosted \cup Mine(b) |->
                              IF q \in Mine(b) THEN <<item(b, q)>> ELSE Base(b).hosted[q]]
  <2>2. ASSUME NEW b \in DOMAIN made
        PROVE  made[b] = [write |-> Base(b).write + Cardinality(Mine(b)), epoch |-> epoch,
                          total |-> n, hosted |-> hosted(b)]
    BY DEF UpdatedConfigs
  <2>. HIDE DEF made, Base, Mine, item
  <2>3. ASSUME NEW b \in DOMAIN made
        PROVE  /\ DOMAIN made[b] = {"write", "epoch", "total", "hosted"}
               /\ made[b].write = Base(b).write + Cardinality(Mine(b))
               /\ made[b].epoch = epoch /\ made[b].total = n
               /\ made[b].hosted = hosted(b)
    <3>. HIDE DEF hosted
    <3>. QED  BY <2>2
  <2>. QED  BY <2>1, <2>3
<1>2. ASSUME NEW b
      PROVE  /\ IsConfig(Base(b))
             /\ b \in DOMAIN configs => Base(b) = configs[b]
             /\ b \notin DOMAIN configs => DOMAIN Base(b).hosted = {}
  <2>1. CASE b \in DOMAIN configs
    BY <2>1 DEF AreConfigs
  <2>2. CASE b \notin DOMAIN configs
    BY <2>2, QueuesAssumption DEF EmptyConfig, IsConfig
  <2>. QED  BY <2>1, <2>2
<1>3. ASSUME NEW b
      PROVE  /\ Cardinality(Mine(b)) \in Nat /\ Mine(b) \in SUBSET LogicQueues
             /\ \A q \in Mine(b) : Rank(q, Mine(b)) \in Nat
  <2>1. Mine(b) \in SUBSET LogicQueues
    OBVIOUS
  <2>. HIDE DEF Mine
  <2>. QED  BY <2>1, RankParts
<1>4. \A b, q : q \in Mine(b) <=> q \in DOMAIN new /\ new[q] = b
  OBVIOUS
<1>5. ASSUME NEW b, NEW q \in Mine(b), b \in Brokers
      PROVE  <<item(b, q)>> \in Seq(Items) \ {<<>>} /\ Last(<<item(b, q)>>).broker = b
  <2>1. Base(b).write \in Nat /\ Rank(q, Mine(b)) \in Nat
    BY <1>2, <1>3 DEF IsConfig
  <2>. HIDE DEF Base, Mine
  <2>2. item(b, q) \in Items /\ item(b, q).broker = b
    BY <1>5, <2>1 DEF Items
  <2>. HIDE DEF item
  <2>. QED  BY <2>2 DEF Last
<1>. HIDE DEF made, Mine, Base, item
<1>6. DOMAIN made \subseteq Brokers
  BY <1>1 DEF AreConfigs
<1>7. ASSUME NEW b \in DOMAIN made  PROVE IsConfig(made[b])
  <2>1. made[b].write \in Nat
    BY <1>1, <1>2, <1>3 DEF IsConfig
  <2>2. n \in 0..MaxQueues
    BY QueuesAssumption
  <2>3. DOMAIN made[b].hosted = DOMAIN Base(b).hosted \cup Mine(b)
    BY <1>1
  <2>4. DOMAIN made[b].hosted \subseteq LogicQueues
    BY <1>2, <1>3, <2>3 DEF IsConfig
  <2>5. ASSUME NEW q \in DOMAIN made[b].hosted  PROVE made[b].hosted[q] \in Seq(Items) \ {<<>>}
    <3>1. CASE q \in Mine(b)
      <4>1. made[b].hosted[q] = <<item(b, q)>> /\ b \in Brokers
        BY <1>1, <1>6, <3>1
      <4>2. <<item(b, q)>> \in Seq(Items) \ {<<>>}
        BY <1>5, <3>1, <4>1
      <4>. QED  BY <4>1, <4>2
    <3>2. CASE q \notin Mine(b)
      <4>1. q \in DOMAIN Base(b).hosted /\ made[b].hosted[q] = Base(b).hosted[q]
        BY <1>1, <2>3, <3>2
      <4>. QED  BY <1>2, <4>1 DEF IsConfig
    <3>. QED  BY <3>1, <3>2
  <2>. QED  BY <1>1, <2>1, <2>2, <2>4, <2>5 DEF IsConfig
<1>8. AreConfigs(made) /\ IsVersion(made, n, epoch) /\ DOMAIN configs \subseteq DOMAIN made
  BY <1>1, <1>6, <1>7 DEF AreConfigs, IsVersion
<1>9. ASSUME NEW b, NEW q
      PROVE  Leads(made, b, q) <=> IF q \in DOMAIN new THEN b = new[q] ELSE Leads(configs, b, q)
  <2>1. CASE q \in Mine(b)
    <3>1. b \in DOMAIN made /\ q \in DOMAIN made[b].hosted /\ made[b].hosted[q] = <<item(b, q)>>
      BY <1>1, <1>4, <2>1
    <3>2. Leads(made, b, q)
      BY <1>5, <1>6, <2>1, <3>1 DEF Leads, Hosts
    <3>. QED  BY <1>4, <2>1, <3>2
  <2>2. CASE q \notin Mine(b)
    <3>1. Leads(made, b, q) <=> Leads(configs, b, q)
      BY <1>1, <1>2, <1>4, <2>2 DEF Leads, Hosts
    <3>2. q \in DOMAIN new => b # new[q] /\ ~Leads(configs, b, q)
      <4>1. SUFFICES ASSUME q \in DOMAIN new, Leads(configs, b, q)  PROVE FALSE
        BY <1>4, <2>2
      <4>2. q \in KnownQueues(configs)
        BY <4>1 DEF KnownQueues, Leads, Hosts
      <4>. QED  BY <4>1, <4>2
    <3>. QED  BY <3>1, <3>2
  <2>. QED  BY <2>1, <2>2
<1>10. ASSUME NEW b \in DOMAIN configs, NEW q \in DOMAIN configs[b].hosted \ DOMAIN new
       PROVE  made[b].hosted[q] = configs[b].hosted[q]
  BY <1>1, <1>2, <1>4
<1>11. Lead(made, configs, new)
  BY <1>9 DEF Lead
<1>. QED  BY <1>8, <1>10, <1>11 DEF made

\* What updateStaticTopic does to a mapping that is whole.
Extends(old, made, targets, n) ==
  /\ OneLeader(made) /\ KnownQueues(made) = 0..(n - 1)
  /\ \A q \in KnownQueues(old) :
       /\ LeaderOf(made, q) = LeaderOf(old, q)
       /\ LeaderItems(made, q) = LeaderItems(old, q)
  /\ \A b \in DOMAIN made, c \in targets :
       Loads(made, b) > Cardinality(KnownQueues(old) \cap QueuesLedBy(made, b))
       => Loads(made, b) <= Loads(made, c) + 1

Updated(configs, targets, n, epoch) ==
  Completed(UpdatedConfigs(configs, NewQueues(configs, targets, n), n, epoch), n, epoch)

\* The new queues are placed, and the others stay where they are.
GrownBy(made, configs, new) ==
  /\ AreConfigs(made) /\ DOMAIN configs \subseteq DOMAIN made /\ Lead(made, configs, new)
  /\ \A b \in DOMAIN configs : \A q \in DOMAIN configs[b].hosted \ DOMAIN new :
       made[b].hosted[q] = configs[b].hosted[q]
  /\ KnownQueues(made) = KnownQueues(configs) \cup DOMAIN new

LEMMA UpdatedKnown ==
  ASSUME NEW configs, AreConfigs(configs), NEW targets \in SUBSET Brokers, targets # {},
         NEW n \in 1..MaxQueues, NEW epoch \in Nat, n > Cardinality(KnownQueues(configs)),
         NEW new, new = NewQueues(configs, targets, n),
         NEW made, made = Updated(configs, targets, n, epoch)
  PROVE  /\ GrownBy(made, configs, new) /\ IsVersion(made, n, epoch)
         /\ Cardinality(KnownQueues(made)) <= n
<1>. DEFINE known == KnownQueues(configs)
            k == Cardinality(known)
            first == UpdatedConfigs(configs, new, n, epoch)
<1>1. k \in Nat /\ n \in Nat /\ n \in 0..MaxQueues
  BY KnownParts, QueuesAssumption
<1>2. /\ DOMAIN new = (k..(n - 1)) \ known /\ DOMAIN new \in SUBSET LogicQueues
      /\ \A q \in DOMAIN new : new[q] \in targets \cup DOMAIN configs
  <2>1. new \in [(k..(n - 1)) \ known -> targets \cup DOMAIN configs]
        /\ DOMAIN new \in SUBSET LogicQueues
    BY NewQueuesParts
  <2>. HIDE DEF k, known
  <2>. QED  BY <2>1
<1>10. made = Completed(first, n, epoch)
  BY DEF first, Updated
<1>3. /\ AreConfigs(first) /\ IsVersion(first, n, epoch)
      /\ DOMAIN configs \subseteq DOMAIN first /\ Lead(first, configs, new)
      /\ \A b \in DOMAIN configs : \A q \in DOMAIN configs[b].hosted \ DOMAIN new :
           first[b].hosted[q] = configs[b].hosted[q]
  <2>1. \A q \in DOMAIN new : new[q] \in Brokers
    BY <1>2 DEF AreConfigs
  <2>2. DOMAIN new \cap KnownQueues(configs) = {}
    BY <1>2
  <2>. QED  BY <1>2, <2>1, <2>2, UpdatedParts
<1>. HIDE DEF first
<1>4. /\ AreConfigs(made) /\ IsVersion(made, n, epoch)
      /\ DOMAIN first \subseteq DOMAIN made /\ \A b \in DOMAIN first : made[b] = first[b]
      /\ \A b, q : Leads(made, b, q) <=> Leads(first, b, q)
  BY <1>1, <1>3, <1>10, CompletedParts
<1>5. Lead(made, configs, new)
  BY <1>3, <1>4 DEF Lead
<1>6. KnownQueues(made) = known \cup DOMAIN new
  <2>1. ASSUME NEW q \in DOMAIN new  PROVE q \in KnownQueues(made)
    <3>1. Leads(made, new[q], q)
      BY <1>5 DEF Lead
    <3>. QED  BY <1>2, <3>1 DEF KnownQueues, Leads, Hosts
  <2>2. ASSUME NEW q, q \notin DOMAIN new  PROVE q \in KnownQueues(made) <=> q \in known
    <3>1. \A b : Leads(made, b, q) <=> Leads(configs, b, q)
      BY <1>5, <2>2 DEF Lead
    <3>. QED  BY <3>1 DEF KnownQueues, Leads, Hosts
  <2>. QED  BY <2>1, <2>2
<1>7. Cardinality(known \cup DOMAIN new) <= n
  <2>1. IsFiniteSet(k..(n - 1)) /\ Cardinality(k..(n - 1)) = n - k
    <3>1. k \in Int /\ n - 1 \in Int /\ k <= n - 1
      BY <1>1
    <3>. HIDE DEF k
    <3>2. IsFiniteSet(k..(n - 1)) /\ Cardinality(k..(n - 1)) = IF k > n - 1 THEN 0 ELSE n - 1 - k + 1
      BY <3>1, FS_Interval
    <3>. QED  BY <1>1, <3>1, <3>2
  <2>2. DOMAIN new \subseteq k..(n - 1) /\ IsFiniteSet(DOMAIN new)
        /\ Cardinality(DOMAIN new) <= n - k /\ Cardinality(DOMAIN new) \in Nat
    BY <1>2, <2>1, FS_Subset, FS_CardinalityType
  <2>3. IsFiniteSet(known) /\ known \cap DOMAIN new = {}
    BY <1>2, KnownParts
  <2>. HIDE DEF k, known
  <2>4. Cardinality(known \cup DOMAIN new)
        = Cardinality(known) + Cardinality(DOMAIN new) - Cardinality(known \cap DOMAIN new)
    BY <2>2, <2>3, FS_Union
  <2>5. Cardinality(known \cap DOMAIN new) = 0
    BY <2>3, FS_EmptySet
  <2>6. k = Cardinality(known)
    BY DEF k
  <2>. QED  BY <1>1, <2>2, <2>4, <2>5, <2>6
<1>8. \A b \in DOMAIN configs : \A q \in DOMAIN configs[b].hosted \ DOMAIN new :
        made[b].hosted[q] = configs[b].hosted[q]
  BY <1>3, <1>4
<1>9. DOMAIN configs \subseteq DOMAIN made
  BY <1>3, <1>4
<1>11. GrownBy(made, configs, new)
  BY <1>4, <1>5, <1>6, <1>8, <1>9 DEF GrownBy
<1>. QED  BY <1>4, <1>6, <1>7, <1>11

\* Queues that are numbered from k on are as many as were dealt out.
LEMMA Renumbered ==
  ASSUME NEW k \in Nat, NEW n \in Nat, k <= n, NEW S \in SUBSET (1..(n - k)),
         NEW T \in SUBSET (k..(n - 1)), \A q \in k..(n - 1) : q \in T <=> q - k + 1 \in S
  PROVE  Cardinality(T) = Cardinality(S) /\ IsFiniteSet(S)
<1>. DEFINE f == [i \in S |-> i + k - 1]
<1>1. IsFiniteSet(1..(n - k)) /\ S \subseteq 1..(n - k)
  BY FS_Interval
<1>2. IsFiniteSet(S)
  BY <1>1, FS_Subset
<1>3. ASSUME NEW i \in S  PROVE f[i] \in T
  <2>1. i + k - 1 \in k..(n - 1) /\ (i + k - 1) - k + 1 = i
    OBVIOUS
  <2>. QED  BY <2>1
<1>4. ASSUME NEW q \in T  PROVE \E i \in S : f[i] = q
  <2>1. q - k + 1 \in S /\ (q - k + 1) + k - 1 = q
    OBVIOUS
  <2>. QED  BY <2>1
<1>5. ASSUME NEW i \in S, NEW j \in S, f[i] = f[j]  PROVE i = j
  BY <1>5
<1>6. f \in [S -> T]
  BY <1>3
<1>. HIDE DEF f
<1>7. f \in Bijection(S, T)
  BY <1>4, <1>5, <1>6 DEF Bijection, Injection, Surjection, IsInjective
<1>8. ExistsBijection(S, T)
  BY <1>7 DEF ExistsBijection
<1>. QED  BY <1>2, <1>8, FS_Bijection

LEMMA UpdateExtends ==
  ASSUME NEW configs, AreConfigs(configs), NEW targets \in SUBSET Brokers, targets # {},
         NEW n \in 1..MaxQueues, NEW epoch \in Nat, n > Cardinality(KnownQueues(configs)),
         Whole(configs)
  PROVE  Extends(configs, Updated(configs, targets, n, epoch), targets, n)
<1>. DEFINE new == NewQueues(configs, targets, n)
            made == Updated(configs, targets, n, epoch)
<1>2. /\ AreConfigs(made) /\ DOMAIN configs \subseteq DOMAIN made /\ Lead(made, configs, new)
      /\ \A b \in DOMAIN configs : \A q \in DOMAIN configs[b].hosted \ DOMAIN new :
           made[b].hosted[q] = configs[b].hosted[q]
      /\ KnownQueues(made) = KnownQueues(configs) \cup DOMAIN new
  <2>1. new = NewQueues(configs, targets, n) /\ made = Updated(configs, targets, n, epoch)
    OBVIOUS
  <2>. HIDE DEF new, made
  <2>2. GrownBy(made, configs, new)
    BY <2>1, UpdatedKnown
  <2>. QED  BY <2>2 DEF GrownBy
<1>. DEFINE known == KnownQueues(configs)
            k == Cardinality(known)
            D == targets \cup DOMAIN configs
<1>3. /\ new \in [(k..(n - 1)) \ known -> D]
      /\ \E dealt \in [1..(n - k) -> D] : Levels(new, dealt, configs, D, k, n)
  BY NewQueuesParts
<1>1. k \in Nat /\ n \in Nat
  BY KnownParts, QueuesAssumption
<1>. DEFINE Mine(b) == {q \in DOMAIN new : new[q] = b}
<1>. HIDE DEF made, new
<1>4. known = 0..(k - 1)
  <2>1. CASE DOMAIN configs = {}
    <3>1. known = {}
      BY <2>1 DEF KnownQueues
    <3>2. k = 0
      BY <3>1, FS_EmptySet
    <3>. QED  BY <3>1, <3>2
  <2>2. CASE DOMAIN configs # {}
    <3>1. PICK b \in DOMAIN configs : known = 0..(configs[b].total - 1)
      BY <2>2 DEF Whole
    <3>2. configs[b].total \in Nat
      BY QueuesAssumption DEF AreConfigs, IsConfig
    <3>. DEFINE t == configs[b].total
    <3>. HIDE DEF t
    <3>3. t \in Nat => Cardinality(0..(t - 1)) = t
      <4>. HAVE t \in Nat
      <4>1. Cardinality(0..(t - 1)) = IF 0 > t - 1 THEN 0 ELSE (t - 1) - 0 + 1
        BY FS_Interval
      <4>. QED  BY <4>1
    <3>4. t \in Nat /\ known = 0..(t - 1)
      BY <3>1, <3>2 DEF t
    <3>5. k = t
      BY <3>3, <3>4
    <3>. QED  BY <3>4, <3>5
  <2>. QED  BY <2>1, <2>2
<1>. HIDE DEF k
<1>5. DOMAIN new = k..(n - 1)
  <2>1. DOMAIN new = (k..(n - 1)) \ known
    BY <1>3
  <2>. HIDE DEF known
  <2>. QED  BY <1>1, <1>4, <2>1
<1>6. KnownQueues(made) = 0..(n - 1)
  <2>1. n > k
    BY DEF k
  <2>2. KnownQueues(made) = (0..(k - 1)) \cup (k..(n - 1))
    BY <1>2, <1>4, <1>5
  <2>. QED  BY <1>1, <2>1, <2>2
<1>7. OneLeader(configs) /\ OneLeader(made)
  <2>1. OneLeader(configs)
    BY DEF Whole, OneLeaderEach, OneLeader
  <2>. QED  BY <1>2, <2>1, NewLeaders
<1>8. ASSUME NEW q \in known
      PROVE  LeaderOf(made, q) = LeaderOf(configs, q) /\ LeaderItems(made, q) = LeaderItems(configs, q)
  <2>. DEFINE b == LeaderOf(configs, q)
  <2>1. b \in DOMAIN configs /\ Leads(configs, b, q) /\ q \in LogicQueues /\ q \notin DOMAIN new
    BY <1>3, KnownAreLed, KnownParts
  <2>2. Leads(made, b, q)
    BY <1>2, <2>1 DEF Lead
  <2>3. LeaderOf(made, q) = b
    BY <1>7, <2>1, <2>2, LeaderParts
  <2>4. q \in DOMAIN configs[b].hosted
    BY <2>1 DEF Leads, Hosts
  <2>5. made[b].hosted[q] = configs[b].hosted[q]
    BY <1>2, <2>1, <2>4
  <2>. QED  BY <2>3, <2>5 DEF LeaderItems
<1>9. ASSUME NEW b
      PROVE  /\ QueuesLedBy(made, b) = QueuesLedBy(configs, b) \cup Mine(b)
             /\ QueuesLedBy(configs, b) \cap Mine(b) = {}
             /\ known \cap QueuesLedBy(made, b) = QueuesLedBy(configs, b)
  <2>1. \A q \in DOMAIN new : q \in LogicQueues /\ q \notin known
    BY <1>2, <1>3, KnownParts
  <2>2. \A q \in LogicQueues : Leads(made, b, q) <=> IF q \in DOMAIN new THEN b = new[q] ELSE Leads(configs, b, q)
    BY <1>2 DEF Lead
  <2>3. QueuesLedBy(configs, b) \subseteq known /\ QueuesLedBy(configs, b) \subseteq LogicQueues
    BY KnownParts
  <2>4. \A q \in LogicQueues : q \in QueuesLedBy(made, b) <=> Leads(made, b, q)
    BY DEF QueuesLedBy
  <2>5. \A q \in LogicQueues : q \in QueuesLedBy(configs, b) <=> Leads(configs, b, q)
    BY DEF QueuesLedBy
  <2>6. QueuesLedBy(made, b) \subseteq LogicQueues
    BY KnownParts
  <2>. HIDE DEF known
  <2>. QED  BY <2>1, <2>2, <2>3, <2>4, <2>5, <2>6
<1>10. PICK dealt \in [1..(n - k) -> D] : Levels(new, dealt, configs, D, k, n)
  BY <1>3
<1>. DEFINE gets(b) == Gets(dealt, n - k, b)
<1>11. ASSUME NEW b
       PROVE  /\ gets(b) \in Nat /\ Loads(configs, b) \in Nat
              /\ Loads(made, b) = Loads(configs, b) + gets(b)
  <2>1. Mine(b) = {q \in k..(n - 1) : dealt[q - k + 1] = b}
    BY <1>5, <1>10 DEF Levels
  <2>2. k <= n
    BY <1>1 DEF k
  <2>3. Cardinality(Mine(b)) = gets(b) /\ IsFiniteSet({i \in 1..(n - k) : dealt[i] = b})
    <3>. DEFINE S == {i \in 1..(n - k) : dealt[i] = b}
                T == Mine(b)
    <3>1. /\ S \in SUBSET (1..(n - k)) /\ T \in SUBSET (k..(n - 1))
          /\ \A q \in k..(n - 1) : q \in T <=> q - k + 1 \in S
      BY <1>1, <2>1
    <3>2. Cardinality(T) = Cardinality(S) /\ IsFiniteSet(S)
      <4>. HIDE DEF S, T
      <4>. QED  BY <1>1, <2>2, <3>1, Renumbered
    <3>. QED  BY <3>2 DEF Gets
  <2>4. gets(b) \in Nat
    BY <2>3, FS_CardinalityType DEF Gets
  <2>5. IsFiniteSet(Mine(b))
    <3>1. IsFiniteSet(DOMAIN new)
      BY <1>1, <1>5, FS_Interval
    <3>. QED  BY <3>1, FS_Subset
  <2>6. IsFiniteSet(QueuesLedBy(configs, b)) /\ Loads(configs, b) \in Nat
    BY KnownParts DEF Loads
  <2>. HIDE DEF Mine, gets
  <2>7. Cardinality(QueuesLedBy(made, b))
        = Cardinality(QueuesLedBy(configs, b)) + Cardinality(Mine(b)) - Cardinality({})
    BY <1>9, <2>5, <2>6, FS_Union
  <2>8. Cardinality({}) = 0
    BY FS_EmptySet
  <2>. QED  BY <2>3, <2>4, <2>6, <2>7, <2>8 DEF Loads
<1>12. ASSUME NEW b \in DOMAIN made, NEW c \in targets,
              Loads(made, b) > Cardinality(known \cap QueuesLedBy(made, b))
       PROVE  Loads(made, b) <= Loads(made, c) + 1
  <2>1. Loads(made, b) > Loads(configs, b)
    BY <1>9, <1>12 DEF Loads
  <2>2. gets(b) # 0
    BY <1>11, <2>1
  <2>3. b \in D
    <3>1. {i \in 1..(n - k) : dealt[i] = b} # {}
      BY <2>2, FS_EmptySet DEF Gets
    <3>. QED  BY <3>1
  <2>4. Loads(configs, b) + gets(b) <= Loads(configs, c) + gets(c) + 1
    BY <1>10, <2>2, <2>3 DEF Levels
  <2>. QED  BY <1>11, <2>4
<1>. QED  BY <1>6, <1>7, <1>8, <1>12 DEF Extends, made

-----------------------------------------------------------------------------
(* remappingStaticTopic *)

\* An item is put after the others.
LEMMA OneItemMore ==
  ASSUME NEW items \in Seq(Items), NEW item \in Items
  PROVE  /\ Append(items, item) \in Seq(Items) \ {<<>>}
         /\ Last(Append(items, item)) = item /\ Front(Append(items, item)) = items
<1>1. /\ Append(items, item) \in Seq(Items) /\ Len(Append(items, item)) = Len(items) + 1
      /\ Append(items, item)[Len(items) + 1] = item
      /\ \A i \in 1..Len(items) : Append(items, item)[i] = items[i]
  BY AppendProperties
<1>2. Len(items) \in Nat
  BY LenProperties
<1>3. Append(items, item) # <<>>
  BY <1>1, <1>2, EmptySeq
<1>4. Front(Append(items, item)) = [i \in 1..Len(items) |-> items[i]]
  BY <1>1, <1>2 DEF Front
<1>5. items = [i \in 1..Len(items) |-> items[i]]
  BY LenProperties
<1>. QED  BY <1>1, <1>2, <1>3, <1>4, <1>5 DEF Last

LEMMA RemappedParts ==
  ASSUME NEW configs, AreConfigs(configs), OneLeader(configs),
         NEW n \in 0..MaxQueues, NEW epoch \in Nat,
         NEW moves, DOMAIN moves \subseteq KnownQueues(configs),
         \A q \in DOMAIN moves : moves[q] \in Brokers
  PROVE  LET made == RemappedConfigs(configs, moves, n, epoch)
         IN  /\ AreConfigs(made) /\ IsVersion(made, n, epoch)
             /\ DOMAIN configs \subseteq DOMAIN made /\ Lead(made, configs, moves)
             /\ \A q \in KnownQueues(configs) :
                  IF q \in DOMAIN moves
                    THEN Front(made[moves[q]].hosted[q]) = LeaderItems(configs, q)
                    ELSE made[LeaderOf(configs, q)].hosted[q] = LeaderItems(configs, q)
<1>. DEFINE made == RemappedConfigs(configs, moves, n, epoch)
            Gained(b) == {q \in DOMAIN moves : moves[q] = b}
            T(b) == Touched(moves, configs, b)
            Base(b) == IF b \in DOMAIN configs THEN configs[b] ELSE EmptyConfig(n, epoch)
            item(q) == [broker |-> moves[q],
                        queue |-> Base(moves[q]).write + Rank(q, Gained(moves[q]))]
            items(q) == Append(LeaderItems(configs, q), item(q))
<1>1. /\ IsFcn(made) /\ DOMAIN made = DOMAIN configs \cup Range(moves)
      /\ \A b \in DOMAIN made :
           /\ DOMAIN made[b] = {"write", "epoch", "total", "hosted"}
           /\ made[b].write = Base(b).write + Cardinality(Gained(b))
           /\ made[b].epoch = epoch /\ made[b].total = n
           /\ DOMAIN made[b].hosted = DOMAIN Base(b).hosted \cup T(b)
           /\ \A q \in DOMAIN made[b].hosted :
                /\ q \in T(b) => made[b].hosted[q] = items(q)
                /\ q \notin T(b) => made[b].hosted[q] = Base(b).hosted[q]
  <2>1. IsFcn(made) /\ DOMAIN made = DOMAIN configs \cup Range(moves)
    BY DEF RemappedConfigs, IsFcn
  <2>. DEFINE hosted(b) == [q \in DOMAIN Base(b).hosted \cup T(b) |->
                              IF q \in T(b) THEN items(q) ELSE Base(b).hosted[q]]
  <2>2. ASSUME NEW b \in DOMAIN made
        PROVE  made[b] = [write |-> Base(b).write + Cardinality(Gained(b)), epoch |-> epoch,
                          total |-> n, hosted |-> hosted(b)]
    BY DEF RemappedConfigs, PhysicalQueue
  <2>. HIDE DEF made, Base, Gained, T, items
  <2>3. ASSUME NEW b \in DOMAIN made
        PROVE  /\ DOMAIN made[b] = {"write", "epoch", "total", "hosted"}
               /\ made[b].write = Base(b).write + Cardinality(Gained(b))
               /\ made[b].epoch = epoch /\ made[b].total = n
               /\ made[b].hosted = hosted(b)
    <3>. HIDE DEF hosted
    <3>. QED  BY <2>2
  <2>. QED  BY <2>1, <2>3
<1>2. ASSUME NEW b
      PROVE  /\ IsConfig(Base(b))
             /\ b \in DOMAIN configs => Base(b) = configs[b]
             /\ b \notin DOMAIN configs => DOMAIN Base(b).hosted = {}
  <2>1. CASE b \in DOMAIN configs
    BY <2>1 DEF AreConfigs
  <2>2. CASE b \notin DOMAIN configs
    BY <2>2, QueuesAssumption DEF EmptyConfig, IsConfig
  <2>. QED  BY <2>1, <2>2
<1>3. ASSUME NEW b
      PROVE  /\ Cardinality(Gained(b)) \in Nat /\ Gained(b) \in SUBSET LogicQueues
             /\ \A q \in Gained(b) : Rank(q, Gained(b)) \in Nat
  <2>1. Gained(b) \in SUBSET LogicQueues
    BY KnownParts
  <2>. HIDE DEF Gained
  <2>. QED  BY <2>1, RankParts
<1>4. \A b, q : /\ q \in Gained(b) <=> q \in DOMAIN moves /\ moves[q] = b
                /\ q \in T(b) <=> q \in DOMAIN moves /\ b \in {moves[q], LeaderOf(configs, q)}
  BY DEF Touched
<1>5. ASSUME NEW q \in KnownQueues(configs)
      PROVE  /\ LeaderOf(configs, q) \in DOMAIN configs /\ Leads(configs, LeaderOf(configs, q), q)
             /\ q \in LogicQueues /\ LeaderItems(configs, q) \in Seq(Items)
  <2>1. LeaderOf(configs, q) \in DOMAIN configs /\ Leads(configs, LeaderOf(configs, q), q)
    BY KnownAreLed
  <2>. QED  BY <2>1, KnownParts DEF Leads, Hosts, LeaderItems, AreConfigs, IsConfig
<1>6. ASSUME NEW q \in DOMAIN moves
      PROVE  /\ items(q) \in Seq(Items) \ {<<>>} /\ Last(items(q)).broker = moves[q]
             /\ Front(items(q)) = LeaderItems(configs, q)
  <2>. HIDE DEF Base, Gained
  <2>1. Base(moves[q]).write \in Nat /\ Rank(q, Gained(moves[q])) \in Nat
    BY <1>2, <1>3, <1>4 DEF IsConfig
  <2>2. item(q) \in Items /\ item(q).broker = moves[q]
    BY <2>1 DEF Items
  <2>3. LeaderItems(configs, q) \in Seq(Items)
    BY <1>5
  <2>. HIDE DEF item
  <2>. QED  BY <2>2, <2>3, OneItemMore
<1>. HIDE DEF made, Gained, Base, items, item, T
<1>7. DOMAIN made \subseteq Brokers
  BY <1>1 DEF AreConfigs, Range
<1>8. ASSUME NEW b \in DOMAIN made  PROVE IsConfig(made[b])
  <2>1. made[b].write \in Nat
    BY <1>1, <1>2, <1>3 DEF IsConfig
  <2>2. DOMAIN made[b].hosted = DOMAIN Base(b).hosted \cup T(b)
    BY <1>1
  <2>3. DOMAIN made[b].hosted \subseteq LogicQueues
    BY <1>2, <1>4, <1>5, <2>2 DEF IsConfig
  <2>4. ASSUME NEW q \in DOMAIN made[b].hosted  PROVE made[b].hosted[q] \in Seq(Items) \ {<<>>}
    <3>1. CASE q \in T(b)
      BY <1>1, <1>4, <1>6, <3>1
    <3>2. CASE q \notin T(b)
      BY <1>1, <1>2, <2>2, <3>2 DEF IsConfig
    <3>. QED  BY <3>1, <3>2
  <2>. QED  BY <1>1, <2>1, <2>3, <2>4 DEF IsConfig
<1>9. ASSUME NEW b, NEW q
      PROVE  Leads(made, b, q) <=> IF q \in DOMAIN moves THEN b = moves[q] ELSE Leads(configs, b, q)
  <2>1. CASE q \in DOMAIN moves /\ q \in T(b)
    <3>1. b \in DOMAIN made /\ q \in DOMAIN made[b].hosted
      BY <1>1, <1>4, <1>5, <2>1 DEF Range
    <3>2. made[b].hosted[q] = items(q)
      BY <1>1, <2>1, <3>1
    <3>. QED  BY <1>6, <2>1, <3>1, <3>2 DEF Leads, Hosts
  <2>2. CASE q \notin T(b)
    <3>1. Hosts(made, b, q) => Hosts(configs, b, q)
      BY <1>1, <1>2, <2>2 DEF Hosts
    <3>2. Hosts(configs, b, q) => Hosts(made, b, q)
      BY <1>1, <1>2 DEF Hosts
    <3>3. Hosts(made, b, q) => made[b].hosted[q] = configs[b].hosted[q]
      BY <1>1, <1>2, <2>2, <3>1 DEF Hosts
    <3>4. Leads(made, b, q) <=> Leads(configs, b, q)
      BY <3>1, <3>2, <3>3 DEF Leads
    <3>5. ASSUME q \in DOMAIN moves  PROVE ~Leads(configs, b, q) /\ b # moves[q]
      <4>1. b # moves[q] /\ b # LeaderOf(configs, q)
        BY <1>4, <2>2, <3>5
      <4>2. ~Leads(configs, b, q)
        BY <1>5, <3>5, <4>1, LeaderParts
      <4>. QED  BY <4>1, <4>2
    <3>. QED  BY <3>4, <3>5
  <2>. QED  BY <1>4, <2>1, <2>2
<1>10. ASSUME NEW q \in KnownQueues(configs)
       PROVE  IF q \in DOMAIN moves
                THEN Front(made[moves[q]].hosted[q]) = LeaderItems(configs, q)
                ELSE made[LeaderOf(configs, q)].hosted[q] = LeaderItems(configs, q)
  <2>1. CASE q \in DOMAIN moves
    <3>1. q \in T(moves[q]) /\ moves[q] \in DOMAIN made /\ q \in DOMAIN made[moves[q]].hosted
      BY <1>1, <1>4, <2>1 DEF Range
    <3>2. made[moves[q]].hosted[q] = items(q)
      BY <1>1, <3>1
    <3>. QED  BY <1>6, <2>1, <3>2
  <2>2. CASE q \notin DOMAIN moves
    <3>. DEFINE l == LeaderOf(configs, q)
    <3>1. l \in DOMAIN configs /\ q \in DOMAIN configs[l].hosted /\ q \notin T(l)
      BY <1>4, <1>5, <2>2 DEF Leads, Hosts
    <3>. HIDE DEF l
    <3>2. l \in DOMAIN made /\ q \in DOMAIN made[l].hosted /\ Base(l) = configs[l]
      BY <1>1, <1>2, <3>1
    <3>3. made[l].hosted[q] = configs[l].hosted[q]
      BY <1>1, <3>1, <3>2
    <3>. QED  BY <2>2, <3>3 DEF LeaderItems, l
  <2>. QED  BY <2>1, <2>2
<1>11. /\ AreConfigs(made) /\ IsVersion(made, n, epoch)
       /\ DOMAIN configs \subseteq DOMAIN made /\ Lead(made, configs, moves)
  BY <1>1, <1>7, <1>8, <1>9 DEF AreConfigs, IsVersion, Lead
<1>. QED  BY <1>10, <1>11 DEF made

\* The shares of the targets are equal, but for one queue.
LEMMA ExpectedParts ==
  ASSUME NEW configs, NEW targets \in SUBSET Brokers, targets # {}, NEW n \in Nat
  PROVE  LET e == Expected(configs, targets, n)
         IN  /\ e \in [targets -> Nat] /\ \A b, c \in targets : e[b] <= e[c] + 1
             /\ IsFiniteSet(Slots(e)) /\ Cardinality(Slots(e)) = n
<1>. DEFINE zero == [b \in targets |-> 0]
            before == [b \in targets |-> Cardinality(QueuesLedBy(configs, b))]
            s == UpToNum(n, zero, before)
<1>1. targets \in SUBSET Nat /\ IsFiniteSet(targets)
  BY BrokersAssumption, FS_Subset
<1>2. zero \in [targets -> Nat] /\ before \in [targets -> Nat]
  BY KnownParts
<1>3. Slots(zero) = {}
  BY DEF Slots
<1>4. IsFiniteSet(Slots(zero)) /\ Cardinality(Slots(zero)) = 0
  BY <1>3, FS_EmptySet
<1>5. DealtOut(s, zero, n)
  <2>. HIDE DEF zero, before
  <2>. QED  BY <1>1, <1>2, <1>4, UpToNumDeals
<1>6. DOMAIN zero = targets /\ \A b \in targets : zero[b] = 0
  OBVIOUS
<1>7. s.loads = Expected(configs, targets, n)
  BY DEF Expected
<1>. HIDE DEF s, zero
<1>8. s.loads \in [targets -> Nat] /\ IsFiniteSet(Slots(s.loads)) /\ Cardinality(Slots(s.loads)) = n
  BY <1>4, <1>5, <1>6 DEF DealtOut
<1>9. ASSUME NEW b \in targets, NEW c \in targets  PROVE s.loads[b] <= s.loads[c] + 1
  <2>1. s.loads[b] # 0 => s.loads[b] <= s.loads[c] + 1
    BY <1>5, <1>6 DEF DealtOut
  <2>. QED  BY <1>8, <2>1
<1>. QED  BY <1>7, <1>8, <1>9

LEMMA BothBijections ==
  ASSUME NEW S1, NEW T1, NEW f1 \in Bijection(S1, T1), NEW S2, NEW T2,
         NEW f2 \in Bijection(S2, T2), S1 \cap S2 = {}, T1 \cap T2 = {}
  PROVE  [x \in S1 \cup S2 |-> IF x \in S1 THEN f1[x] ELSE f2[x]]
         \in Bijection(S1 \cup S2, T1 \cup T2)
<1>. DEFINE f == [x \in S1 \cup S2 |-> IF x \in S1 THEN f1[x] ELSE f2[x]]
<1>1. /\ f1 \in [S1 -> T1] /\ \A x, y \in S1 : f1[x] = f1[y] => x = y
      /\ \A t \in T1 : \E x \in S1 : f1[x] = t
  BY DEF Bijection, Injection, Surjection, IsInjective
<1>2. /\ f2 \in [S2 -> T2] /\ \A x, y \in S2 : f2[x] = f2[y] => x = y
      /\ \A t \in T2 : \E x \in S2 : f2[x] = t
  BY DEF Bijection, Injection, Surjection, IsInjective
<1>3. f \in [S1 \cup S2 -> T1 \cup T2]
  BY <1>1, <1>2
<1>4. \A x, y \in S1 \cup S2 : f[x] = f[y] => x = y
  BY <1>1, <1>2
<1>5. \A t \in T1 \cup T2 : \E x \in S1 \cup S2 : f[x] = t
  BY <1>1, <1>2
<1>. HIDE DEF f
<1>6. f \in Bijection(S1 \cup S2, T1 \cup T2)
  BY <1>3, <1>4, <1>5 DEF Bijection, Injection, Surjection, IsInjective
<1>. QED  BY <1>6 DEF f

\* Every rank is that of a queue.
LEMMA RanksOfQueues ==
  ASSUME NEW M \in SUBSET LogicQueues
  PROVE  \A i \in 0..(Cardinality(M) - 1) : \E q \in M : Rank(q, M) = i
<1>. DEFINE below == [q \in M |-> {p \in M : p < q}]
<1>1. M \in SUBSET Nat /\ IsFiniteSet(M)
  BY KnownParts, FS_Subset
<1>2. below \in [M -> SUBSET M] /\ \A q \in M : q \notin below[q]
  BY <1>1
<1>3. ASSUME NEW x \in M, NEW y \in M
      PROVE  \/ x = y
             \/ x \in below[y] /\ below[x] \subseteq below[y]
             \/ y \in below[x] /\ below[y] \subseteq below[x]
  <2>1. \A p, q \in M : p \in below[q] <=> p < q
    OBVIOUS
  <2>. HIDE DEF below
  <2>2. x \in Nat /\ y \in Nat /\ M \subseteq Nat /\ below[x] \subseteq M /\ below[y] \subseteq M
    BY <1>1, <1>2
  <2>3. CASE x < y
    <3>1. ASSUME NEW p \in below[x]  PROVE p \in below[y]
      <4>1. p \in M /\ p \in Nat /\ p < x
        BY <2>1, <2>2
      <4>2. p < y
        BY <2>2, <2>3, <4>1
      <4>. QED  BY <2>1, <4>1, <4>2
    <3>. QED  BY <2>1, <2>3, <3>1
  <2>4. CASE y < x
    <3>1. ASSUME NEW p \in below[y]  PROVE p \in below[x]
      <4>1. p \in M /\ p \in Nat /\ p < y
        BY <2>1, <2>2
      <4>2. p < x
        BY <2>2, <2>4, <4>1
      <4>. QED  BY <2>1, <4>1, <4>2
    <3>. QED  BY <2>1, <2>4, <3>1
  <2>. QED  BY <2>2, <2>3, <2>4
<1>4. \A q \in M : Cardinality(below[q]) = Rank(q, M)
  BY DEF Rank
<1>. HIDE DEF below
<1>6. \A x, y \in M : \/ x = y
                      \/ x \in below[y] /\ below[x] \subseteq below[y]
                      \/ y \in below[x] /\ below[y] \subseteq below[x]
  BY <1>3
<1>5. /\ \A x \in M : Cardinality(below[x]) \in 0..(Cardinality(M) - 1)
      /\ \A x, y \in M : Cardinality(below[x]) = Cardinality(below[y]) => x = y
      /\ \A i \in 0..(Cardinality(M) - 1) : \E x \in M : Cardinality(below[x]) = i
  <2>1. IsFiniteSet(M)
    BY <1>1
  <2>2. OneBelowAnother(M, below)
    BY <1>2, <1>6 DEF OneBelowAnother
  <2>3. AllRanked(M, below)
    BY <2>1, <2>2, RanksAreAll
  <2>. QED  BY <2>3 DEF AllRanked
<1>. QED  BY <1>4, <1>5

\* Queues and seats of the same number are matched one to one.
\* Each seat has a number of its own, its place in the order.
SeatsNumbered(seats) ==
  /\ \A s \in seats : Cardinality(SeatsBefore(s, seats)) \in 0..(Cardinality(seats) - 1)
  /\ \A s, t \in seats :
       Cardinality(SeatsBefore(s, seats)) = Cardinality(SeatsBefore(t, seats)) => s = t
  /\ \A i \in 0..(Cardinality(seats) - 1) : \E s \in seats : Cardinality(SeatsBefore(s, seats)) = i

LEMMA SeatsAreNumbered ==
  ASSUME NEW seats \in SUBSET (Nat \X Nat), IsFiniteSet(seats)
  PROVE  SeatsNumbered(seats)
<1>. DEFINE below == [s \in seats |-> SeatsBefore(s, seats)]
<1>1. below \in [seats -> SUBSET seats] /\ \A s \in seats : s \notin below[s]
  BY DEF SeatsBefore
<1>2. ASSUME NEW x \in seats, NEW y \in seats
      PROVE  \/ x = y
             \/ x \in below[y] /\ below[x] \subseteq below[y]
             \/ y \in below[x] /\ below[y] \subseteq below[x]
  <2>1. \A s \in seats : s[1] \in Nat /\ s[2] \in Nat /\ s = <<s[1], s[2]>>
    OBVIOUS
  <2>2. CASE x[1] < y[1] \/ (x[1] = y[1] /\ x[2] < y[2])
    BY <2>1, <2>2 DEF SeatsBefore
  <2>3. CASE y[1] < x[1] \/ (y[1] = x[1] /\ y[2] < x[2])
    BY <2>1, <2>3 DEF SeatsBefore
  <2>4. CASE x[1] = y[1] /\ x[2] = y[2]
    BY <2>1, <2>4
  <2>. QED  BY <2>1, <2>2, <2>3, <2>4
<1>3. \A s \in seats : below[s] = SeatsBefore(s, seats)
  OBVIOUS
<1>. HIDE DEF below
<1>4. OneBelowAnother(seats, below)
  BY <1>1, <1>2 DEF OneBelowAnother
<1>5. AllRanked(seats, below)
  BY <1>4, RanksAreAll
<1>. QED  BY <1>3, <1>5 DEF AllRanked, SeatsNumbered

\* A queue moves to a seat.
LEMMA MatchedToSeats ==
  ASSUME NEW waiting \in SUBSET LogicQueues, NEW seats \in SUBSET (Nat \X Nat),
         IsFiniteSet(seats), NEW q \in DOMAIN Matched(seats, waiting)
  PROVE  \E s \in seats : Matched(seats, waiting)[q] = s[1]
<1>. DEFINE seat == CHOOSE s \in seats : Cardinality(SeatsBefore(s, seats)) = Rank(q, waiting)
<1>1. q \in waiting /\ Rank(q, waiting) < Cardinality(seats)
      /\ Matched(seats, waiting)[q] = seat[1]
  BY DEF Matched
<1>2. Rank(q, waiting) \in 0..(Cardinality(seats) - 1)
  <2>1. Rank(q, waiting) \in Nat
    BY <1>1, RankParts
  <2>2. Cardinality(seats) \in Nat
    BY FS_CardinalityType
  <2>. QED  BY <1>1, <2>1, <2>2
<1>3. \E s \in seats : Cardinality(SeatsBefore(s, seats)) = Rank(q, waiting)
  BY <1>2, SeatsAreNumbered DEF SeatsNumbered
<1>4. seat \in seats
  BY <1>3
<1>. QED  BY <1>1, <1>4

LEMMA MatchedParts ==
  ASSUME NEW waiting \in SUBSET LogicQueues, NEW seats \in SUBSET (Nat \X Nat),
         IsFiniteSet(seats), Cardinality(seats) = Cardinality(waiting)
  PROVE  \E g \in Bijection(waiting, seats) :
            Matched(seats, waiting) = [q \in waiting |-> g[q][1]]
<1>. DEFINE seat(q) == CHOOSE s \in seats : Cardinality(SeatsBefore(s, seats)) = Rank(q, waiting)
            g == [q \in waiting |-> seat(q)]
<1>4. /\ \A s \in seats : Cardinality(SeatsBefore(s, seats)) \in 0..(Cardinality(seats) - 1)
      /\ \A s, t \in seats :
           Cardinality(SeatsBefore(s, seats)) = Cardinality(SeatsBefore(t, seats)) => s = t
      /\ \A i \in 0..(Cardinality(seats) - 1) :
           \E s \in seats : Cardinality(SeatsBefore(s, seats)) = i
  BY SeatsAreNumbered DEF SeatsNumbered
<1>5. /\ Cardinality(waiting) \in Nat
      /\ \A q \in waiting : Rank(q, waiting) \in 0..(Cardinality(waiting) - 1)
      /\ \A p, q \in waiting : Rank(p, waiting) = Rank(q, waiting) => p = q
      /\ \A i \in 0..(Cardinality(waiting) - 1) : \E q \in waiting : Rank(q, waiting) = i
  BY RankParts, RanksOfQueues
<1>6. ASSUME NEW q \in waiting
      PROVE  g[q] \in seats /\ Cardinality(SeatsBefore(g[q], seats)) = Rank(q, waiting)
  <2>1. \E s \in seats : Cardinality(SeatsBefore(s, seats)) = Rank(q, waiting)
    BY <1>4, <1>5
  <2>2. seat(q) \in seats /\ Cardinality(SeatsBefore(seat(q), seats)) = Rank(q, waiting)
    BY <2>1
  <2>3. g[q] = seat(q)
    OBVIOUS
  <2>. HIDE DEF g, seat
  <2>. QED  BY <2>2, <2>3
<1>7. {w \in waiting : Rank(w, waiting) < Cardinality(seats)} = waiting
  BY <1>5
<1>10. Matched(seats, waiting) = [q \in waiting |-> seat(q)[1]]
  BY <1>7 DEF Matched
<1>. HIDE DEF seat
<1>11. Matched(seats, waiting) = [q \in waiting |-> g[q][1]]
  BY <1>10
<1>8. g \in [waiting -> seats]
  BY <1>6
<1>. HIDE DEF g
<1>9. g \in Bijection(waiting, seats)
  <2>1. \A p, q \in waiting : g[p] = g[q] => p = q
    BY <1>5, <1>6
  <2>2. ASSUME NEW s \in seats  PROVE \E q \in waiting : g[q] = s
    <3>1. PICK q \in waiting : Rank(q, waiting) = Cardinality(SeatsBefore(s, seats))
      BY <1>4, <1>5
    <3>. QED  BY <1>4, <1>6, <3>1
  <2>. QED  BY <1>8, <2>1, <2>2 DEF Bijection, Injection, Surjection, IsInjective
<1>. QED  BY <1>9, <1>11

\* A queue that stays has the place among its leader's queues that it had.
LEMMA KeptParts ==
  ASSUME NEW configs, AreConfigs(configs), OneLeader(configs),
         NEW targets \in SUBSET Brokers, NEW e \in [targets -> Nat], NEW stay, NEW kept,
         \A q : q \in stay <=> /\ q \in KnownQueues(configs)
                              /\ Stays(configs, e, q, LeaderOf(configs, q)),
         \A s : s \in kept <=> s \in Slots(e) /\ s[2] <= Cardinality(QueuesLedBy(configs, s[1]))
  PROVE  \E f \in Bijection(stay, kept) : \A q \in stay : f[q][1] = LeaderOf(configs, q)
<1>. DEFINE place(q) == Rank(q, QueuesLedBy(configs, LeaderOf(configs, q)))
            f == [q \in stay |-> <<LeaderOf(configs, q), place(q) + 1>>]
<1>1. ASSUME NEW q \in stay
      PROVE  /\ q \in QueuesLedBy(configs, LeaderOf(configs, q)) /\ LeaderOf(configs, q) \in targets
             /\ place(q) \in Nat /\ place(q) < e[LeaderOf(configs, q)]
             /\ place(q) < Cardinality(QueuesLedBy(configs, LeaderOf(configs, q)))
  <2>1. q \in KnownQueues(configs) /\ Stays(configs, e, q, LeaderOf(configs, q))
    OBVIOUS
  <2>2. q \in LogicQueues /\ Leads(configs, LeaderOf(configs, q), q)
    BY <2>1, KnownAreLed, KnownParts
  <2>3. q \in QueuesLedBy(configs, LeaderOf(configs, q))
    BY <2>2 DEF QueuesLedBy
  <2>4. QueuesLedBy(configs, LeaderOf(configs, q)) \in SUBSET LogicQueues
    BY KnownParts
  <2>5. place(q) \in Nat /\ place(q) < Cardinality(QueuesLedBy(configs, LeaderOf(configs, q)))
    BY <2>3, <2>4, RankParts
  <2>. QED  BY <2>1, <2>3, <2>5 DEF Stays
<1>2. \A q \in stay : f[q][1] = LeaderOf(configs, q) /\ f[q][2] = place(q) + 1
                      /\ f[q] = <<LeaderOf(configs, q), place(q) + 1>>
  OBVIOUS
<1>. HIDE DEF f
<1>3. ASSUME NEW q \in stay  PROVE f[q] \in kept
  <2>. DEFINE l == LeaderOf(configs, q)
              i == place(q) + 1
  <2>1. l \in targets /\ i \in 1..e[l] /\ i <= Cardinality(QueuesLedBy(configs, l))
    <3>1. e[l] \in Nat /\ Cardinality(QueuesLedBy(configs, l)) \in Nat
      BY <1>1, KnownParts
    <3>. QED  BY <1>1, <3>1
  <2>2. f[q] = <<l, i>>
    BY <1>2
  <2>. HIDE DEF l, i
  <2>3. <<l, i>> \in Slots(e)
    BY <2>1 DEF Slots
  <2>. QED  BY <2>1, <2>2, <2>3
<1>4. ASSUME NEW p \in stay, NEW q \in stay, f[p] = f[q]  PROVE p = q
  <2>1. LeaderOf(configs, p) = LeaderOf(configs, q) /\ place(p) + 1 = place(q) + 1
    BY <1>2, <1>4
  <2>. DEFINE M == QueuesLedBy(configs, LeaderOf(configs, p))
  <2>2. p \in M /\ q \in M /\ M \in SUBSET LogicQueues
    BY <1>1, <2>1, KnownParts
  <2>3. Rank(p, M) \in Nat /\ Rank(q, M) \in Nat /\ Rank(p, M) + 1 = Rank(q, M) + 1
    BY <1>1, <2>1
  <2>. HIDE DEF M
  <2>4. Rank(p, M) = Rank(q, M)
    BY <2>3
  <2>. QED  BY <2>2, <2>4, RankParts
<1>5. ASSUME NEW s \in kept  PROVE \E q \in stay : f[q] = s
  <2>1. PICK b \in targets : \E i \in 1..e[b] : s = <<b, i>>
    BY DEF Slots
  <2>2. PICK i \in 1..e[b] : s = <<b, i>>
    BY <2>1
  <2>. DEFINE M == QueuesLedBy(configs, b)
  <2>3. i <= Cardinality(M) /\ Cardinality(M) \in Nat /\ M \in SUBSET LogicQueues /\ e[b] \in Nat
    BY <2>2, KnownParts
  <2>4. i - 1 \in 0..(Cardinality(M) - 1) /\ i - 1 < e[b] /\ (i - 1) + 1 = i
    BY <2>3
  <2>5. PICK q \in M : Rank(q, M) = i - 1
    BY <2>3, <2>4, RanksOfQueues
  <2>6. q \in KnownQueues(configs) /\ LeaderOf(configs, q) = b
    BY <2>3, LeaderParts DEF QueuesLedBy
  <2>7. Stays(configs, e, q, b)
    BY <2>4, <2>5 DEF Stays
  <2>8. q \in stay
    BY <2>6, <2>7
  <2>9. place(q) + 1 = i
    BY <2>4, <2>5, <2>6
  <2>. QED  BY <1>2, <2>2, <2>6, <2>8, <2>9
<1>6. f \in [stay -> kept]
  <2>1. DOMAIN f = stay /\ f = [q \in stay |-> f[q]]
    BY DEF f
  <2>. QED  BY <1>3, <2>1
<1>7. f \in Bijection(stay, kept)
  BY <1>4, <1>5, <1>6 DEF Bijection, Injection, Surjection, IsInjective
<1>. QED  BY <1>2, <1>7

\* Every queue has a slot, and every slot a queue, once the queues have moved.
LEMMA MovesParts ==
  ASSUME NEW configs, AreConfigs(configs), OneLeader(configs), NEW n \in Nat,
         Cardinality(KnownQueues(configs)) <= n,
         NEW targets \in SUBSET Brokers, NEW e \in [targets -> Nat],
         IsFiniteSet(Slots(e)), Cardinality(Slots(e)) = n, EnoughQueues(configs, e)
  PROVE  LET moves == Moves(configs, e)
         IN  /\ DOMAIN moves \subseteq KnownQueues(configs)
             /\ \A q \in DOMAIN moves : moves[q] \in targets
             /\ Cardinality(KnownQueues(configs)) = n
             /\ \E f \in Bijection(KnownQueues(configs), Slots(e)) :
                  \A q \in KnownQueues(configs) :
                    f[q][1] = IF q \in DOMAIN moves THEN moves[q] ELSE LeaderOf(configs, q)
<1>. DEFINE known == KnownQueues(configs)
            led(b) == Cardinality(QueuesLedBy(configs, b))
            stay == {q \in known : Stays(configs, e, q, LeaderOf(configs, q))}
            kept == {s \in Slots(e) : s[2] <= led(s[1])}
            waiting == WaitingQueues(configs, e)
            seats == Seats(configs, e)
            moves == Moves(configs, e)
<1>1. PICK f1 \in Bijection(stay, kept) : \A q \in stay : f1[q][1] = LeaderOf(configs, q)
  <2>1. /\ \A q : q \in stay <=> q \in KnownQueues(configs) /\ Stays(configs, e, q, LeaderOf(configs, q))
        /\ \A s : s \in kept <=> s \in Slots(e) /\ s[2] <= Cardinality(QueuesLedBy(configs, s[1]))
    OBVIOUS
  <2>. HIDE DEF stay, kept
  <2>. QED  BY <2>1, KeptParts
<1>2. waiting = known \ stay
  BY DEF WaitingQueues
<1>3. /\ seats = Slots(e) \ kept /\ kept \subseteq Slots(e)
      /\ \A s \in Slots(e) : s[1] \in targets /\ s \in Nat \X Nat
  <2>1. ASSUME NEW s  PROVE s \in seats <=> s \in Slots(e) /\ s \notin kept
    <3>1. s \in Slots(e) <=> \E b \in targets : \E i \in 1..e[b] : s = <<b, i>>
      BY DEF Slots
    <3>2. s \in seats <=> \E b \in targets : \E i \in (led(b) + 1)..e[b] : s = <<b, i>>
      BY DEF Seats
    <3>3. \A b \in targets : led(b) \in Nat /\ e[b] \in Nat
      BY KnownParts
    <3>4. s \in Slots(e) => (s \in kept <=> s[2] <= led(s[1]))
      OBVIOUS
    <3>. HIDE DEF led, kept, seats
    <3>5. ASSUME NEW b \in targets, NEW i \in 1..e[b], s = <<b, i>>
          PROVE  s[1] = b /\ s[2] = i /\ (i \in (led(b) + 1)..e[b] <=> ~(i <= led(b)))
      BY <3>3, <3>5
    <3>6. \A b \in targets : (led(b) + 1)..e[b] \subseteq 1..e[b]
      BY <3>3
    <3>7. ASSUME s \in seats  PROVE s \in Slots(e) /\ s \notin kept
      <4>0. PICK b \in targets : \E i \in (led(b) + 1)..e[b] : s = <<b, i>>
        BY <3>2, <3>7
      <4>1. PICK i \in (led(b) + 1)..e[b] : s = <<b, i>>
        BY <4>0
      <4>2. i \in 1..e[b]
        BY <3>6, <4>1
      <4>. QED  BY <3>1, <3>4, <3>5, <4>1, <4>2
    <3>8. ASSUME s \in Slots(e), s \notin kept  PROVE s \in seats
      <4>0. PICK b \in targets : \E i \in 1..e[b] : s = <<b, i>>
        BY <3>1, <3>8
      <4>1. PICK i \in 1..e[b] : s = <<b, i>>
        BY <4>0
      <4>2. i \in (led(b) + 1)..e[b]
        BY <3>4, <3>5, <3>8, <4>1
      <4>. QED  BY <3>2, <4>1, <4>2
    <3>. QED  BY <3>7, <3>8
  <2>2. \A s \in Slots(e) : s[1] \in targets /\ s \in Nat \X Nat
    BY BrokersAssumption DEF Slots
  <2>. QED  BY <2>1, <2>2
<1>4. IsFiniteSet(known) /\ known \in SUBSET LogicQueues /\ Cardinality(known) \in Nat
  BY KnownParts
<1>. HIDE DEF stay, kept, waiting, seats, known, moves
<1>5. stay \subseteq known
  BY DEF stay
<1>6. /\ IsFiniteSet(stay) /\ IsFiniteSet(waiting) /\ IsFiniteSet(kept) /\ IsFiniteSet(seats)
      /\ Cardinality(stay) \in Nat /\ Cardinality(waiting) \in Nat
      /\ Cardinality(kept) \in Nat /\ Cardinality(seats) \in Nat
  BY <1>2, <1>3, <1>4, <1>5, FS_Subset, FS_CardinalityType
<1>7. Cardinality(stay) = Cardinality(kept)
  <2>1. ExistsBijection(stay, kept)
    BY DEF ExistsBijection
  <2>. QED  BY <1>6, <2>1, FS_Bijection
<1>8. Cardinality(known) = Cardinality(stay) + Cardinality(waiting)
  <2>1. Cardinality(stay \cup waiting)
        = Cardinality(stay) + Cardinality(waiting) - Cardinality(stay \cap waiting)
    BY <1>6, FS_Union
  <2>2. stay \cup waiting = known /\ stay \cap waiting = {}
    BY <1>2, <1>5
  <2>3. Cardinality(stay \cap waiting) = 0
    BY <2>2, FS_EmptySet
  <2>4. Cardinality(stay \cup waiting) = Cardinality(known)
    BY <2>2
  <2>. QED  BY <1>6, <2>1, <2>3, <2>4
<1>9. n = Cardinality(kept) + Cardinality(seats)
  <2>1. Cardinality(kept \cup seats)
        = Cardinality(kept) + Cardinality(seats) - Cardinality(kept \cap seats)
    BY <1>6, FS_Union
  <2>2. kept \cup seats = Slots(e) /\ kept \cap seats = {}
    BY <1>3
  <2>3. Cardinality(kept \cap seats) = 0
    BY <2>2, FS_EmptySet
  <2>4. Cardinality(kept \cup seats) = Cardinality(Slots(e))
    BY <2>2
  <2>. QED  BY <1>6, <2>1, <2>3, <2>4
<1>10. Cardinality(seats) <= Cardinality(waiting)
  BY DEF EnoughQueues, seats, waiting
<1>11. Cardinality(known) <= n
  BY DEF known
<1>12. Cardinality(known) = n /\ Cardinality(seats) = Cardinality(waiting)
  BY <1>6, <1>7, <1>8, <1>9, <1>10, <1>11
<1>13. PICK g \in Bijection(waiting, seats) : Matched(seats, waiting) = [q \in waiting |-> g[q][1]]
  <2>1. waiting \in SUBSET LogicQueues /\ seats \in SUBSET (Nat \X Nat)
    BY <1>2, <1>3, <1>4
  <2>. QED  BY <1>6, <1>12, <2>1, MatchedParts
<1>14. moves = [q \in waiting |-> g[q][1]]
  BY <1>13 DEF Moves, moves, waiting, seats
<1>15. g \in [waiting -> seats]
  BY DEF Bijection, Injection
<1>16. DOMAIN moves = waiting /\ \A q \in waiting : moves[q] = g[q][1] /\ moves[q] \in targets
  BY <1>3, <1>14, <1>15
<1>. DEFINE f == [q \in stay \cup waiting |-> IF q \in stay THEN f1[q] ELSE g[q]]
<1>17. f \in Bijection(stay \cup waiting, kept \cup seats)
  <2>1. stay \cap waiting = {} /\ kept \cap seats = {}
    BY <1>2, <1>3
  <2>. QED  BY <2>1, BothBijections
<1>18. stay \cup waiting = known /\ kept \cup seats = Slots(e)
  BY <1>2, <1>3, <1>5
<1>19. \A q \in known : f[q][1] = IF q \in DOMAIN moves THEN moves[q] ELSE LeaderOf(configs, q)
  BY <1>1, <1>2, <1>16, <1>18
<1>. HIDE DEF f
<1>20. f \in Bijection(known, Slots(e))
  BY <1>17, <1>18
<1>21. DOMAIN moves \subseteq known
  BY <1>2, <1>16
<1>22. \A q \in DOMAIN moves : moves[q] \in targets
  BY <1>16
<1>23. \E h \in Bijection(known, Slots(e)) :
         \A q \in known : h[q][1] = IF q \in DOMAIN moves THEN moves[q] ELSE LeaderOf(configs, q)
  BY <1>19, <1>20
<1>. QED  BY <1>12, <1>21, <1>22, <1>23 DEF known, moves

\* The queues in the slots of b are as many as b was to have.
LEMMA SlotsOf ==
  ASSUME NEW D, NEW e \in [D -> Nat], NEW S, IsFiniteSet(S),
         NEW f \in Bijection(S, Slots(e)), NEW b \in D,
         NEW X, \A q : q \in X <=> q \in S /\ f[q][1] = b
  PROVE  Cardinality(X) = e[b]
<1>. DEFINE g == [q \in X |-> f[q][2]]
<1>1. /\ f \in [S -> Slots(e)] /\ \A p, q \in S : f[p] = f[q] => p = q
      /\ \A s \in Slots(e) : \E q \in S : f[q] = s
  BY DEF Bijection, Injection, Surjection, IsInjective
<1>2. \A s \in Slots(e) : s = <<s[1], s[2]>> /\ s[1] \in D /\ s[2] \in 1..e[s[1]]
  BY DEF Slots
<1>3. ASSUME NEW q \in X  PROVE f[q] = <<b, g[q]>> /\ g[q] \in 1..e[b]
  BY <1>1, <1>2
<1>4. \A p, q \in X : g[p] = g[q] => p = q
  BY <1>1, <1>3
<1>5. ASSUME NEW i \in 1..e[b]  PROVE \E q \in X : g[q] = i
  <2>1. <<b, i>> \in Slots(e)
    BY DEF Slots
  <2>2. PICK q \in S : f[q] = <<b, i>>
    BY <1>1, <2>1
  <2>. QED  BY <2>2
<1>6. g \in [X -> 1..e[b]]
  BY <1>3
<1>. HIDE DEF g
<1>7. g \in Bijection(X, 1..e[b])
  BY <1>4, <1>5, <1>6 DEF Bijection, Injection, Surjection, IsInjective
<1>8. IsFiniteSet(1..e[b]) /\ Cardinality(1..e[b]) = e[b]
  <2>1. e[b] \in Nat
    OBVIOUS
  <2>2. IsFiniteSet(1..e[b]) /\ Cardinality(1..e[b]) = IF 1 > e[b] THEN 0 ELSE e[b] - 1 + 1
    BY <2>1, FS_Interval
  <2>. QED  BY <2>1, <2>2
<1>9. ExistsBijection(X, 1..e[b]) /\ IsFiniteSet(X)
  <2>1. X \subseteq S
    OBVIOUS
  <2>. QED  BY <1>7, <2>1, FS_Subset DEF ExistsBijection
<1>. QED  BY <1>8, <1>9, FS_Bijection

Remapped(configs, targets, n, epoch) ==
  Completed(RemappedConfigs(configs, Moves(configs, Expected(configs, targets, n)), n, epoch),
            n, epoch)

\* The queues that move are known, and move to targets.
LEMMA MovesToTargets ==
  ASSUME NEW configs, AreConfigs(configs), NEW targets \in SUBSET Brokers,
         NEW e \in [targets -> Nat], IsFiniteSet(Slots(e)),
         NEW moves, moves = Moves(configs, e)
  PROVE  /\ DOMAIN moves \subseteq KnownQueues(configs)
         /\ \A q \in DOMAIN moves : moves[q] \in targets
<1>. DEFINE waiting == WaitingQueues(configs, e)
            seats == Seats(configs, e)
<1>1. waiting \subseteq KnownQueues(configs) /\ waiting \in SUBSET LogicQueues
  BY KnownParts DEF WaitingQueues
<1>2. \A s \in seats : s[1] \in targets /\ s \in Slots(e) /\ s \in Nat \X Nat
  <2>1. ASSUME NEW b \in targets, NEW i \in (Cardinality(QueuesLedBy(configs, b)) + 1)..e[b]
        PROVE  <<b, i>> \in Slots(e) /\ <<b, i>> \in Nat \X Nat
    <3>1. Cardinality(QueuesLedBy(configs, b)) \in Nat /\ e[b] \in Nat /\ b \in Nat
      BY KnownParts, BrokersAssumption
    <3>2. i \in 1..e[b] /\ i \in Nat
      BY <3>1
    <3>. QED  BY <3>1, <3>2 DEF Slots
  <2>. QED  BY <2>1 DEF Seats
<1>3. seats \subseteq Slots(e)
  BY <1>2
<1>4. seats \in SUBSET (Nat \X Nat) /\ IsFiniteSet(seats)
  BY <1>2, <1>3, FS_Subset
<1>5. moves = Matched(seats, waiting)
  BY DEF Moves
<1>6. DOMAIN moves \subseteq waiting
  BY <1>5 DEF Matched
<1>. HIDE DEF waiting, seats
<1>7. ASSUME NEW q \in DOMAIN moves  PROVE moves[q] \in targets
  <2>1. \E s \in seats : moves[q] = s[1]
    BY <1>1, <1>4, <1>5, <1>7, MatchedToSeats
  <2>. QED  BY <1>2, <2>1
<1>. QED  BY <1>1, <1>6, <1>7

\* Whatever mapping it reads, remappingStaticTopic makes configs of one version.
LEMMA RemapVersion ==
  ASSUME NEW configs, AreConfigs(configs), OneLeader(configs), NEW n \in 0..MaxQueues,
         NEW epoch \in Nat, NEW targets \in SUBSET Brokers, targets # {},
         NEW made, made = Remapped(configs, targets, n, epoch)
  PROVE  AreConfigs(made) /\ IsVersion(made, n, epoch) /\ DOMAIN configs \subseteq DOMAIN made
<1>. DEFINE e == Expected(configs, targets, n)
            moves == Moves(configs, e)
            first == RemappedConfigs(configs, moves, n, epoch)
<1>1. n \in Nat
  BY QueuesAssumption
<1>2. e \in [targets -> Nat] /\ IsFiniteSet(Slots(e))
  BY <1>1, ExpectedParts
<1>3. made = Completed(first, n, epoch)
  BY DEF Remapped
<1>. HIDE DEF e
<1>4. DOMAIN moves \subseteq KnownQueues(configs) /\ \A q \in DOMAIN moves : moves[q] \in targets
  BY <1>2, MovesToTargets
<1>. HIDE DEF moves
<1>5. \A q \in DOMAIN moves : moves[q] \in Brokers
  BY <1>4
<1>6. AreConfigs(first) /\ IsVersion(first, n, epoch) /\ DOMAIN configs \subseteq DOMAIN first
  BY <1>4, <1>5, RemappedParts
<1>. HIDE DEF first
<1>7. AreConfigs(made) /\ IsVersion(made, n, epoch) /\ DOMAIN first \subseteq DOMAIN made
  BY <1>1, <1>3, <1>6, CompletedParts
<1>. QED  BY <1>6, <1>7

\* What remappingStaticTopic does to the mapping that it reads.
SharesOut(old, made, targets, n) ==
  /\ OneLeader(made) /\ KnownQueues(made) = KnownQueues(old)
  /\ Cardinality(KnownQueues(made)) = n
  /\ \A q \in KnownQueues(made) :
       /\ LeaderOf(made, q) \in targets
       /\ \/ LeaderItems(made, q) = LeaderItems(old, q)
          \/ Front(LeaderItems(made, q)) = LeaderItems(old, q)
  /\ \A b, c \in targets : Loads(made, b) <= Loads(made, c) + 1

LEMMA RemapShares ==
  ASSUME NEW configs, AreConfigs(configs), OneLeader(configs), NEW n \in 0..MaxQueues,
         Cardinality(KnownQueues(configs)) <= n, NEW epoch \in Nat,
         NEW targets \in SUBSET Brokers, targets # {},
         EnoughQueues(configs, Expected(configs, targets, n))
  PROVE  LET made == Remapped(configs, targets, n, epoch)
         IN  /\ AreConfigs(made) /\ IsVersion(made, n, epoch)
             /\ DOMAIN configs \subseteq DOMAIN made
             /\ SharesOut(configs, made, targets, n)
<1>. DEFINE known == KnownQueues(configs)
            e == Expected(configs, targets, n)
            moves == Moves(configs, e)
            first == RemappedConfigs(configs, moves, n, epoch)
            made == Completed(first, n, epoch)
            to(q) == IF q \in DOMAIN moves THEN moves[q] ELSE LeaderOf(configs, q)
<1>1. n \in Nat
  BY QueuesAssumption
<1>2. /\ e \in [targets -> Nat] /\ \A b, c \in targets : e[b] <= e[c] + 1
      /\ IsFiniteSet(Slots(e)) /\ Cardinality(Slots(e)) = n
  BY <1>1, ExpectedParts
<1>. HIDE DEF e
<1>3. EnoughQueues(configs, e)
  BY DEF e
<1>4. /\ DOMAIN moves \subseteq KnownQueues(configs)
      /\ \A q \in DOMAIN moves : moves[q] \in targets
      /\ Cardinality(KnownQueues(configs)) = n
      /\ \E f \in Bijection(KnownQueues(configs), Slots(e)) :
           \A q \in KnownQueues(configs) :
             f[q][1] = IF q \in DOMAIN moves THEN moves[q] ELSE LeaderOf(configs, q)
  BY <1>1, <1>2, <1>3, MovesParts
<1>. HIDE DEF moves
<1>5. /\ AreConfigs(first) /\ IsVersion(first, n, epoch)
      /\ DOMAIN configs \subseteq DOMAIN first /\ Lead(first, configs, moves)
      /\ \A q \in KnownQueues(configs) :
           IF q \in DOMAIN moves
             THEN Front(first[moves[q]].hosted[q]) = LeaderItems(configs, q)
             ELSE first[LeaderOf(configs, q)].hosted[q] = LeaderItems(configs, q)
  <2>1. \A q \in DOMAIN moves : moves[q] \in Brokers
    BY <1>4
  <2>. QED  BY <1>4, <2>1, RemappedParts
<1>. HIDE DEF first
<1>6. /\ AreConfigs(made) /\ IsVersion(made, n, epoch)
      /\ DOMAIN first \subseteq DOMAIN made /\ \A b \in DOMAIN first : made[b] = first[b]
      /\ \A b, q : Leads(made, b, q) <=> Leads(first, b, q)
  BY <1>5, CompletedParts
<1>. HIDE DEF made
<1>7. Lead(made, configs, moves) /\ OneLeader(made)
  <2>1. Lead(made, configs, moves)
    BY <1>5, <1>6 DEF Lead
  <2>. QED  BY <2>1, NewLeaders
<1>8. ASSUME NEW q \in known
      PROVE  q \in LogicQueues /\ LeaderOf(configs, q) \in DOMAIN configs
             /\ Leads(configs, LeaderOf(configs, q), q)
  BY <1>8, KnownAreLed, KnownParts
<1>9. ASSUME NEW q \in known  PROVE Leads(made, to(q), q) /\ LeaderOf(made, q) = to(q)
  <2>1. Leads(made, to(q), q)
    BY <1>7, <1>8 DEF Lead
  <2>. QED  BY <1>7, <1>8, <2>1, LeaderParts
<1>10. ASSUME NEW q, NEW b, Leads(made, b, q), q \in LogicQueues  PROVE q \in known /\ to(q) = b
  <2>1. CASE q \in DOMAIN moves
    BY <1>4, <1>7, <1>10, <2>1 DEF Lead
  <2>2. CASE q \notin DOMAIN moves
    <3>1. Leads(configs, b, q)
      BY <1>7, <1>10, <2>2 DEF Lead
    <3>. QED  BY <1>10, <2>2, <3>1, LeaderParts
  <2>. QED  BY <2>1, <2>2
<1>11. KnownQueues(made) = known
  <2>1. ASSUME NEW q \in known  PROVE q \in KnownQueues(made)
    BY <1>7, <1>8, <1>9, LeaderParts
  <2>2. ASSUME NEW q \in KnownQueues(made)  PROVE q \in known
    BY <1>10, KnownAreLed, KnownParts
  <2>. QED  BY <2>1, <2>2
<1>12. PICK f \in Bijection(known, Slots(e)) : \A q \in known : f[q][1] = to(q)
  BY <1>4
<1>13. ASSUME NEW b \in targets  PROVE Loads(made, b) = e[b]
  <2>1. ASSUME NEW q  PROVE q \in QueuesLedBy(made, b) <=> q \in known /\ f[q][1] = b
    <3>1. q \in QueuesLedBy(made, b) <=> q \in LogicQueues /\ Leads(made, b, q)
      BY DEF QueuesLedBy
    <3>. HIDE DEF known, to
    <3>. QED  BY <1>8, <1>9, <1>10, <1>12, <3>1
  <2>2. IsFiniteSet(known)
    BY KnownParts
  <2>. HIDE DEF known
  <2>3. Cardinality(QueuesLedBy(made, b)) = e[b]
    BY <1>2, <2>1, <2>2, SlotsOf
  <2>. QED  BY <2>3 DEF Loads
<1>14. ASSUME NEW q \in known  PROVE to(q) \in targets
  <2>1. f \in [known -> Slots(e)]
    BY DEF Bijection, Injection
  <2>2. \A s \in Slots(e) : s[1] \in targets
    BY <1>2 DEF Slots
  <2>. HIDE DEF known, to
  <2>. QED  BY <1>12, <2>1, <2>2
<1>15. ASSUME NEW q \in known
       PROVE  \/ LeaderItems(made, q) = LeaderItems(configs, q)
              \/ Front(LeaderItems(made, q)) = LeaderItems(configs, q)
  <2>1. Leads(first, to(q), q)
    BY <1>6, <1>9
  <2>2. to(q) \in DOMAIN first /\ made[to(q)] = first[to(q)]
    BY <1>6, <2>1 DEF Leads, Hosts
  <2>3. LeaderItems(made, q) = first[to(q)].hosted[q]
    BY <1>9, <2>2 DEF LeaderItems
  <2>. QED  BY <1>5, <2>3
<1>16. \A b, c \in targets : Loads(made, b) <= Loads(made, c) + 1
  BY <1>2, <1>13
<1>17. \A q \in KnownQueues(made) : LeaderOf(made, q) \in targets
  BY <1>9, <1>11, <1>14
<1>18. SharesOut(configs, made, targets, n)
  BY <1>4, <1>7, <1>11, <1>15, <1>16, <1>17 DEF SharesOut
<1>19. made = Remapped(configs, targets, n, epoch)
  BY DEF made, first, moves, e, Remapped
<1>20. DOMAIN configs \subseteq DOMAIN made
  BY <1>5, <1>6
<1>. QED  BY <1>6, <1>18, <1>19, <1>20

-----------------------------------------------------------------------------
(* The invariant of the commands of the static topics *)

PlanRuns == plan.pc \in {"writing", "ok"}

\* The queues that are led by the configs of one command.
LedSince(configs, epoch) ==
  {q \in LogicQueues : \E b \in DOMAIN configs : configs[b].epoch = epoch /\ Leads(configs, b, q)}

\* While no epoch is taken twice, the configs of one epoch lead no more queues than
\* they are for.
VersionsFit ==
  ~plan.repeated =>
    \A x \in DOMAIN stored : Cardinality(LedSince(stored, stored[x].epoch)) <= stored[x].total

\* What the command has made, and what brokers hold of it.
PlanFits ==
  /\ IsVersion(plan.configs, plan.queues, plan.epoch)
  /\ ~plan.repeated =>
       /\ Cardinality(KnownQueues(plan.configs)) <= plan.queues
       /\ \A x \in DOMAIN stored : stored[x].epoch = plan.epoch =>
            x \in DOMAIN plan.configs /\ stored[x] = plan.configs[x]

\* The masters that the command read.
ReadBefore == Restrict(plan.before, {b \in DOMAIN plan.before : plan.table[b] = "master"})

\* What the command promises, by its plan.
PlanPromises ==
  /\ AllMasters(plan.table) => DOMAIN stored \subseteq DOMAIN plan.configs
  /\ plan.kind = "update" /\ Whole(plan.before) /\ AllMasters(plan.table)
     => Extends(plan.before, plan.configs, plan.targets, plan.queues)
  /\ plan.kind = "remap" /\ ~plan.repeated
     => SharesOut(ReadBefore, plan.configs, plan.targets, plan.queues)

\* What has been written is what the command made.
PlanWritten ==
  \A x \in DOMAIN plan.configs \ plan.todo :
    x \in DOMAIN stored /\ stored[x] = plan.configs[x]

PlanFields == {"kind", "targets", "queues", "pc", "configs", "todo", "table", "before",
               "epoch", "repeated"}

PlanInv ==
  /\ StaticTypeOK /\ AreConfigs(stored) /\ AreConfigs(plan.configs)
  /\ DOMAIN plan = PlanFields /\ plan.todo \subseteq DOMAIN plan.configs
  /\ plan.repeated \in BOOLEAN /\ VersionsFit
  /\ plan.pc # "idle" => PlanFits
  /\ PlanRuns => PlanPromises /\ PlanWritten /\ (plan.pc = "ok" => plan.todo = {})

LEMMA LedSinceParts ==
  ASSUME NEW configs, NEW epoch
  PROVE  /\ LedSince(configs, epoch) \in SUBSET LogicQueues
         /\ IsFiniteSet(LedSince(configs, epoch)) /\ Cardinality(LedSince(configs, epoch)) \in Nat
<1>1. LedSince(configs, epoch) \in SUBSET LogicQueues
  BY DEF LedSince
<1>. QED  BY <1>1, KnownParts, FS_Subset, FS_CardinalityType

\* What a command reads are configs, those of all brokers when all are masters.
LEMMA FetchedParts ==
  ASSUME AreConfigs(stored)
  PROVE  /\ AreConfigs(Fetched)
         /\ AllMasters(table) => Fetched = stored
         /\ \A b \in DOMAIN Fetched : b \in DOMAIN stored /\ Fetched[b] = stored[b]
<1>1. Fetched = [b \in {x \in DOMAIN stored : table[x] = "master"} |-> stored[b]]
  BY DEF Fetched, Restrict
<1>2. DOMAIN Fetched = {x \in DOMAIN stored : table[x] = "master"} /\ IsFcn(Fetched)
  BY <1>1 DEF IsFcn
<1>3. \A b \in DOMAIN Fetched : b \in DOMAIN stored /\ Fetched[b] = stored[b]
  BY <1>1
<1>4. AreConfigs(Fetched)
  BY <1>2, <1>3 DEF AreConfigs
<1>5. ASSUME AllMasters(table)  PROVE Fetched = stored
  <2>1. {x \in DOMAIN stored : table[x] = "master"} = DOMAIN stored
    BY <1>5 DEF AllMasters, AreConfigs
  <2>2. stored = [b \in DOMAIN stored |-> stored[b]]
    BY DEF AreConfigs, IsFcn
  <2>. QED  BY <1>1, <2>1, <2>2
<1>. QED  BY <1>3, <1>4, <1>5

\* While no epoch is taken twice, a command takes one that no broker holds.
LEMMA StartsRepeated ==
  ASSUME plan.repeated \in BOOLEAN, NEW kind, NEW targets, NEW n, NEW epoch, NEW configs,
         Starts(kind, targets, n, epoch, configs)
  PROVE  /\ plan'.repeated \in BOOLEAN
         /\ ~plan'.repeated => ~plan.repeated /\ \A b \in DOMAIN stored : stored[b].epoch # epoch
<1>1. plan'.repeated = (plan.repeated \/ \E b \in DOMAIN stored : stored[b].epoch = epoch)
  BY DEF Starts
<1>. QED  BY <1>1

LEMMA EpochsParts ==
  ASSUME PlanInv, NEW epoch \in Epochs
  PROVE  epoch \in Nat
BY BoundsAssumption DEF Epochs, PlanInv, StaticTypeOK

\* A command starts, with a plan that keeps its promises.
LEMMA StartsPlan ==
  ASSUME PlanInv, plan.pc # "writing", commands < MaxCommands,
         NEW kind, NEW targets, NEW n \in Nat, NEW epoch, NEW configs,
         Starts(kind, targets, n, epoch, configs),
         AreConfigs(configs), IsVersion(configs, n, epoch),
         ~plan'.repeated => Cardinality(KnownQueues(configs)) <= n,
         PlanPromises'
  PROVE  PlanInv'
<1>1. /\ DOMAIN plan' = PlanFields /\ plan'.pc = "writing" /\ plan'.configs = configs
      /\ plan'.todo = DOMAIN configs /\ plan'.queues = n /\ plan'.epoch = epoch
      /\ commands' = commands + 1
      /\ stored' = stored /\ table' = table /\ faults' = faults /\ absences' = absences
  BY DEF Starts, PlanFields
<1>2. /\ plan'.repeated \in BOOLEAN
      /\ ~plan'.repeated => ~plan.repeated /\ \A b \in DOMAIN stored : stored[b].epoch # epoch
  BY StartsRepeated DEF PlanInv
<1>3. AreConfigs(stored)' /\ AreConfigs(plan.configs)'
  BY <1>1 DEF PlanInv
<1>4. commands' \in 0..MaxCommands
  BY <1>1, BoundsAssumption DEF PlanInv, StaticTypeOK
<1>5. StaticTypeOK'
  BY <1>1, <1>3, <1>4 DEF PlanInv, StaticTypeOK, AreConfigs, IsConfig, LogicQueues, Items
<1>6. VersionsFit'
  <2>1. ~plan'.repeated =>
          \A x \in DOMAIN stored : Cardinality(LedSince(stored, stored[x].epoch)) <= stored[x].total
    BY <1>2 DEF PlanInv, VersionsFit
  <2>. QED  BY <1>1, <2>1 DEF VersionsFit, LedSince, Leads, Hosts
<1>7. PlanFits'
  <2>1. KnownQueues(configs)' = KnownQueues(configs)
    OBVIOUS
  <2>. QED  BY <1>1, <1>2, <2>1 DEF PlanFits, IsVersion, KnownQueues, Leads, Hosts
<1>8. PlanWritten'
  BY <1>1 DEF PlanWritten
<1>. QED  BY <1>1, <1>2, <1>3, <1>5, <1>6, <1>7, <1>8 DEF PlanInv

LEMMA UpdateStartsPlan ==
  ASSUME PlanInv, NEW targets \in SUBSET Brokers, targets # {}, NEW n \in 1..MaxQueues,
         UpdateStaticTopic(targets, n)
  PROVE  PlanInv'
<1>0. PICK epoch \in Epochs :
        /\ plan.pc # "writing" /\ commands < MaxCommands /\ UpdateAllowed(Fetched, n)
        /\ Starts("update", targets, n, epoch, Updated(Fetched, targets, n, epoch))
  BY DEF UpdateStaticTopic, Updated
<1>. DEFINE made == Updated(Fetched, targets, n, epoch)
<1>1. /\ plan.pc # "writing" /\ commands < MaxCommands /\ UpdateAllowed(Fetched, n)
      /\ Starts("update", targets, n, epoch, made)
  BY <1>0
<1>2. AreConfigs(Fetched) /\ n > Cardinality(KnownQueues(Fetched))
  BY <1>1, FetchedParts DEF PlanInv, UpdateAllowed
<1>3. epoch \in Nat /\ n \in Nat
  BY EpochsParts, QueuesAssumption
<1>. HIDE DEF made
<1>4. /\ AreConfigs(made) /\ IsVersion(made, n, epoch)
      /\ DOMAIN Fetched \subseteq DOMAIN made /\ Cardinality(KnownQueues(made)) <= n
  <2>1. made = Updated(Fetched, targets, n, epoch)
    BY DEF made
  <2>2. GrownBy(made, Fetched, NewQueues(Fetched, targets, n))
        /\ IsVersion(made, n, epoch) /\ Cardinality(KnownQueues(made)) <= n
    BY <1>2, <1>3, <2>1, UpdatedKnown
  <2>. QED  BY <1>3, <2>2 DEF GrownBy
<1>5. /\ plan'.configs = made /\ plan'.before = stored /\ plan'.table = table
      /\ plan'.kind = "update" /\ plan'.targets = targets /\ plan'.queues = n
      /\ stored' = stored
  BY <1>1 DEF Starts
<1>6. AllMasters(table) => Fetched = stored
  BY FetchedParts DEF PlanInv
<1>7. ASSUME Whole(stored), AllMasters(table)  PROVE Extends(stored, made, targets, n)
  <2>1. Whole(Fetched)
    BY <1>6, <1>7
  <2>2. Extends(Fetched, made, targets, n)
    BY <1>2, <1>3, <2>1, UpdateExtends DEF made
  <2>. QED  BY <1>6, <1>7, <2>2
<1>8. PlanPromises'
  <2>1. AllMasters(plan'.table) => DOMAIN stored' \subseteq DOMAIN plan'.configs
    BY <1>4, <1>5, <1>6
  <2>2. Whole(plan'.before) /\ AllMasters(plan'.table)
        => Extends(plan'.before, plan'.configs, plan'.targets, plan'.queues)
    BY <1>5, <1>7
  <2>. QED  BY <1>5, <2>1, <2>2 DEF PlanPromises
<1>. QED  BY <1>1, <1>3, <1>4, <1>8, StartsPlan

\* While no epoch is taken twice, a mapping that is read leads no more queues than
\* it is for.
LEMMA FetchedFit ==
  ASSUME PlanInv, ~plan.repeated, NEW n \in Nat, NEW b \in DOMAIN Fetched, n = Fetched[b].total,
         OneVersion(Fetched)
  PROVE  Cardinality(KnownQueues(Fetched)) <= n
<1>. DEFINE since == LedSince(stored, stored[b].epoch)
<1>1. \A a \in DOMAIN Fetched : a \in DOMAIN stored /\ Fetched[a] = stored[a]
  BY FetchedParts DEF PlanInv
<1>2. KnownQueues(Fetched) \subseteq since
  <2>1. ASSUME NEW q \in KnownQueues(Fetched)  PROVE q \in since
    <3>1. PICK a \in DOMAIN Fetched : Leads(Fetched, a, q)
      BY DEF KnownQueues
    <3>2. Fetched[a].epoch = Fetched[b].epoch
      BY DEF OneVersion
    <3>3. a \in DOMAIN stored /\ Leads(stored, a, q) /\ stored[a].epoch = stored[b].epoch
      BY <1>1, <3>1, <3>2 DEF Leads, Hosts
    <3>. QED  BY <3>3, KnownParts DEF LedSince
  <2>. QED  BY <2>1
<1>3. Cardinality(since) <= n
  BY <1>1 DEF PlanInv, VersionsFit
<1>4. IsFiniteSet(since) /\ Cardinality(since) \in Nat
  BY LedSinceParts
<1>. HIDE DEF since
<1>5. Cardinality(KnownQueues(Fetched)) <= Cardinality(since)
  BY <1>2, <1>4, FS_Subset
<1>6. Cardinality(KnownQueues(Fetched)) \in Nat
  BY KnownParts
<1>. QED  BY <1>3, <1>4, <1>5, <1>6

LEMMA RemapStartsPlan ==
  ASSUME PlanInv, NEW targets \in SUBSET Brokers, targets # {}, RemappingStaticTopic(targets)
  PROVE  PlanInv'
<1>. DEFINE n == Total(Fetched)
<1>0. PICK epoch \in Epochs :
        /\ plan.pc # "writing" /\ commands < MaxCommands /\ RemapAllowed(Fetched, targets)
        /\ Starts("remap", targets, n, epoch, Remapped(Fetched, targets, n, epoch))
  BY DEF RemappingStaticTopic, Remapped
<1>. DEFINE made == Remapped(Fetched, targets, n, epoch)
<1>1. /\ plan.pc # "writing" /\ commands < MaxCommands /\ RemapAllowed(Fetched, targets)
      /\ Starts("remap", targets, n, epoch, made)
  BY <1>0
<1>2. AreConfigs(Fetched)
  BY FetchedParts DEF PlanInv
<1>3. epoch \in Nat
  BY EpochsParts
<1>4. /\ DOMAIN Fetched # {} /\ OneVersion(Fetched) /\ OneLeader(Fetched)
      /\ EnoughQueues(Fetched, Expected(Fetched, targets, n))
  BY <1>1 DEF RemapAllowed, OneLeaderEach, OneLeader
<1>5. PICK b \in DOMAIN Fetched : n = Fetched[b].total
  BY <1>4 DEF Total
<1>6. n \in 0..MaxQueues /\ n \in Nat
  BY <1>2, <1>5, QueuesAssumption DEF AreConfigs, IsConfig
<1>. HIDE DEF n
<1>7. made = Remapped(Fetched, targets, n, epoch)
  OBVIOUS
<1>. HIDE DEF made
<1>8. AreConfigs(made) /\ IsVersion(made, n, epoch) /\ DOMAIN Fetched \subseteq DOMAIN made
  BY <1>2, <1>3, <1>4, <1>6, <1>7, RemapVersion
<1>9. ASSUME ~plan'.repeated  PROVE SharesOut(Fetched, made, targets, n)
  <2>1. ~plan.repeated
    BY <1>1, <1>9, StartsRepeated DEF PlanInv
  <2>2. Cardinality(KnownQueues(Fetched)) <= n
    BY <1>4, <1>5, <1>6, <2>1, FetchedFit
  <2>. QED  BY <1>2, <1>3, <1>4, <1>6, <1>7, <2>2, RemapShares
<1>10. /\ plan'.configs = made /\ plan'.before = stored /\ plan'.table = table
       /\ plan'.kind = "remap" /\ plan'.targets = targets /\ plan'.queues = n
       /\ stored' = stored
  BY <1>1 DEF Starts
<1>11. AllMasters(table) => Fetched = stored
  BY FetchedParts DEF PlanInv
<1>12. PlanPromises'
  <2>1. ReadBefore' = Fetched
    BY <1>10 DEF ReadBefore, Fetched
  <2>. QED  BY <1>8, <1>9, <1>10, <1>11, <2>1 DEF PlanPromises
<1>13. ~plan'.repeated => Cardinality(KnownQueues(made)) <= n
  BY <1>6, <1>9 DEF SharesOut
<1>. QED  BY <1>1, <1>6, <1>8, <1>12, <1>13, StartsPlan

\* A broker holds the config that the command has made for it.
LEMMA WritePlan ==
  ASSUME PlanInv, NEW b \in Brokers, Turn(b), Stores(b), plan'.repeated = plan.repeated
  PROVE  /\ AreConfigs(stored)' /\ VersionsFit' /\ PlanFits
         /\ \A x \in DOMAIN stored' : IF x = b THEN stored'[x] = plan.configs[b]
                                               ELSE x \in DOMAIN stored /\ stored'[x] = stored[x]
         /\ DOMAIN stored' = DOMAIN stored \cup {b} /\ b \in DOMAIN plan.configs
         /\ ~plan.repeated => \A x \in DOMAIN stored' : stored'[x].epoch = plan.epoch =>
              x \in DOMAIN plan.configs /\ stored'[x] = plan.configs[x]
<1>1. plan.pc = "writing" /\ b \in DOMAIN plan.configs
  BY DEF Turn, PlanInv
<1>2. PlanFits
  BY <1>1 DEF PlanInv
<1>3. /\ IsFcn(stored') /\ DOMAIN stored' = DOMAIN stored \cup {b}
      /\ \A x \in DOMAIN stored' : IF x = b THEN stored'[x] = plan.configs[b]
                                            ELSE x \in DOMAIN stored /\ stored'[x] = stored[x]
  BY DEF Stores, IsFcn
<1>4. AreConfigs(stored)'
  <2>1. DOMAIN stored' \subseteq Brokers
    BY <1>3 DEF PlanInv, AreConfigs
  <2>2. \A x \in DOMAIN stored' : IsConfig(stored'[x])
    BY <1>1, <1>3 DEF PlanInv, AreConfigs
  <2>3. AreConfigs(stored')
    BY <1>3, <2>1, <2>2 DEF AreConfigs
  <2>. QED  BY <2>3
<1>5. plan.configs[b].epoch = plan.epoch /\ plan.configs[b].total = plan.queues
  BY <1>1, <1>2 DEF PlanFits, IsVersion
<1>6. ASSUME ~plan.repeated, NEW x \in DOMAIN stored', stored'[x].epoch = plan.epoch
      PROVE  x \in DOMAIN plan.configs /\ stored'[x] = plan.configs[x]
  BY <1>1, <1>2, <1>3, <1>6 DEF PlanFits
<1>. DEFINE ep == plan.epoch
<1>7. ASSUME ~plan.repeated, NEW x \in DOMAIN stored'
      PROVE  Cardinality(LedSince(stored', stored'[x].epoch)) <= stored'[x].total
  <2>1. CASE stored'[x].epoch = ep
    <3>1. LedSince(stored', ep) \subseteq KnownQueues(plan.configs)
      <4>1. ASSUME NEW q \in LedSince(stored', ep)  PROVE q \in KnownQueues(plan.configs)
        <5>1. PICK a \in DOMAIN stored' : stored'[a].epoch = ep /\ Leads(stored', a, q)
          BY DEF LedSince
        <5>2. a \in DOMAIN plan.configs /\ Leads(plan.configs, a, q)
          BY <1>6, <1>7, <5>1 DEF Leads, Hosts
        <5>. QED  BY <5>2 DEF KnownQueues, LedSince
      <4>. QED  BY <4>1
    <3>2. Cardinality(LedSince(stored', ep)) <= Cardinality(KnownQueues(plan.configs))
      BY <3>1, KnownParts, FS_Subset
    <3>3. x \in DOMAIN plan.configs /\ stored'[x] = plan.configs[x]
      BY <1>6, <1>7, <2>1
    <3>4. stored'[x].total = plan.queues
      BY <1>2, <3>3 DEF PlanFits, IsVersion
    <3>5. stored'[x].total \in Nat
      BY <3>3, QueuesAssumption DEF PlanInv, AreConfigs, IsConfig
    <3>6. Cardinality(KnownQueues(plan.configs)) <= plan.queues
      BY <1>2, <1>7 DEF PlanFits
    <3>7. Cardinality(KnownQueues(plan.configs)) \in Nat
      BY KnownParts
    <3>8. Cardinality(LedSince(stored', ep)) \in Nat
      BY LedSinceParts
    <3>9. Cardinality(LedSince(stored', ep)) <= stored'[x].total
      BY <3>2, <3>4, <3>5, <3>6, <3>7, <3>8
    <3>. QED  BY <2>1, <3>9
  <2>2. CASE stored'[x].epoch # ep
    <3>1. x # b /\ x \in DOMAIN stored /\ stored'[x] = stored[x]
      BY <1>3, <1>5, <2>2
    <3>. DEFINE old == stored[x].epoch
    <3>2. stored'[x].epoch = old /\ old # plan.epoch
      BY <2>2, <3>1
    <3>3. LedSince(stored', old) \subseteq LedSince(stored, old)
      <4>. HIDE DEF old
      <4>1. ASSUME NEW q \in LedSince(stored', old)  PROVE q \in LedSince(stored, old)
        <5>1. PICK a \in DOMAIN stored' : stored'[a].epoch = old /\ Leads(stored', a, q)
          BY DEF LedSince
        <5>2. a # b
          BY <1>3, <1>5, <3>2, <5>1
        <5>3. a \in DOMAIN stored /\ stored[a].epoch = old /\ Leads(stored, a, q)
          BY <1>3, <5>1, <5>2 DEF Leads, Hosts
        <5>. QED  BY <5>3 DEF LedSince
      <4>. QED  BY <4>1
    <3>4. Cardinality(LedSince(stored', old)) <= Cardinality(LedSince(stored, old))
      BY <3>3, LedSinceParts, FS_Subset
    <3>5. Cardinality(LedSince(stored, old)) <= stored[x].total
      BY <1>7, <3>1 DEF PlanInv, VersionsFit
    <3>6. stored[x].total \in Nat
      BY <3>1, QueuesAssumption DEF PlanInv, AreConfigs, IsConfig
    <3>7. Cardinality(LedSince(stored', old)) \in Nat /\ Cardinality(LedSince(stored, old)) \in Nat
      BY LedSinceParts
    <3>. HIDE DEF old
    <3>. QED  BY <3>1, <3>2, <3>4, <3>5, <3>6, <3>7
  <2>. QED  BY <2>1, <2>2
<1>8. VersionsFit'
  BY <1>7 DEF VersionsFit, LedSince, Leads, Hosts
<1>. QED  BY <1>1, <1>2, <1>3, <1>4, <1>6, <1>8

\* What a step of a command leaves of its plan.
LEMMA PlanStep ==
  ASSUME PlanInv, NEW b, NEW pc,
         plan' = [plan EXCEPT !.pc = pc] \/ plan' = [plan EXCEPT !.todo = @ \ {b}, !.pc = pc]
  PROVE  /\ DOMAIN plan' = PlanFields /\ plan'.pc = pc /\ plan'.configs = plan.configs
         /\ plan'.queues = plan.queues /\ plan'.targets = plan.targets
         /\ plan'.kind = plan.kind /\ plan'.table = plan.table /\ plan'.before = plan.before
         /\ plan'.epoch = plan.epoch /\ plan'.repeated = plan.repeated
         /\ plan'.todo = plan.todo \/ plan'.todo = plan.todo \ {b}
BY DEF PlanInv, PlanFields

\* The command fails: what it has made stays as far as it was written.
LEMMA FailedPlan ==
  ASSUME PlanInv, NEW b \in Brokers, BrokerHasNoMaster(b) \/ WriteFails(b)
  PROVE  PlanInv'
<1>1. /\ Turn(b) /\ (stored' = stored \/ Stores(b))
      /\ plan' = [plan EXCEPT !.pc = "failed"] /\ table' = table /\ commands' = commands
      /\ faults' \in 0..MaxFaults /\ absences' = absences
  BY BoundsAssumption DEF BrokerHasNoMaster, WriteFails, PlanInv, StaticTypeOK
<1>2. /\ DOMAIN plan' = PlanFields /\ plan'.pc = "failed" /\ plan'.configs = plan.configs
      /\ plan'.queues = plan.queues /\ plan'.todo = plan.todo
      /\ plan'.epoch = plan.epoch /\ plan'.repeated = plan.repeated
  BY <1>1 DEF PlanInv, PlanFields
<1>3. plan.pc = "writing" /\ PlanFits
  BY <1>1 DEF Turn, PlanInv
<1>4. /\ AreConfigs(stored)' /\ VersionsFit'
      /\ ~plan.repeated => \A x \in DOMAIN stored' : stored'[x].epoch = plan.epoch =>
           x \in DOMAIN plan.configs /\ stored'[x] = plan.configs[x]
  <2>1. CASE stored' = stored
    <3>1. AreConfigs(stored)' /\ VersionsFit'
      BY <1>2, <2>1 DEF PlanInv, VersionsFit, LedSince, Leads, Hosts
    <3>. QED  BY <1>3, <2>1, <3>1 DEF PlanFits
  <2>2. CASE Stores(b)
    BY <1>1, <1>2, <2>2, WritePlan
  <2>. QED  BY <1>1, <2>1, <2>2
<1>5. AreConfigs(plan.configs)'
  BY <1>2 DEF PlanInv
<1>6. StaticTypeOK'
  BY <1>1, <1>2, <1>4, <1>5 DEF PlanInv, StaticTypeOK, AreConfigs
<1>7. PlanFits'
  BY <1>2, <1>3, <1>4 DEF PlanFits, IsVersion, KnownQueues, Leads, Hosts
<1>. QED  BY <1>2, <1>4, <1>5, <1>6, <1>7 DEF PlanInv, PlanRuns

LEMMA WriteMasterPlan ==
  ASSUME PlanInv, NEW b \in Brokers, WriteMaster(b)
  PROVE  PlanInv'
<1>1. /\ Turn(b) /\ Stores(b) /\ table' = table /\ commands' = commands
      /\ plan' = [plan EXCEPT !.todo = @ \ {b}, !.pc = Ended(plan.todo \ {b})]
      /\ faults' = faults /\ absences' = absences
  BY DEF WriteMaster
<1>2. /\ DOMAIN plan' = PlanFields /\ plan'.pc = Ended(plan.todo \ {b})
      /\ plan'.configs = plan.configs /\ plan'.queues = plan.queues
      /\ plan'.targets = plan.targets /\ plan'.kind = plan.kind /\ plan'.table = plan.table
      /\ plan'.before = plan.before /\ plan'.todo = plan.todo \ {b}
      /\ plan'.epoch = plan.epoch /\ plan'.repeated = plan.repeated
  BY <1>1 DEF PlanInv, PlanFields
<1>3. plan.pc = "writing" /\ PlanRuns
  BY <1>1 DEF Turn, PlanRuns
<1>4. /\ AreConfigs(stored)' /\ VersionsFit' /\ PlanFits
      /\ \A x \in DOMAIN stored' : IF x = b THEN stored'[x] = plan.configs[b]
                                            ELSE x \in DOMAIN stored /\ stored'[x] = stored[x]
      /\ DOMAIN stored' = DOMAIN stored \cup {b} /\ b \in DOMAIN plan.configs
      /\ ~plan.repeated => \A x \in DOMAIN stored' : stored'[x].epoch = plan.epoch =>
           x \in DOMAIN plan.configs /\ stored'[x] = plan.configs[x]
  BY <1>1, <1>2, WritePlan
<1>5. AreConfigs(plan.configs)'
  BY <1>2 DEF PlanInv
<1>6. StaticTypeOK'
  <2>1. plan'.pc \in {"writing", "ok"}
    BY <1>2 DEF Ended
  <2>. QED  BY <1>1, <1>2, <1>4, <1>5, <2>1 DEF PlanInv, StaticTypeOK, AreConfigs
<1>7. PlanFits'
  BY <1>2, <1>4 DEF PlanFits, IsVersion, KnownQueues, Leads, Hosts
<1>8. PlanPromises'
  <2>1. PlanPromises
    BY <1>3 DEF PlanInv
  <2>2. AllMasters(plan'.table) => DOMAIN stored' \subseteq DOMAIN plan'.configs
    BY <1>2, <1>4, <2>1 DEF PlanPromises
  <2>3. ReadBefore' = ReadBefore
    BY <1>2 DEF ReadBefore
  <2>. QED  BY <1>2, <2>1, <2>2, <2>3 DEF PlanPromises
<1>9. PlanWritten'
  <2>1. PlanWritten
    BY <1>3 DEF PlanInv
  <2>. QED  BY <1>2, <1>4, <2>1 DEF PlanWritten
<1>10. plan'.pc = "ok" => plan'.todo = {}
  BY <1>2 DEF Ended
<1>11. plan'.todo \subseteq DOMAIN plan'.configs
  BY <1>2 DEF PlanInv
<1>. QED  BY <1>2, <1>4, <1>5, <1>6, <1>7, <1>8, <1>9, <1>10, <1>11 DEF PlanInv

\* The name server changes nothing of a plan.
LEMMA OthersPlan ==
  ASSUME PlanInv, UNCHANGED <<stored, plan, commands, faults>>,
         table' \in [Brokers -> {"master", "slave", "gone"}], absences' \in 0..MaxAbsences
  PROVE  PlanInv'
<1>1. StaticTypeOK'
  BY DEF PlanInv, StaticTypeOK
<1>2. VersionsFit' /\ (PlanFits => PlanFits') /\ (PlanPromises => PlanPromises')
      /\ (PlanWritten => PlanWritten')
  BY DEF PlanInv, VersionsFit, LedSince, Leads, Hosts, PlanFits, PlanPromises, ReadBefore,
         PlanWritten
<1>3. AreConfigs(stored)' /\ AreConfigs(plan.configs)'
  BY DEF PlanInv
<1>. QED  BY <1>1, <1>2, <1>3 DEF PlanInv, PlanRuns

LEMMA PlanInit == StaticInit => PlanInv
<1>. SUFFICES ASSUME StaticInit  PROVE PlanInv
  OBVIOUS
<1>1. /\ DOMAIN stored = {} /\ IsFcn(stored) /\ plan.pc = "idle" /\ plan.configs = stored
      /\ plan.todo = {} /\ DOMAIN plan = PlanFields /\ plan.repeated = FALSE
      /\ table \in [Brokers -> {"master", "slave", "gone"}]
  BY DEF StaticInit, NoConfigs, IsFcn, PlanFields
<1>2. commands \in 0..MaxCommands /\ faults \in 0..MaxFaults /\ absences \in 0..MaxAbsences
  BY BoundsAssumption DEF StaticInit
<1>3. AreConfigs(stored) /\ AreConfigs(plan.configs)
  BY <1>1 DEF AreConfigs
<1>4. StaticTypeOK
  BY <1>1, <1>2 DEF StaticTypeOK
<1>5. VersionsFit
  BY <1>1 DEF VersionsFit
<1>. QED  BY <1>1, <1>3, <1>4, <1>5 DEF PlanInv, PlanRuns

LEMMA PlanInductive == PlanInv /\ [StaticNext]_staticVars => PlanInv'
<1>. SUFFICES ASSUME PlanInv, [StaticNext]_staticVars  PROVE PlanInv'
  OBVIOUS
<1>1. ASSUME NEW targets \in (SUBSET Brokers) \ {{}}, NEW n \in 1..MaxQueues,
             UpdateStaticTopic(targets, n)
      PROVE  PlanInv'
  BY <1>1, UpdateStartsPlan
<1>2. ASSUME NEW targets \in (SUBSET Brokers) \ {{}}, RemappingStaticTopic(targets)  PROVE PlanInv'
  BY <1>2, RemapStartsPlan
<1>3. ASSUME NEW b \in Brokers, WriteMaster(b)  PROVE PlanInv'
  BY <1>3, WriteMasterPlan
<1>4. ASSUME NEW b \in Brokers, BrokerHasNoMaster(b) \/ WriteFails(b)  PROVE PlanInv'
  BY <1>4, FailedPlan
<1>5. ASSUME NEW b \in Brokers, BrokerLeaves(b) \/ BrokerReturns(b)  PROVE PlanInv'
  <2>1. /\ UNCHANGED <<stored, plan, commands, faults>>
        /\ table' \in [Brokers -> {"master", "slave", "gone"}] /\ absences' \in 0..MaxAbsences
    BY <1>5, BoundsAssumption DEF BrokerLeaves, BrokerReturns, PlanInv, StaticTypeOK
  <2>. QED  BY <2>1, OthersPlan
<1>6. CASE UNCHANGED staticVars
  <2>1. /\ UNCHANGED <<stored, plan, commands, faults>>
        /\ table' \in [Brokers -> {"master", "slave", "gone"}] /\ absences' \in 0..MaxAbsences
    BY <1>6 DEF staticVars, PlanInv, StaticTypeOK
  <2>. QED  BY <2>1, OthersPlan
<1>. QED  BY <1>1, <1>2, <1>3, <1>4, <1>5, <1>6 DEF StaticNext

\* When a command has written all that it made, brokers hold that.
LEMMA AllWritten ==
  ASSUME PlanInv, plan.pc = "ok"
  PROVE  /\ Restrict(stored, DOMAIN plan.configs) = plan.configs
         /\ AllMasters(plan.table) => stored = plan.configs
         /\ DOMAIN plan.configs \subseteq DOMAIN stored
         /\ \A x \in DOMAIN plan.configs : stored[x] = plan.configs[x]
<1>1. \A x \in DOMAIN plan.configs : x \in DOMAIN stored /\ stored[x] = plan.configs[x]
  <2>1. PlanWritten /\ plan.todo = {}
    BY DEF PlanInv, PlanRuns
  <2>. QED  BY <2>1 DEF PlanWritten
<1>2. /\ plan.configs = [x \in DOMAIN plan.configs |-> plan.configs[x]]
      /\ stored = [x \in DOMAIN stored |-> stored[x]]
  BY DEF PlanInv, AreConfigs, IsFcn
<1>3. Restrict(stored, DOMAIN plan.configs) = plan.configs
  BY <1>1, <1>2 DEF Restrict
<1>4. ASSUME AllMasters(plan.table)  PROVE stored = plan.configs
  <2>1. DOMAIN stored = DOMAIN plan.configs
    BY <1>1, <1>4 DEF PlanInv, PlanRuns, PlanPromises
  <2>. QED  BY <1>1, <1>2, <2>1
<1>. QED  BY <1>1, <1>3, <1>4

\* What brokers hold uses physical queues once.
LEMMA LeadersOnce ==
  ASSUME PhysicalQueuesAreExclusive, AreConfigs(stored), NEW configs, AreConfigs(configs),
         OneLeader(configs), DOMAIN configs \subseteq DOMAIN stored,
         \A x \in DOMAIN configs : stored[x] = configs[x]
  PROVE  OneLeaderEach(configs)
<1>1. ASSUME NEW a \in DOMAIN configs, NEW p \in LogicQueues, NEW q \in LogicQueues,
             Leads(configs, a, p), Leads(configs, a, q),
             Last(configs[a].hosted[p]) = Last(configs[a].hosted[q])
      PROVE  p = q
  <2>. DEFINE h == configs[a].hosted
              i == Len(h[p])
              j == Len(h[q])
  <2>1. p \in DOMAIN h /\ q \in DOMAIN h /\ Last(h[p]).broker = a
    BY <1>1 DEF Leads, Hosts
  <2>2. h[p] \in Seq(Items) \ {<<>>} /\ h[q] \in Seq(Items) \ {<<>>}
    BY <2>1 DEF AreConfigs, IsConfig
  <2>. HIDE DEF h
  <2>3. i \in DOMAIN h[p] /\ j \in DOMAIN h[q]
    <3>1. \A s \in Seq(Items) : s # <<>> => Len(s) \in DOMAIN s
      <4>. TAKE s \in Seq(Items)
      <4>1. Len(s) \in Nat /\ DOMAIN s = 1..Len(s) /\ (Len(s) = 0 => s = <<>>)
        BY LenProperties, EmptySeq
      <4>. QED  BY <4>1
    <3>. QED  BY <2>2, <3>1
  <2>4. h[p][i] = h[q][j] /\ h[p][i].broker = a
    BY <1>1, <2>1 DEF Last, h
  <2>5. a \in DOMAIN stored /\ stored[a].hosted = h
    BY DEF h
  <2>. HIDE DEF i, j
  <2>. QED  BY <2>1, <2>3, <2>4, <2>5 DEF PhysicalQueuesAreExclusive
<1>. QED  BY <1>1 DEF OneLeaderEach, OneLeader

LEMMA StaticInvariance == StaticSpec => [](StaticInv /\ PlanInv)
<1>1. StaticSpec => []StaticInv
  BY StaticInitHolds, StaticInductive, PTL DEF StaticSpec
<1>2. StaticSpec => []PlanInv
  BY PlanInit, PlanInductive, PTL DEF StaticSpec
<1>. QED  BY <1>1, <1>2, PTL

\* An update of a whole mapping, read in full, leaves it whole, the old queues as they
\* were and the loads level: for any brokers, targets, numbers and failures.
THEOREM UpdatesExtend == StaticSpec => []UpdatesExtendTheTopic
<1>1. PhysicalQueuesAreExclusive /\ PlanInv => UpdatesExtendTheTopic
  <2>. SUFFICES ASSUME PhysicalQueuesAreExclusive, PlanInv, plan.kind = "update",
                       plan.pc = "ok", Whole(plan.before), AllMasters(plan.table)
                PROVE  /\ Whole(stored) /\ KnownQueues(stored) = 0..(plan.queues - 1)
                       /\ \A q \in KnownQueues(plan.before) :
                            /\ LeaderOf(stored, q) = LeaderOf(plan.before, q)
                            /\ LeaderItems(stored, q) = LeaderItems(plan.before, q)
                       /\ \A b \in DOMAIN stored, c \in plan.targets :
                            Loads(stored, b)
                              > Cardinality(KnownQueues(plan.before) \cap QueuesLedBy(stored, b))
                            => Loads(stored, b) <= Loads(stored, c) + 1
    BY DEF UpdatesExtendTheTopic, PlanInv
  <2>1. stored = plan.configs
    BY AllWritten
  <2>2. Extends(plan.before, stored, plan.targets, plan.queues)
        /\ IsVersion(stored, plan.queues, plan.epoch)
    BY <2>1 DEF PlanInv, PlanRuns, PlanPromises, PlanFits
  <2>3. OneVersion(stored)
    BY <2>2, VersionIsOne
  <2>4. OneLeaderEach(stored)
    BY <2>2, LeadersOnce DEF PlanInv, Extends
  <2>5. Whole(stored)
    BY <2>2, <2>3, <2>4 DEF Whole, Extends, IsVersion
  <2>. QED  BY <2>2, <2>5 DEF Extends
<1>. QED  BY <1>1, QueuesExclusive, StaticInvariance, PTL

\* A remapping that answers has given its targets equal shares of a whole mapping, with
\* the history of each queue kept, unless an epoch was taken twice: for any brokers, targets, numbers and failures.
THEOREM RemapsShare == StaticSpec => []RemapsShareTheTopic
<1>1. PhysicalQueuesAreExclusive /\ PlanInv => RemapsShareTheTopic
  <2>. SUFFICES ASSUME PhysicalQueuesAreExclusive, PlanInv, plan.kind = "remap", plan.pc = "ok",
                       ~plan.repeated
                PROVE  RemapsShareTheTopic
    BY DEF RemapsShareTheTopic
  <2>. DEFINE seen == Restrict(stored, DOMAIN plan.configs)
  <2>1. /\ seen = plan.configs /\ DOMAIN plan.configs \subseteq DOMAIN stored
        /\ \A x \in DOMAIN plan.configs : stored[x] = plan.configs[x]
    BY AllWritten
  <2>2. /\ SharesOut(ReadBefore, plan.configs, plan.targets, plan.queues)
        /\ IsVersion(plan.configs, plan.queues, plan.epoch)
        /\ AreConfigs(stored) /\ AreConfigs(plan.configs)
    BY DEF PlanInv, PlanRuns, PlanPromises, PlanFits
  <2>3. OneVersion(plan.configs)
    BY <2>2, VersionIsOne
  <2>4. OneLeaderEach(plan.configs)
    BY <2>1, <2>2, LeadersOnce DEF SharesOut
  <2>. HIDE DEF seen
  <2>. QED  BY <2>1, <2>2, <2>3, <2>4 DEF RemapsShareTheTopic, SharesOut, ReadBefore, seen
<1>. QED  BY <1>1, QueuesExclusive, StaticInvariance, PTL

-----------------------------------------------------------------------------
(* The allocation of queues to consumers: arithmetic *)

LEMMA Division ==
  ASSUME NEW n \in Nat, NEW c \in Nat \ {0}
  PROVE  /\ n \div c \in Nat /\ n % c \in Nat /\ n % c < c
         /\ n = c * (n \div c) + (n % c)
<1>1. n \div c \in Nat /\ n % c \in Nat /\ n % c < c
  OBVIOUS
<1>. DEFINE p == c * (n \div c)  r == n % c
<1>2. n - p = r
  OBVIOUS
<1>3. p \in Int /\ r \in Int
  BY <1>1
<1>4. n = p + r
  <2>. HIDE DEF p, r
  <2>. QED  BY <1>2, <1>3
<1>. QED  BY <1>1, <1>4

LEMMA Monotonic ==
  ASSUME NEW a \in Nat, NEW b \in Nat, NEW q \in Nat, a <= b
  PROVE  a * q <= b * q
  OBVIOUS

\* Where a share begins when there are at least as many queues as consumers.
LEMMA Shares ==
  ASSUME NEW n \in Nat, NEW c \in Nat \ {0}, n >= c, NEW i \in 0..c-1
  PROVE  /\ count(n, c, i) = averageSize(n, c, i)
         /\ startIndex(n, c, i) \in Nat
         /\ averageSize(n, c, i) = IF i < n % c THEN n \div c + 1 ELSE n \div c
         /\ startIndex(n, c, i) = i * (n \div c) + (IF i < n % c THEN i ELSE n % c)
<1>. DEFINE q == n \div c  r == n % c
<1>1. /\ q \in Nat /\ r \in Nat /\ r < c /\ n = c * q + r
  BY Division
<1>. HIDE DEF q, r
<1>2. n = c => q = 1 /\ r = 0
  <2>1. SUFFICES ASSUME n = c PROVE q = 1 /\ r = 0
    OBVIOUS
  <2>2. q < 2
    <3>1. SUFFICES ASSUME q >= 2 PROVE FALSE
      BY <1>1
    <3>2. 2 * c <= q * c
      BY <1>1, <3>1, Monotonic
    <3>. QED  BY <1>1, <2>1, <3>2
  <2>3. q # 0
    BY <1>1, <2>1
  <2>. QED  BY <1>1, <2>1, <2>2, <2>3
<1>3. averageSize(n, c, i) = IF i < r THEN q + 1 ELSE q
  BY <1>1, <1>2 DEF averageSize, q, r
<1>4. startIndex(n, c, i) = i * q + (IF i < r THEN i ELSE r)
  <2>1. i * (q + 1) = i * q + i
    BY <1>1
  <2>2. startIndex(n, c, i) = i * averageSize(n, c, i) + (IF r > 0 /\ i >= r THEN r ELSE 0)
    BY DEF startIndex, r
  <2>. QED  BY <1>1, <1>3, <2>1, <2>2
<1>5. startIndex(n, c, i) + averageSize(n, c, i) <= n
  <2>1. (i + 1) * q <= c * q /\ (i + 1) * q = i * q + q
    BY <1>1, Monotonic
  <2>2. i * q \in Nat /\ c * q \in Nat
    BY <1>1
  <2>. QED  BY <1>1, <1>3, <1>4, <2>1, <2>2
<1>6. startIndex(n, c, i) \in Nat /\ averageSize(n, c, i) \in Nat
  <2>1. i * q \in Nat
    BY <1>1
  <2>. QED  BY <1>1, <1>3, <1>4, <2>1
<1>7. count(n, c, i) = averageSize(n, c, i)
  BY <1>5, <1>6 DEF count
<1>. QED  BY <1>3, <1>4, <1>6, <1>7 DEF q, r

-----------------------------------------------------------------------------
(* What the consumers get *)

\* With at least as many queues as consumers, whatever their numbers, the code
\* does not panic, every queue goes to exactly one consumer, and no consumer has
\* two queues more than another.
THEOREM QueuesAreDealtOut ==
  ASSUME NEW n \in Nat, NEW c \in Nat \ {0}, n >= c
  PROVE  /\ \A i \in 0..c-1 : ~Panics(n, c, i)
         /\ \A k \in 0..n-1 : \E i \in 0..c-1 : k \in allocateMessageQueueAveragely(n, c, i)
         /\ \A i, j \in 0..c-1 : i # j =>
              allocateMessageQueueAveragely(n, c, i) \cap allocateMessageQueueAveragely(n, c, j) = {}
         /\ \A i, j \in 0..c-1 : count(n, c, i) <= count(n, c, j) + 1
<1>. DEFINE q == n \div c  r == n % c
<1>1. /\ q \in Nat /\ r \in Nat /\ r < c /\ n = c * q + r
  BY Division
<1>2. \A i \in 0..c-1 :
        /\ count(n, c, i) = averageSize(n, c, i)
        /\ startIndex(n, c, i) \in Nat
        /\ averageSize(n, c, i) = IF i < r THEN q + 1 ELSE q
        /\ startIndex(n, c, i) = i * q + (IF i < r THEN i ELSE r)
  BY Shares
<1>. HIDE DEF q, r
<1>3. \A i \in 0..c-1 : \A k : k \in allocateMessageQueueAveragely(n, c, i) <=>
        /\ k \in Int /\ i * q + (IF i < r THEN i ELSE r) <= k
        /\ k < (i + 1) * q + (IF i < r THEN i + 1 ELSE r)
  <2>1. ASSUME NEW i \in 0..c-1
        PROVE  /\ (i + 1) * q = i * q + q /\ i * q \in Nat
    BY <1>1
  <2>. QED  BY <1>1, <1>2, <2>1 DEF allocateMessageQueueAveragely
<1>4. \A i \in 0..c-1 : ~Panics(n, c, i)
  BY <1>1, <1>2 DEF Panics
<1>5. ASSUME NEW k \in 0..n-1
      PROVE  \E i \in 0..c-1 : k \in allocateMessageQueueAveragely(n, c, i)
  <2>1. CASE k < r * (q + 1)
    <3>. DEFINE i == k \div (q + 1)
    <3>1. /\ i \in Nat /\ k % (q + 1) \in Nat /\ k % (q + 1) < q + 1
          /\ k = (q + 1) * i + (k % (q + 1))
      <4>1. q + 1 \in Nat \ {0} /\ k \in Nat
        BY <1>1
      <4>. QED  BY <4>1, Division
    <3>. HIDE DEF i
    <3>2. i < r
      <4>1. SUFFICES ASSUME i >= r PROVE FALSE
        BY <1>1, <3>1
      <4>2. r * (q + 1) <= i * (q + 1)
        BY <1>1, <3>1, <4>1, Monotonic
      <4>. DEFINE p == i * (q + 1)  s == r * (q + 1)  t == k % (q + 1)
      <4>3. p \in Int /\ s \in Int /\ t \in Nat /\ k = p + t
        BY <1>1, <3>1
      <4>4. s <= p /\ k < s
        BY <2>1, <4>2
      <4>. HIDE DEF p, s, t
      <4>. QED  BY <4>3, <4>4
    <3>3. i * q + i <= k /\ k < (i + 1) * q + (i + 1)
      <4>. DEFINE p == i * q  t == k % (q + 1)
      <4>1. /\ (i + 1) * q = p + q /\ p \in Int
            /\ t \in Nat /\ t < q + 1 /\ k = p + i + t
        BY <1>1, <3>1
      <4>2. p + i <= k /\ k < p + q + (i + 1)
        <5>. HIDE DEF p, t
        <5>. QED  BY <1>1, <3>1, <4>1
      <4>. QED  BY <4>1, <4>2
    <3>4. i \in 0..c-1 /\ k \in Int
      BY <1>1, <3>1, <3>2
    <3>5. k \in allocateMessageQueueAveragely(n, c, i)
      BY <1>3, <3>2, <3>3, <3>4
    <3>. QED  BY <3>4, <3>5
  <2>2. CASE k >= r * (q + 1)
    <3>1. q # 0
      BY <1>1
    <3>2. k - r \in Nat
      <4>1. r * (q + 1) = r * q + r /\ r * q \in Nat
        BY <1>1
      <4>. QED  BY <1>1, <2>2, <4>1
    <3>. DEFINE i == (k - r) \div q
    <3>3. /\ i \in Nat /\ (k - r) % q \in Nat /\ (k - r) % q < q
          /\ k - r = q * i + ((k - r) % q)
      BY <1>1, <3>1, <3>2, Division
    <3>. HIDE DEF i
    <3>4. i < c
      <4>1. SUFFICES ASSUME i >= c PROVE FALSE
        BY <1>1, <3>3
      <4>2. c * q <= i * q
        BY <1>1, <3>3, <4>1, Monotonic
      <4>. DEFINE p == i * q  s == c * q  t == (k - r) % q
      <4>3. p \in Int /\ s \in Int /\ t \in Nat /\ k - r = p + t /\ n = s + r
        BY <1>1, <3>3
      <4>4. s <= p
        BY <4>2
      <4>. HIDE DEF p, s, t
      <4>. QED  BY <1>1, <4>3, <4>4
    <3>5. i >= r
      <4>1. SUFFICES ASSUME i + 1 <= r PROVE FALSE
        BY <1>1, <3>3
      <4>2. (i + 1) * q <= r * q /\ (i + 1) * q = i * q + q
        BY <1>1, <3>3, <4>1, Monotonic
      <4>3. r * (q + 1) = r * q + r
        BY <1>1
      <4>. QED  BY <1>1, <2>2, <3>3, <4>2, <4>3
    <3>6. i * q + r <= k /\ k < (i + 1) * q + r
      <4>. DEFINE p == i * q  t == (k - r) % q
      <4>1. /\ (i + 1) * q = p + q /\ p \in Int
            /\ t \in Nat /\ t < q /\ k - r = p + t
        BY <1>1, <3>3
      <4>2. p + r <= k /\ k < p + q + r
        <5>. HIDE DEF p, t
        <5>. QED  BY <1>1, <4>1
      <4>. QED  BY <4>1, <4>2
    <3>7. i \in 0..c-1 /\ k \in Int /\ ~(i < r)
      BY <1>1, <3>3, <3>4, <3>5
    <3>8. k \in allocateMessageQueueAveragely(n, c, i)
      BY <1>3, <3>6, <3>7
    <3>. QED  BY <3>7, <3>8
  <2>. QED  BY <1>1, <2>1, <2>2
<1>6. ASSUME NEW i \in 0..c-1, NEW j \in 0..c-1, i < j
      PROVE  allocateMessageQueueAveragely(n, c, i) \cap allocateMessageQueueAveragely(n, c, j) = {}
  <2>1. (i + 1) * q <= j * q
    BY <1>1, <1>6, Monotonic
  <2>2. (i + 1) * q + (IF i < r THEN i + 1 ELSE r) <= j * q + (IF j < r THEN j ELSE r)
    <3>1. (i + 1) * q \in Nat /\ j * q \in Nat
      BY <1>1
    <3>. QED  BY <1>1, <1>6, <2>1, <3>1
  <2>3. SUFFICES ASSUME NEW k, k \in allocateMessageQueueAveragely(n, c, i),
                        k \in allocateMessageQueueAveragely(n, c, j)
                 PROVE  FALSE
    OBVIOUS
  <2>4. k \in Int /\ k < (i + 1) * q + (IF i < r THEN i + 1 ELSE r)
    BY <1>3, <2>3
  <2>5. j * q + (IF j < r THEN j ELSE r) <= k
    BY <1>3, <2>3
  <2>6. (i + 1) * q \in Nat /\ j * q \in Nat
    BY <1>1
  <2>. QED  BY <1>1, <2>2, <2>4, <2>5, <2>6
<1>7. \A i, j \in 0..c-1 : count(n, c, i) <= count(n, c, j) + 1
  BY <1>1, <1>2
<1>8. ASSUME NEW i \in 0..c-1, NEW j \in 0..c-1, i # j
      PROVE  allocateMessageQueueAveragely(n, c, i) \cap allocateMessageQueueAveragely(n, c, j) = {}
  BY <1>6, <1>8
<1>. QED  BY <1>4, <1>5, <1>7, <1>8

\* With fewer queues than consumers the share of every consumer that gets no
\* queue has a negative size, and make panics: the command ends without an answer
\* instead of an empty row for that consumer.
THEOREM SpareConsumersPanic ==
  ASSUME NEW n \in Nat \ {0}, NEW c \in Nat, n < c, NEW i \in n..c-1
  PROVE  Panics(n, c, i)
<1>1. n % c = n
  OBVIOUS
<1>2. averageSize(n, c, i) = 1
  BY DEF averageSize
<1>3. startIndex(n, c, i) = i + n
  BY <1>1, <1>2 DEF startIndex
<1>4. count(n, c, i) = -i
  BY <1>2, <1>3 DEF count
<1>. QED  BY <1>4 DEF Panics
=============================================================================
