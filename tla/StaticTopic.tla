---------------------------- MODULE StaticTopic ----------------------------
(***************************************************************************)
(* Static topics (internal/rocketmq/goadmin/remoting_client.go): logical   *)
(* queues that keep their number while the physical queues behind them     *)
(* move between brokers. updateStaticTopic creates a topic or adds queues, *)
(* remappingStaticTopic moves queues to other brokers. Each command reads  *)
(* the mapping of every master, computes a new one, and writes it to one   *)
(* master after the other; nothing undoes the writes before a failure.     *)
(*                                                                         *)
(* Brokers are numbers, ordered as their names are. A logical queue is     *)
(* hosted as the sequence of its generations, each a physical queue of a   *)
(* broker; the last one is its leader's. The generation number is the      *)
(* place in that sequence; offsets and times are left out, and the read    *)
(* and write queue numbers, always changed together, are one number.       *)
(*                                                                         *)
(* One command runs at a time. A command whose checks fail, or that cannot *)
(* read, changes nothing and is a stuttering step.                         *)
(***************************************************************************)
EXTENDS TopicBrokers, SequencesExt

CONSTANTS
    ClusterOf,    \* the cluster of each broker
    MaxQueues     \* bound on the queues asked for

ASSUME QueuesAssumption == MaxQueues \in Nat

VARIABLES
    stored,    \* the configs of the masters that hold the topic, by broker
    table,     \* each broker in the name server: "master", "slave" or "gone"
    plan       \* the command that runs, or the last one

staticVars == <<stored, table, plan, commands, faults, absences>>

LogicQueues == 0..(MaxQueues - 1)
Items == [broker : Brokers, queue : Nat]

\* staticTopicConfigAndQueueMapping, as far as it is modelled.
IsConfig(c) ==
    /\ DOMAIN c = {"write", "epoch", "total", "hosted"}
    /\ c.write \in Nat /\ c.epoch \in Nat /\ c.total \in 0..MaxQueues
    /\ DOMAIN c.hosted \subseteq LogicQueues
    /\ \A q \in DOMAIN c.hosted : c.hosted[q] \in Seq(Items) \ {<<>>}

\* newStaticTopicConfig
EmptyConfig(total, epoch) ==
    [write |-> 0, epoch |-> epoch, total |-> total, hosted |-> [q \in {} |-> <<>>]]

-----------------------------------------------------------------------------
(* What a command reads off the configs of the masters *)

Hosts(configs, b, q) == b \in DOMAIN configs /\ q \in DOMAIN configs[b].hosted

\* The last generation of q, as b knows it, is on b.
Leads(configs, b, q) ==
    Hosts(configs, b, q) /\ Last(configs[b].hosted[q]).broker = b

KnownQueues(configs) == {q \in LogicQueues : \E b \in DOMAIN configs : Leads(configs, b, q)}
LeaderOf(configs, q) == CHOOSE b \in DOMAIN configs : Leads(configs, b, q)
LeaderItems(configs, q) == configs[LeaderOf(configs, q)].hosted[q]
QueuesLedBy(configs, b) == {q \in LogicQueues : Leads(configs, b, q)}

\* Mutant: the epochs are not compared.
OneTotal(configs) ==
    \A a, b \in DOMAIN configs : configs[a].total = configs[b].total

\* staticTopicMaxEpochAndQueueNum: one epoch and one number of queues.
OneVersion(configs) ==
    \A a, b \in DOMAIN configs :
        configs[a].epoch = configs[b].epoch /\ configs[a].total = configs[b].total

\* The checks of buildStaticTopicGlobalIDMap and buildStaticTopicGlobalQueues.
OneLeaderEach(configs) ==
    \A a, b \in DOMAIN configs : \A p, q \in LogicQueues :
        /\ Leads(configs, a, q) /\ Leads(configs, b, q) => a = b
        /\ /\ Leads(configs, a, p) /\ Leads(configs, a, q)
           /\ Last(configs[a].hosted[p]) = Last(configs[a].hosted[q])
           => p = q

-----------------------------------------------------------------------------
(* The allocators: the next queue goes to a broker that has the fewest *)

\* The brokers in order: fewer queues before come first, then the lower name.
Preceding(x, brokers, before) ==
    {y \in brokers : before[y] < before[x] \/ (before[y] = before[x] /\ y < x)}
InOrder(brokers, before) ==
    [i \in 1..Cardinality(brokers) |->
       CHOOSE x \in brokers : Cardinality(Preceding(x, brokers, before)) = i - 1]

\* Mutant: every broker counts as least loaded.
AnyBrokers(loads, before) == InOrder(DOMAIN loads, before)

\* freshState; the allocator of updateStaticTopic ignores the loads before (all 0).
LeastBrokers(loads, before) ==
    InOrder({b \in DOMAIN loads : \A c \in DOMAIN loads : loads[b] <= loads[c]}, before)

\* The broker at the place after current, counted round.
Deal(s, least, current) ==
    LET index == (current % Len(least)) + 1
    IN  [loads |-> [s.loads EXCEPT ![least[index]] = @ + 1],
         least |-> RemoveAt(least, index),
         current |-> current,
         dealt |-> Append(s.dealt, least[index])]

DealFresh(s, least) == Deal(s, least, Len(least) - 1)

\* nextBroker, and the count of upToNum.
NextBroker(s, before) ==
    IF s.least = <<>> THEN DealFresh(s, LeastBrokers(s.loads, before))
                      ELSE Deal(s, s.least, s.current)

NoneDealt(loads) == [loads |-> loads, least |-> <<>>, current |-> 0, dealt |-> <<>>]

\* upToNum: n queues more, the brokers they go to in their order.
UpToNum(n, loads, before) ==
    LET state[i \in 0..n] == IF i = 0 THEN NoneDealt(loads) ELSE NextBroker(state[i - 1], before)
    IN  state[n]

Rank(q, queues) == Cardinality({p \in queues : p < q})

-----------------------------------------------------------------------------
(* updateStaticTopic *)

\* The broker of each new queue. Numbering goes on after as many queues as are
\* known; a queue that is known keeps its broker.
NewQueues(configs, targets, n) ==
    LET known == KnownQueues(configs)
        loads == [b \in targets \cup DOMAIN configs |->
                    Cardinality(QueuesLedBy(configs, b))]
        dealt == UpToNum(n - Cardinality(known), loads, [b \in DOMAIN loads |-> 0]).dealt
    IN  [q \in Cardinality(known)..(n - 1) \ known |-> dealt[q - Cardinality(known) + 1]]

\* buildStaticTopicCreateOrUpdateWrapper, new being the broker of each new queue
UpdatedConfigs(configs, new, n, epoch) ==
    LET Mine(b) == {q \in DOMAIN new : new[q] = b}
        Base(b) == IF b \in DOMAIN configs THEN configs[b] ELSE EmptyConfig(0, epoch)
        Hosted(b, q) == IF q \in Mine(b)
                          THEN <<[broker |-> b, queue |-> Base(b).write + Rank(q, Mine(b))]>>
                          ELSE Base(b).hosted[q]
    IN  [b \in DOMAIN configs \cup {new[q] : q \in DOMAIN new} |->
           [write |-> Base(b).write + Cardinality(Mine(b)),
            epoch |-> epoch,
            total |-> n,
            hosted |-> [q \in DOMAIN Base(b).hosted \cup Mine(b) |-> Hosted(b, q)]]]

UpdateAllowed(configs, n) ==
    /\ OneVersion(configs) /\ OneLeaderEach(configs)
    /\ n > Cardinality(KnownQueues(configs))

-----------------------------------------------------------------------------
(* remappingStaticTopic *)

\* The number of queues each target is to have.
Expected(configs, targets, total) ==
    UpToNum(total, [b \in targets |-> 0],
            [b \in targets |-> Cardinality(QueuesLedBy(configs, b))]).loads

\* The places of the targets still to be dealt out, once every target kept what it
\* may keep.
Seats(configs, expected) ==
    UNION {{b} \X (Cardinality(QueuesLedBy(configs, b)) + 1 .. expected[b]) : b \in DOMAIN expected}

\* A leader that is a target keeps its first queues, up to what it is to have.
Stays(configs, expected, q, b) ==
    b \in DOMAIN expected /\ Rank(q, QueuesLedBy(configs, b)) < expected[b]

WaitingQueues(configs, expected) ==
    {q \in KnownQueues(configs) : ~Stays(configs, expected, q, LeaderOf(configs, q))}

\* The seats before s, in the order of brokers.
SeatsBefore(s, seats) == {t \in seats : t[1] < s[1] \/ (t[1] = s[1] /\ t[2] < s[2])}

\* The queues that move, and where to: to the seats, one after the other.
Matched(seats, waiting) ==
    [q \in {w \in waiting : Rank(w, waiting) < Cardinality(seats)} |->
       (CHOOSE s \in seats : Cardinality(SeatsBefore(s, seats)) = Rank(q, waiting))[1]]

Moves(configs, expected) ==
    Matched(Seats(configs, expected), WaitingQueues(configs, expected))

\* Mutant: a broker whose queue leaves is not told.
MappedInOnly(moves, configs, b) == {q \in DOMAIN moves : moves[q] = b}

\* The queues whose items change on b: those it gains, and those it loses.
Touched(moves, configs, b) ==
    {q \in DOMAIN moves : b \in {moves[q], LeaderOf(configs, q)}}

\* Mutant: the raised WriteQueueNums is not kept for the next queue.
SharedPhysicalQueue(config, b, q, gained) == [broker |-> b, queue |-> config.write]

\* WriteQueueNums - 1, after WriteQueueNums was raised for q.
PhysicalQueue(config, b, q, gained) ==
    [broker |-> b, queue |-> config.write + Rank(q, gained)]

\* buildStaticTopicRemappingWrapper
RemappedConfigs(configs, moves, total, epoch) ==
    LET Gained(b) == {q \in DOMAIN moves : moves[q] = b}
        Base(b) == IF b \in DOMAIN configs THEN configs[b] ELSE EmptyConfig(total, epoch)
        NewItems(q, to) == Append(LeaderItems(configs, q),
                                  PhysicalQueue(Base(to), to, q, Gained(to)))
        Hosted(b, q) == IF q \in Touched(moves, configs, b) THEN NewItems(q, moves[q])
                                                         ELSE Base(b).hosted[q]
    IN  [b \in DOMAIN configs \cup Range(moves) |->
           [write |-> Base(b).write + Cardinality(Gained(b)),
            epoch |-> epoch,
            total |-> total,
            hosted |-> [q \in DOMAIN Base(b).hosted \cup Touched(moves, configs, b)
                          |-> Hosted(b, q)]]]

\* The number of queues, of which OneVersion leaves one.
Total(configs) == configs[CHOOSE b \in DOMAIN configs : TRUE].total

\* There is a queue for every seat.
EnoughQueues(configs, expected) ==
    Cardinality(Seats(configs, expected)) <= Cardinality(WaitingQueues(configs, expected))

RemapAllowed(configs, targets) ==
    /\ \A b \in targets : table[b] # "gone"
    /\ DOMAIN configs # {}
    /\ OneVersion(configs) /\ OneLeaderEach(configs)
    /\ EnoughQueues(configs, Expected(configs, targets, Total(configs)))

-----------------------------------------------------------------------------
(* The two commands *)

\* fetchStaticTopicConfigAll: a broker without a master address is skipped.
Fetched == Restrict(stored, {b \in DOMAIN stored : table[b] = "master"})

\* completeStaticTopicNoTargetBrokers: the other brokers of the same clusters
\* get a config without queues.
Completed(configs, total, epoch) ==
    LET clusters == {ClusterOf[b] : b \in {x \in DOMAIN configs : table[x] # "gone"}}
        listed == {b \in Brokers : table[b] # "gone" /\ ClusterOf[b] \in clusters}
    IN  [b \in DOMAIN configs \cup listed |->
           IF b \in DOMAIN configs THEN configs[b] ELSE EmptyConfig(total, epoch)]

\* newEpoch: the clock, or 1000 more than the latest that was read. A broker that was
\* not read may hold that one already, so that within a second an epoch may repeat.
Epochs == {e \in 1..(commands + 1) : \A b \in DOMAIN Fetched : Fetched[b].epoch < e}

\* The name server table is read once; todo are the brokers still to be written.
\* before and repeated are history: what was stored, and whether this command or one
\* before it took an epoch that a broker held already.
Starts(kind, targets, n, epoch, configs) ==
    /\ plan' = [kind |-> kind, targets |-> targets, queues |-> n, pc |-> "writing",
                configs |-> configs, todo |-> DOMAIN configs,
                table |-> table, before |-> stored, epoch |-> epoch,
                repeated |-> \/ plan.repeated
                             \/ \E b \in DOMAIN stored : stored[b].epoch = epoch]
    /\ commands' = commands + 1
    /\ UNCHANGED <<stored, table, faults, absences>>

UpdateStaticTopic(targets, n) ==
    /\ plan.pc # "writing" /\ commands < MaxCommands
    /\ UpdateAllowed(Fetched, n)
    /\ \E new \in {NewQueues(Fetched, targets, n)}, epoch \in Epochs :
           Starts("update", targets, n, epoch,
                  Completed(UpdatedConfigs(Fetched, new, n, epoch), n, epoch))

RemappingStaticTopic(targets) ==
    /\ plan.pc # "writing" /\ commands < MaxCommands
    /\ RemapAllowed(Fetched, targets)
    /\ \E n \in {Total(Fetched)} :
       \E moves \in {Moves(Fetched, Expected(Fetched, targets, n))}, epoch \in Epochs :
           Starts("remap", targets, n, epoch,
                  Completed(RemappedConfigs(Fetched, moves, n, epoch), n, epoch))

Reachable(b) == plan.table[b] = "master"
Ended(todo) == IF todo = {} THEN "ok" ELSE "writing"

\* The masters are written in the order of the names of their brokers.
Turn(b) == plan.pc = "writing" /\ b \in plan.todo /\ \A x \in plan.todo : b <= x

Stores(b) == stored' = [x \in DOMAIN stored \cup {b} |->
                          IF x = b THEN plan.configs[b] ELSE stored[x]]

\* updateStaticTopicConfigMappingAll writes the next master.
WriteMaster(b) ==
    /\ Turn(b) /\ Reachable(b)
    /\ Stores(b)
    /\ plan' = [plan EXCEPT !.todo = @ \ {b}, !.pc = Ended(plan.todo \ {b})]
    /\ UNCHANGED <<table, commands, faults, absences>>

\* The broker has no master address.
BrokerHasNoMaster(b) ==
    /\ Turn(b) /\ ~Reachable(b)
    /\ plan' = [plan EXCEPT !.pc = "failed"]
    /\ UNCHANGED <<stored, table, commands, faults, absences>>

\* The broker cannot be reached, refuses, or its answer is lost.
WriteFails(b) ==
    /\ Turn(b) /\ Reachable(b)
    /\ faults < MaxFaults
    /\ Stores(b) \/ UNCHANGED stored
    /\ plan' = [plan EXCEPT !.pc = "failed"]
    /\ faults' = faults + 1
    /\ UNCHANGED <<table, commands, absences>>

-----------------------------------------------------------------------------
(* The name server *)

BrokerLeaves(b) ==
    /\ absences < MaxAbsences /\ table[b] = "master"
    /\ \E t \in {"slave", "gone"} : table' = [table EXCEPT ![b] = t]
    /\ absences' = absences + 1
    /\ UNCHANGED <<stored, plan, commands, faults>>

BrokerReturns(b) ==
    /\ table[b] # "master"
    /\ table' = [table EXCEPT ![b] = "master"]
    /\ UNCHANGED <<stored, plan, commands, faults, absences>>

NoConfigs == [b \in {} |-> EmptyConfig(0, 0)]

StaticInit ==
    /\ stored = NoConfigs
    /\ table = [b \in Brokers |-> "master"]
    /\ plan = [kind |-> "none", targets |-> {}, queues |-> 0, pc |-> "idle",
               configs |-> NoConfigs, todo |-> {},
               table |-> table, before |-> stored, epoch |-> 0, repeated |-> FALSE]
    /\ commands = 0 /\ faults = 0 /\ absences = 0

StaticNext ==
    \/ \E targets \in (SUBSET Brokers) \ {{}} :
           \/ \E n \in 1..MaxQueues : UpdateStaticTopic(targets, n)
           \/ RemappingStaticTopic(targets)
    \/ \E b \in Brokers : \/ WriteMaster(b) \/ BrokerHasNoMaster(b) \/ WriteFails(b)
                          \/ BrokerLeaves(b) \/ BrokerReturns(b)

StaticSpec == StaticInit /\ [][StaticNext]_staticVars
-----------------------------------------------------------------------------
(* Properties *)

\* Type invariant: what brokers hold and commands write are configs of the topic.
StaticTypeOK ==
    /\ DOMAIN stored \subseteq Brokers
    /\ \A b \in DOMAIN stored : IsConfig(stored[b])
    /\ table \in [Brokers -> {"master", "slave", "gone"}]
    /\ plan.pc \in {"idle", "writing", "ok", "failed"}
    /\ \A b \in DOMAIN plan.configs : IsConfig(plan.configs[b])
    /\ plan.todo \subseteq Brokers
    /\ commands \in 0..MaxCommands /\ faults \in 0..MaxFaults /\ absences \in 0..MaxAbsences

\* One version on all brokers, and each queue of the topic led by one of them.
Whole(configs) ==
    /\ OneVersion(configs) /\ OneLeaderEach(configs)
    /\ \A b \in DOMAIN configs : KnownQueues(configs) = 0..(configs[b].total - 1)

Loads(configs, b) == Cardinality(QueuesLedBy(configs, b))
AllMasters(t) == \A b \in Brokers : t[b] = "master"

\* Whatever fails and whoever is away, a broker never uses one physical queue
\* for two logical queues (numbering from WriteQueueNums, which only grows).
PhysicalQueuesAreExclusive ==
    \A b \in DOMAIN stored : \A p, q \in DOMAIN stored[b].hosted :
        \A i \in DOMAIN stored[b].hosted[p], j \in DOMAIN stored[b].hosted[q] :
            /\ stored[b].hosted[p][i] = stored[b].hosted[q][j]
            /\ stored[b].hosted[p][i].broker = b
            => p = q /\ i = j

\* updateStaticTopic on a whole mapping that it sees in full: the mapping is
\* whole again with the queues asked for, the old queues did not change, and
\* the new ones level the loads.
UpdatesExtendTheTopic ==
    /\ StaticTypeOK
    /\ LET old == plan.before
           new == stored
       IN  /\ plan.kind = "update" /\ plan.pc = "ok"
           /\ Whole(old) /\ AllMasters(plan.table)
           => /\ Whole(new) /\ KnownQueues(new) = 0..(plan.queues - 1)
              /\ \A q \in KnownQueues(old) :
                     /\ LeaderOf(new, q) = LeaderOf(old, q)
                     /\ LeaderItems(new, q) = LeaderItems(old, q)
              /\ \A b \in DOMAIN new, c \in plan.targets :
                     Loads(new, b) > Cardinality(KnownQueues(old) \cap QueuesLedBy(new, b))
                     => Loads(new, b) <= Loads(new, c) + 1

\* remappingStaticTopic, also after failures and while brokers are away, unless an
\* epoch was taken twice: what it answers for is whole, led by its targets in equal shares, and the history of
\* each queue is the old one or the old one with one generation more.
RemapsShareTheTopic ==
    LET seen == Restrict(stored, DOMAIN plan.configs)
        old == Restrict(plan.before,
                 {b \in DOMAIN plan.before : plan.table[b] = "master"})
    IN  plan.kind = "remap" /\ plan.pc = "ok" /\ ~plan.repeated
        => /\ OneVersion(seen) /\ OneLeaderEach(seen)
           /\ KnownQueues(seen) = KnownQueues(old)
           /\ Cardinality(KnownQueues(seen)) = plan.queues
           /\ \A q \in KnownQueues(seen) :
                  /\ LeaderOf(seen, q) \in plan.targets
                  /\ \/ LeaderItems(seen, q) = LeaderItems(old, q)
                     \/ Front(LeaderItems(seen, q)) = LeaderItems(old, q)
           /\ \A b, c \in plan.targets : Loads(seen, b) <= Loads(seen, c) + 1

\* Brokers hold mappings of different epochs: those of different commands.
Torn == \E a, b \in DOMAIN stored : stored[a].epoch # stored[b].epoch

\* A mapping that a failed command left torn is not built upon: while all
\* masters are listed, the next commands are refused.
TornTopicsAreRefused ==
    [][Torn /\ AllMasters(table) /\ plan.pc # "writing"
       => UNCHANGED <<stored, plan>>]_staticVars

\* What updateStaticTopic says of itself: it creates or extends the topic, so
\* each of the queues it was asked for is there when it has answered.
UpdatedTopicsAreComplete ==
    plan.kind = "update" /\ plan.pc = "ok"
    => KnownQueues(stored) = 0..(plan.queues - 1)
=============================================================================
