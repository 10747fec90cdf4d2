--------------------------- MODULE Administration ---------------------------
(***************************************************************************)
(* The commands of the admin client and the operations of the provider on  *)
(* a deployment, and what they promise. The programs are those of the      *)
(* tables; FanOut runs any one of them, and every server answers, refuses  *)
(* or gets lost as it likes.                                               *)
(***************************************************************************)
EXTENDS FanOut, Deployment, AuthCommands, BrokerCommands, ConsumerCommands, MessageCommands

\* How many messages the provider reads at once.
CONSTANT nativeTopicMessageBrowseWorkers

ASSUME WorkersAssumption == nativeTopicMessageBrowseWorkers \in Nat \ {0, 1}

Provider == INSTANCE ProviderOperations

\* The switch over the names of the commands.
runNativeCommand == AuthCommands \cup BrokerCommands \cup ConsumerCommands \cup MessageCommands

AllPrograms == runNativeCommand \cup Provider!ProviderOperations

-----------------------------------------------------------------------------
(* How the functions of the code are put together, which is what the properties *)
(* rest on: TLC evaluates it for every program of the tables.                    *)

Handling(s) == {s.refused, s.lost}
Writes(s, names) == \E j \in DOMAIN s.reqs : s.reqs[j].kind = "write" /\ s.reqs[j].of \in names
Queries(s) == \E j \in DOMAIN s.reqs : s.reqs[j] = queryMessageDetailsFromBroker

\* A failure in step h of p leaves step e.
MayLeave(p, h, e) == "leave" \in Handling(p[h]) /\ e \in h .. h + p[h].leaves
NeverLeft(p, e) == \A h \in 1..e : ~MayLeave(p, h, e)

\* Each target is written, or the command fails or leaves the step.
Firm(s) == ~s.until /\ Handling(s) \subseteq {"stop", "later", "leave"}

\* Each target has a row, or the command fails or leaves the step.
Complete(s) ==
    /\ ~s.until /\ "pass" \notin Handling(s)
    /\ \A j \in DOMAIN s.reqs : ~s.reqs[j].ends /\ s.reqs[j].error # "drop"

Messages == {"consumption", "message"}
RouteTopics == {"retry topic", "dlq topic"}
Exports == {"configs.json", "metrics.json", "topic.json", "subscriptionGroup.json",
            "metadata.json"}

\* No message is consumed or sent after a query that goes on without a row.
ASSUME QueriesAssumption ==
    \A p \in Programs : \A k \in DOMAIN p : Writes(p[k], Messages) =>
        \A q \in 1..k-1 : Queries(p[q]) => p[q].noRow # "on" /\ NeverLeft(p, q)

\* The masters come right before the name servers; who leaves them, leaves both.
ASSUME RoutesAssumption ==
    \A p \in Programs : \A k \in DOMAIN p \ {1} :
        p[k].who = "name servers" /\ Writes(p[k], RouteTopics) =>
            /\ Firm(p[k-1]) /\ 1 \in Due(p[k-1])
            /\ \A h \in 1..k-1 : MayLeave(p, h, k-1) => MayLeave(p, h, k)

\* What an export reads, it reads from every broker that is listed.
ASSUME ExportsAssumption ==
    \A p \in Programs : \A k \in DOMAIN p : Writes(p[k], Exports) =>
        \A e \in 1..k-1 : ~p[e].until => Complete(p[e]) /\ NeverLeft(p, e)

-----------------------------------------------------------------------------
(* Properties *)

\* A message is consumed, or sent again, only when one of the queries before it
\* found it.
MessagesAreFoundFirst ==
    \A k \in 1..at : WroteOf(k, Messages) =>
        \A q \in 1..k-1 : Queries(program[q]) => \E i \in DOMAIN targets[q] : HasRow(q, i)

\* The name servers forget a retry or dead letter topic only when every master that
\* was listed has deleted it, whatever failed before and although no error is told.
RoutesOutliveTopics ==
    \A k \in 2..at : program[k].who = "name servers" /\ WroteOf(k, RouteTopics) =>
        \A i \in DOMAIN targets[k-1] : Wrote(k-1, i, 1)

\* An export that is written covers every broker that was listed: none that failed
\* is left out of the file.
ExportsAreComplete ==
    \A k \in 1..at : WroteOf(k, Exports) =>
        \A e \in 1..k-1 : ~program[e].until => \A i \in DOMAIN targets[e] : HasRow(e, i)
=============================================================================
