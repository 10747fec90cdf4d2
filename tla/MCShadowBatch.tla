--------------------------- MODULE MCShadowBatch ---------------------------
EXTENDS ShadowBatch

The(c, fixture) ==
    LET s == CHOOSE t \in defaultM6ShadowSamples : t.command = c
    IN  [command |-> c, serial |-> s.serial, fixture |-> fixture]
Batch(concurrency, providers, samples) ==
    [concurrency |-> concurrency, providers |-> providers, samples |-> samples]

\* mqadmin falls back from nothing, nor does the native provider; the sidecar's falls
\* back from one transport, auto from two.
mqadmin == 0
native == 0
sidecar == 1
auto == 2

\* Every sample by itself, and commands that follow each other on one fixture.
Alone(c) == Batch(1, <<mqadmin, native, auto>>, <<The(c, 1)>>)
InTurnOn(c, d) == Batch(0, <<mqadmin, sidecar>>, <<The(c, 1), The(d, 1)>>)
\* Fixtures of their own for samples that run together, a worker taking a second one.
Together(samples) == Batch(2, <<mqadmin, auto>>, samples)

MCBatches ==
    {Alone(c) : c \in Commands}
    \cup {InTurnOn("wipeWritePerm", "addWritePerm"), InTurnOn("createAcl", "deleteAcl"),
          InTurnOn("exportConfigs", "exportConfigs")}
    \cup {Together(<<The("updateTopic", 1), The("exportMetadata", 2)>>),
          Together(<<The("topicStatus", 1), The("deleteKvConfig", 2), The("topicList", 3)>>)}
=============================================================================
