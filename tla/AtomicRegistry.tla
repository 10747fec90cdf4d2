-------------------------- MODULE AtomicRegistry --------------------------
(***************************************************************************)
(* What the cluster registry promises its clients: registrations, updates  *)
(* and deletions take effect one at a time, each at once or not at all,    *)
(* and a restart keeps what was answered. A restart may find a change that *)
(* was under way and never answered, and it may find the registry lost.    *)
(***************************************************************************)
EXTENDS Functions

CONSTANTS
    Requests,    \* management requests, each made once
    Base,        \* ids of the clusters of the startup configuration
    Nothing      \* the registry is lost: its file does not parse

VARIABLES
    request,     \* what each request asks for
    managed,     \* the registered clusters: id -> definition, or Nothing
    answer       \* the answer of each request

Without(f, id) == Restrict(f, DOMAIN f \ {id})
With(f, id, def) == [x \in DOMAIN f \cup {id} |-> IF x = id THEN def ELSE f[x]]

\* The answer to a request on the registry f, and the registry it leaves.
Verdict(q, f) ==
    LET known == Base \cup DOMAIN f IN
    IF q.kind # "register" /\ q.old \notin known THEN "notFound"
    ELSE IF q.kind # "register" /\ q.old \in Base THEN "immutable"
    ELSE IF q.kind = "register" /\ q.id \in known THEN "exists"
    ELSE IF q.kind = "update" /\ q.id \in known \ {q.old} THEN "exists"
    ELSE "ok"

After(q, f) ==
    CASE q.kind = "register" -> With(f, q.id, q.def)
      [] q.kind = "update" -> With(Without(f, q.old), q.id, q.def)
      [] q.kind = "delete" -> Without(f, q.old)

Answered(r, a) == answer[r] = "none" /\ answer' = [answer EXCEPT ![r] = a]

\* The request is answered by the registry as it is at that moment.
Serve(r) ==
    /\ managed # Nothing
    /\ Answered(r, Verdict(request[r], managed))
    /\ managed' = IF answer'[r] = "ok" THEN After(request[r], managed) ELSE managed

\* 401, 403, 400 or 503: the request is not carried out.
Fail(r) == (Answered(r, "refused") \/ Answered(r, "failed")) /\ UNCHANGED managed

\* A crash during the save of an unanswered request: it may be found done, or
\* the registry may be found lost. Nothing else ever happens to the registry.
Crash ==
    /\ UNCHANGED answer
    /\ \/ managed' = Nothing
       \/ /\ managed # Nothing
          /\ \E r \in Requests :
               /\ answer[r] = "none" /\ Verdict(request[r], managed) = "ok"
               /\ managed' = After(request[r], managed)

ARInit == managed # Nothing /\ answer = [r \in Requests |-> "none"]
ARNext == UNCHANGED request /\ (Crash \/ \E r \in Requests : Serve(r) \/ Fail(r))
ARSpec == ARInit /\ [][ARNext]_<<request, managed, answer>>
=============================================================================
