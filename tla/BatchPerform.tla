---------------------------- MODULE BatchPerform ----------------------------
(***************************************************************************)
(* bh_batch_perform (src/blobhttp_core.cpp) on any number of threads, each *)
(* with batches of its own, over the process-wide limiters they share: the *)
(* per-host registry, an LRU pool, and the global limiter, re-created when *)
(* its rate spec changes.                                                  *)
(*                                                                         *)
(* Both limiter lookups return a bare pointer after their mutex is         *)
(* released, and the pointer is used later (AcquireRateLimit may sleep on  *)
(* it), so a lookup and the use of its result are two steps.  Time and     *)
(* tokens are in AcquireRateLimit; here a limiter is an identity and the   *)
(* rate it was built with.  An LLM call (PostChatCompletion) takes the     *)
(* same steps as a batch of one request.                                   *)
(*                                                                         *)
(* A request is what ResolveConfig made of it: its host, the per-host and  *)
(* global rate specs, max_concurrent, and whether resolving it (Vault,     *)
(* method, BuildSession) throws.                                           *)
(***************************************************************************)
EXTENDS LruList, FiniteSets

CONSTANTS
    Threads,      \* the threads that call bh_batch_perform
    Hosts,        \* host names, the keys of the registry
    Batches,      \* the batches a thread may perform: sequences of requests
    MaxHosts,     \* capacity of the registry: 200 in the code
    MaxBatches    \* bound: batches each thread performs

RequestType ==
    [host : Hosts, spec : STRING, gspec : STRING, conc : Int, resolves : BOOLEAN]

ASSUME BatchAssumption ==
    /\ Batches \subseteq Seq(RequestType)
    /\ MaxHosts \in Nat /\ MaxHosts > 0
    /\ MaxBatches \in Nat

Default == "20/s"     \* DEFAULT_RATE_LIMIT
Null == 0             \* nullptr
NoGlobal == [id |-> Null, spec |-> ""]

VARIABLES
    registry,     \* the registry's list: host, identity of the limiter, its rate
    global,       \* g_global_limiter and g_global_limiter_spec
    made,         \* limiters built so far; their identities
    th            \* each thread's batch and locals

shared == <<registry, global, made>>
vars == <<shared, th>>

\* A thread outside the library that has begun n calls.
Idle(n) ==
    [pc        |-> "idle",     \* where the thread is
     batch     |-> <<>>,       \* the requests it is performing
     i         |-> 1,          \* the loop index
     start     |-> 1,          \* the first request of the sub-batch
     ptr       |-> Null,       \* the limiter pointer it holds
     results   |-> 0,          \* results written, in request order
     performed |-> n,          \* calls it has begun
     sent      |-> <<>>,       \* history: the requests sent, in order
     tokens    |-> 0]          \* history: requests through both limiters

Init ==
    /\ registry = <<>>
    /\ global = NoGlobal
    /\ made = 0
    /\ th = [t \in Threads |-> Idle(0)]

-----------------------------------------------------------------------------
(* The batch *)

At(t, label) == th[t].pc = label

Batch(t) == th[t].batch
Request(t) == Batch(t)[th[t].i]

\* max_concurrent is the first request's, and at least one.
MaxConcurrent_Unlimited(t) == Len(Batch(t))
MaxConcurrent(t) == IF Batch(t)[1].conc < 1 THEN 1 ELSE Batch(t)[1].conc

\* Where the next sub-batch starts.
NextStart(t) == th[t].start + MaxConcurrent(t)

\* The last request of the sub-batch.
End_Overlap(t) == IF NextStart(t) < Len(Batch(t)) THEN NextStart(t) ELSE Len(Batch(t))
End(t) == IF NextStart(t) - 1 < Len(Batch(t)) THEN NextStart(t) - 1 ELSE Len(Batch(t))

\* A step that only moves a thread.
Goto(t, label) == th' = [th EXCEPT ![t].pc = label] /\ UNCHANGED shared

\* An exception: bh_batch_perform sets the error and returns -1.
Throw(t) == Goto(t, "failed")

Begin(t) ==
    /\ At(t, "idle")
    /\ th[t].performed < MaxBatches
    /\ \E b \in Batches :
         th' = [th EXCEPT ![t] = [Idle(@.performed + 1) EXCEPT !.batch = b, !.pc = "resolve"]]
    /\ UNCHANGED shared

\* Every request is resolved, and its session built, before any is sent.
Resolved(t) == \A k \in 1..Len(Batch(t)) : Batch(t)[k].resolves

Resolve(t) ==
    /\ At(t, "resolve")
    /\ IF ~Resolved(t) THEN Throw(t)
       ELSE Goto(t, IF Batch(t) = <<>> THEN "done" ELSE "global")

-----------------------------------------------------------------------------
(* The limiters *)

\* The global limiter serves a spec until another one replaces it.
Serves_Never(spec) == FALSE
Serves(spec) == global.id # Null /\ global.spec = spec

\* GlobalLimiter: no spec, no limiter; a spec other than the current one
\* replaces the limiter, and the old one is freed.
GlobalLimiter(t) ==
    /\ At(t, "global")
    /\ Request(t).gspec \notin {"", "bad"}
    /\ global' = IF Serves(Request(t).gspec) THEN global
                 ELSE [id |-> made + 1, spec |-> Request(t).gspec]
    /\ made' = IF global' = global THEN made ELSE made + 1
    /\ th' = [th EXCEPT ![t].ptr = global'.id, ![t].pc = "useGlobal"]
    /\ UNCHANGED registry

NoGlobalLimiter(t) == At(t, "global") /\ Request(t).gspec = "" /\ Goto(t, "host")

GlobalSpecThrows(t) == At(t, "global") /\ Request(t).gspec = "bad" /\ Throw(t)

\* AcquireRateLimit(global): the pointer is dereferenced.
UseGlobal(t) == At(t, "useGlobal") /\ Goto(t, "host")

\* RateLimiterRegistry::GetOrCreate on a spec that parses to a positive rate:
\* the limiter of the host, moved to the front, or a new one with that rate.
GetOrCreate(t, host, spec, label) ==
    LET room == IF Len(registry) >= MaxHosts THEN DropLast(registry) ELSE registry
    IN  /\ registry' = IF HasKey(registry, host)
                       THEN MoveToFront(registry, PositionOf(registry, host))
                       ELSE PushFront(room, [key |-> host, id |-> made + 1, spec |-> spec])
        /\ made' = IF HasKey(registry, host) THEN made ELSE made + 1
        /\ th' = [th EXCEPT ![t].ptr = registry'[1].id, ![t].pc = label]
        /\ UNCHANGED global

\* The rate a host's limiter is asked for.
Asked_Default(t) == Default
Asked(t) == Request(t).spec

HostLimiter(t) ==
    /\ At(t, "host")
    /\ Request(t).spec \notin {"none", "bad"}
    /\ GetOrCreate(t, Request(t).host, Asked(t), "useHost")

\* The loop over the sub-batch goes on, or the sub-batch is sent.
More_Early(t) == th[t].i + 1 < End(t)
More(t) == th[t].i < End(t)

NextToken(t) ==
    /\ th' = [th EXCEPT ![t].tokens = @ + 1,
                        ![t].i = IF More(t) THEN @ + 1 ELSE @,
                        ![t].pc = IF More(t) THEN "global" ELSE "multi"]
    /\ UNCHANGED shared

\* "none" and a zero rate: GetOrCreate returns nullptr without touching the pool.
NoHostLimiter(t) == At(t, "host") /\ Request(t).spec = "none" /\ NextToken(t)

\* The error is swallowed and the token asked for again.
HostSpecThrows_Retry(t) == At(t, "host") /\ Request(t).spec = "bad" /\ Goto(t, "global")
HostSpecThrows(t) == At(t, "host") /\ Request(t).spec = "bad" /\ Throw(t)

\* AcquireRateLimit(host): the pointer is dereferenced.
UseHost(t) == At(t, "useHost") /\ NextToken(t)

-----------------------------------------------------------------------------
(* Sending and recording *)

\* MultiPerform: requests start to End go out together and are all answered.
MultiPerform(t) ==
    /\ At(t, "multi")
    /\ LET n == End(t) - th[t].start + 1 IN
         th' = [th EXCEPT ![t].sent = @ \o [k \in 1..n |-> th[t].start + k - 1],
                          ![t].i = th[t].start,
                          ![t].pc = "record"]
    /\ UNCHANGED shared

\* RecordResponseStats looks the host up again, with the default spec.
RecordLimiter(t) ==
    /\ At(t, "record")
    /\ GetOrCreate(t, Request(t).host, Default, "useRecord")

\* RecordResponse and RecordThrottle: the pointer is dereferenced.
UseRecord(t) == At(t, "useRecord") /\ Goto(t, "snapshot")

\* GlobalLimiterSnapshot, whatever the request's own global spec.
Snapshot(t, label) ==
    /\ th' = [th EXCEPT ![t].ptr = global.id, ![t].pc = label]
    /\ UNCHANGED shared

RecordGlobal(t) == At(t, "snapshot") /\ Snapshot(t, "useSnapshot")

\* The global limiter counts the response (nothing when there is none), the
\* result is written, and the loop goes on with the next response, the next
\* sub-batch, or the return.
WriteResult(t) ==
    /\ At(t, "useSnapshot")
    /\ th' = [th EXCEPT
                ![t].results = @ + 1,
                ![t].i = IF More(t) THEN @ + 1 ELSE NextStart(t),
                ![t].start = IF More(t) THEN @ ELSE NextStart(t),
                ![t].pc = IF More(t) THEN "record"
                          ELSE IF NextStart(t) <= Len(Batch(t)) THEN "global" ELSE "done"]
    /\ UNCHANGED shared

\* The caller reads the results or the error and frees the batch.
Free(t) ==
    /\ th[t].pc \in {"done", "failed"}
    /\ th' = [th EXCEPT ![t] = Idle(@.performed)]
    /\ UNCHANGED shared

-----------------------------------------------------------------------------
(* bh_rate_limit_stats_json *)

\* A call takes the global limiter's pointer, reads its counters, and then those
\* of every host under the registry's lock.
StatsSnapshot(t) ==
    /\ At(t, "idle")
    /\ th[t].performed < MaxBatches
    /\ th' = [th EXCEPT ![t] = [Idle(@.performed + 1) EXCEPT !.ptr = global.id, !.pc = "useStats"]]
    /\ UNCHANGED shared

StatsGlobal(t) == At(t, "useStats") /\ Goto(t, "list")

StatsForEach(t) ==
    /\ At(t, "list")
    /\ th' = [th EXCEPT ![t] = Idle(@.performed)]
    /\ UNCHANGED shared

-----------------------------------------------------------------------------
Perform(t) ==
    \/ Resolve(t)
    \/ GlobalLimiter(t) \/ NoGlobalLimiter(t) \/ GlobalSpecThrows(t) \/ UseGlobal(t)
    \/ HostLimiter(t) \/ NoHostLimiter(t) \/ HostSpecThrows(t) \/ UseHost(t)
    \/ MultiPerform(t)
    \/ RecordLimiter(t) \/ UseRecord(t) \/ RecordGlobal(t) \/ WriteResult(t)

Stats(t) == StatsSnapshot(t) \/ StatsGlobal(t) \/ StatsForEach(t)

Next == \E t \in Threads : Begin(t) \/ Perform(t) \/ Free(t) \/ Stats(t)

Spec == Init /\ [][Next]_vars

\* A thread inside bh_batch_perform is scheduled again; every sleep and every
\* request it waits for ends (sleeps end, and requests have a timeout).
FairSpec == Spec /\ \A t \in Threads : WF_vars(Perform(t))

-----------------------------------------------------------------------------
(* Properties *)

LiveLimiters == {global.id} \cup {registry[p].id : p \in 1..Len(registry)}

\* A limiter pointer is about to be dereferenced.
Dereferences(t) ==
    /\ th[t].pc \in {"useGlobal", "useHost", "useRecord", "useSnapshot", "useStats"}
    /\ th[t].ptr # Null

\* The configurations behind a set of batches agree on the global rate, and on
\* the rate of each host; the registry has room for every host.
OneGlobal(batches, g) ==
    \A b \in batches : \A k \in 1..Len(b) : b[k].gspec \in {"", "bad", g}

OneRate(batches, rate) ==
    \A b \in batches : \A k \in 1..Len(b) :
        /\ b[k].spec \notin {"none", "bad"} => rate[b[k].host] = b[k].spec
        /\ b[k].spec = "none" => rate[b[k].host] = Default

RoomForAll == IsFiniteSet(Hosts) /\ Cardinality(Hosts) <= MaxHosts

\* No limiter pointer is used after the limiter was evicted or replaced: neither
\* the registry nor GlobalLimiter frees what a caller still holds, as long as the
\* configurations agree on the global rate and the registry has room for every
\* host.  Without room it does (run BatchHostEvicted).
PointersLive == \A t \in Threads : Dereferences(t) => th[t].ptr \in LiveLimiters

Completed(t) == th[t].pc \in {"done", "failed"}

\* Sub-batches partition the batch: requests go out in order, none twice, and
\* a batch that succeeds has sent them all and written a result for each.  A
\* batch in which some request cannot be resolved has sent nothing.
EachSentOnce ==
    \A t \in Threads :
        /\ th[t].sent = [k \in 1..Len(th[t].sent) |-> k]
        /\ At(t, "done") => Len(th[t].sent) = Len(Batch(t)) /\ th[t].results = Len(Batch(t))
        /\ (\E k \in 1..Len(Batch(t)) : ~Batch(t)[k].resolves) => th[t].sent = <<>>

\* No request is sent before it has been through both limiters.
TokensBeforeSend == \A t \in Threads : Len(th[t].sent) <= th[t].tokens

\* However a batch ends, the response of every request that was sent has been
\* recorded: an exception only strikes between sub-batches.
SentAreRecorded == \A t \in Threads : Completed(t) => th[t].results = Len(th[t].sent)

\* A request is paced by a limiter with the rate its configuration asks for:
\* neither another request nor the recording of a response, which looks the host
\* up with the default rate, builds it a limiter of another rate.  This holds as
\* long as every configuration gives the host the same rate and the registry has
\* room for every host.  A host evicted before its response is recorded comes back
\* with the default rate and keeps it (run BatchRateLost).
UsesConfiguredRate ==
    \A t \in Threads : At(t, "useHost") =>
        \A p \in 1..Len(registry) :
            registry[p].id = th[t].ptr => registry[p].spec = Request(t).spec

\* What a caller sees of its call, from its thread's locals.
StateOf(x) ==
    CASE x.pc \in {"idle", "useStats", "list"} -> "none"
      [] x.pc = "done"                         -> "ok"
      [] x.pc = "failed"                       -> "error"
      [] OTHER                                 -> "open"

View(x) == [state |-> StateOf(x), batch |-> x.batch, sent |-> x.sent, answered |-> x.results]

Calls == [t \in Threads |-> View(th[t])]

Contract == INSTANCE BatchContract WITH call <- Calls

\* However the threads and their limiters interleave, every call keeps the contract:
\* never more than max_concurrent requests in the air, none of them before the
\* sub-batch ahead is answered and recorded, and failures only in between.
ImplementsContract == Contract!Spec

\* The steps a call has left at most: two limiters and one recording per request,
\* and no more sub-batches than requests.
Place(t) ==
    CASE th[t].pc \in {"useGlobal", "useRecord"} -> 1
      [] th[t].pc \in {"host", "snapshot"}       -> 2
      [] th[t].pc \in {"useHost", "useSnapshot"} -> 3
      [] OTHER                                   -> 0

Remaining(n, tokens, results, sent) == 4 * (n - tokens) + 4 * (n - results) + (n - sent) + 1
Left(t) == Remaining(Len(Batch(t)), th[t].tokens, th[t].results, Len(th[t].sent))

StepsLeft(t) ==
    CASE At(t, "idle")                          -> 0
      [] th[t].pc \in {"done", "failed", "list"} -> 1
      [] At(t, "useStats")                      -> 2
      [] At(t, "resolve")                       -> Left(t) + 1
      [] OTHER                                  -> Left(t) - Place(t)

\* Whatever the other threads do to the limiters in between, each step of a thread
\* brings its call nearer to its end: a batch of n requests never takes more than
\* 9 * n + 2, the freeing of the batch included.
CallsBounded ==
    [][ \A t \in Threads : ~At(t, "idle") =>
          th'[t] = th[t] \/ StepsLeft(t)' \in 0..(StepsLeft(t) - 1) ]_vars

\* bh_batch_perform returns.
PerformReturns == \A t \in Threads : At(t, "resolve") ~> Completed(t)
=============================================================================
