------------------------------ MODULE HostCall ------------------------------
(***************************************************************************)
(* How the hosts use a bh_batch.  Each thread makes one call               *)
(*   "duckdb"    HttpRawRequestScalarFunc, which splits a chunk of rows    *)
(*               into batches of equal configuration                       *)
(*   "request"   bh_http_request of the SQLite extension, "verb" its other *)
(*               methods, "body" its bh_http_body: one row                 *)
(*   "python"    request_many of the Python package: one configuration     *)
(* A handle belongs to its thread, and so does the message of bh_errmsg.   *)
(*                                                                         *)
(* A row has its configuration, what there is of its method and URL        *)
(*   "given"   both                                                        *)
(*   "empty"   one is NULL or empty                                        *)
(*   "nul"     one starts with a NUL byte: not empty to the host, but an   *)
(*             empty C string to bh_batch_add                              *)
(* whether what it sends is UTF-8, and of its answer the number of headers *)
(* and the body.  Request and response headers are handled alike, and one  *)
(* of them stands for both.  A result is identified by its row and the     *)
(* configuration it was made with.                                         *)
(***************************************************************************)
EXTENDS Encoding

CONSTANTS
    Threads,     \* the threads of the host
    Calls        \* what the threads are asked for: for each a host and its rows

RowType ==
    [config : STRING, kind : {"given", "empty", "nul"}, utf8 : BOOLEAN, headers : Nat,
     body : Seq(0..255)]

\* A SQLite function is called for one row.
ASSUME HostAssumption ==
    \A c \in Calls : \A t \in Threads :
        /\ c[t].host \in {"duckdb", "request", "verb", "body", "python"}
        /\ c[t].rows \in Seq(RowType)
        /\ c[t].host \in {"request", "verb", "body"} => Len(c[t].rows) = 1

VARIABLES
    call,        \* each thread's call: its host and rows
    th,          \* each thread's locals, its batch and what it gives the host
    errmsg       \* g_errmsg of each thread

vars == <<call, th, errmsg>>

None == [by |-> "nobody", what |-> ""]     \* the empty message
Message(t, what) == [by |-> t, what |-> what]

Rows(t) == call[t].rows
Host(t) == call[t].host
At(t, label) == th[t].pc = label

NoResult == [row |-> 0, config |-> "", body |-> <<>>]

Init ==
    /\ call \in Calls
    /\ errmsg = [t \in Threads |-> None]
    /\ th = [t \in Threads |->
               [pc       |-> "call",
                row      |-> 1,                \* the first row of the group
                r        |-> 1,                \* the row the loop is at
                open     |-> FALSE,            \* the thread holds a bh_batch
                pending  |-> <<>>,             \* b->pending
                results  |-> <<>>,             \* b->results
                output   |-> [k \in 1..Len(Rows(t)) |-> NoResult],
                headers  |-> [k \in 1..Len(Rows(t)) |-> <<>>],      \* all_resp_headers
                entries  |-> [k \in 1..Len(Rows(t)) |-> [offset |-> 0, length |-> 0]],
                child    |-> <<>>,             \* the list child of the MAP vector
                offset   |-> 0,                \* resp_offset: its next free place
                reported |-> None,             \* the error given to the host
                cause    |-> "",               \* history: what failed
                sent     |-> <<>>]]            \* history: the rows that were sent

-----------------------------------------------------------------------------
(* The C ABI *)

\* g_errmsg is thread_local.
SetError_Shared(t, message) == errmsg' = [u \in Threads |-> message]
SetError(t, message) == errmsg' = [errmsg EXCEPT ![t] = message]

\* The error is cleared at the start of every call that can fail.
ClearError(t) == SetError(t, None)

\* A call of the C ABI fails with a message.
Fails(t, what) ==
    /\ SetError(t, Message(t, what))
    /\ th' = [th EXCEPT ![t].pc = "fail", ![t].cause = what]

\* bh_batch_free, which leaves the error message alone.
Freed_Kept(x) == x
Freed(x) == [x EXCEPT !.open = FALSE, !.pending = <<>>, !.results = <<>>]

\* An accessor on the result at index i, counting from one; out of range it
\* yields nothing.
ResultAt(t, i) == IF i \in 1..Len(th[t].results) THEN th[t].results[i] ELSE NoResult

-----------------------------------------------------------------------------
(* The call, and its groups of rows *)

Config(t, k) == Rows(t)[k].config

\* The SQLite functions look at their arguments before they make a batch, and
\* reject an empty one or, but for bh_http_request and bh_http_body, return NULL.
Rejects(t) == Host(t) \in {"request", "body", "verb"} /\ Rows(t)[1].kind = "empty"

Call(t) ==
    /\ At(t, "call")
    /\ th' = [th EXCEPT ![t] =
                IF ~Rejects(t) THEN [@ EXCEPT !.pc = "group"]
                ELSE IF Host(t) = "verb" THEN [@ EXCEPT !.pc = "done"]
                ELSE [@ EXCEPT !.pc = "error", !.cause = "required",
                               !.reported = Message(t, "required")]]
    /\ UNCHANGED <<call, errmsg>>

\* The last row of the group that begins at row: the rows up to it have the same
\* configuration, and the next one, if any, has not.
GroupEnd(t) ==
    CHOOSE e \in th[t].row..Len(Rows(t)) :
        /\ \A k \in th[t].row..e : Config(t, k) = Config(t, th[t].row)
        /\ e < Len(Rows(t)) => Config(t, e + 1) # Config(t, th[t].row)

InGroup(t) == th[t].r <= GroupEnd(t)

\* bh_batch_new: a configuration that does not parse is an empty one, so the
\* handle is always made.
BeginGroup(t) ==
    /\ At(t, "group")
    /\ th[t].row <= Len(Rows(t))
    /\ ClearError(t)
    /\ th' = [th EXCEPT ![t].open = TRUE, ![t].pending = <<>>, ![t].results = <<>>,
                        ![t].r = th[t].row, ![t].pc = "add"]
    /\ UNCHANGED call

\* DuckDB looks at the method and the URL before it calls bh_batch_add.
MissingArgument(t) ==
    /\ At(t, "add") /\ InGroup(t)
    /\ Host(t) = "duckdb" /\ Rows(t)[th[t].r].kind = "empty"
    /\ th' = [th EXCEPT ![t] = [Freed(@) EXCEPT !.pc = "error", !.cause = "required",
                                                !.reported = Message(t, "required")]]
    /\ UNCHANGED <<call, errmsg>>

\* bh_batch_add appends the request.  (Malformed headers or parameters are as if
\* they were absent.)
AddRow(t) ==
    /\ At(t, "add") /\ InGroup(t)
    /\ Rows(t)[th[t].r].kind = "given"
    /\ ClearError(t)
    /\ th' = [th EXCEPT ![t].pending = Append(@, th[t].r), ![t].r = @ + 1]
    /\ UNCHANGED call

\* bh_batch_add finds no method or no URL.
AddFails(t) ==
    /\ At(t, "add") /\ InGroup(t)
    /\ \/ Rows(t)[th[t].r].kind = "nul"
       \/ Rows(t)[th[t].r].kind = "empty" /\ Host(t) # "duckdb"
    /\ Fails(t, "add")
    /\ UNCHANGED call

AllAdded(t) ==
    /\ At(t, "add") /\ ~InGroup(t)
    /\ th' = [th EXCEPT ![t].pc = "perform"]
    /\ UNCHANGED <<call, errmsg>>

\* bh_batch_perform: one result per request, in the order they were added.
PerformBatch(t) ==
    /\ At(t, "perform")
    /\ ClearError(t)
    /\ th' = [th EXCEPT
                ![t].results = [k \in 1..Len(th[t].pending) |->
                                  LET row == th[t].pending[k] IN
                                  [row |-> row, config |-> Config(t, th[t].row),
                                   body |-> Rows(t)[row].body]],
                ![t].sent = @ \o th[t].pending,
                ![t].r = th[t].row, ![t].pc = "write"]
    /\ UNCHANGED call

\* It fails before its first request or between two sub-batches.
PerformFails(t) ==
    /\ At(t, "perform")
    /\ SetError(t, Message(t, "perform"))
    /\ \E n \in 0..(Len(th[t].pending) - 1) :
         th' = [th EXCEPT ![t].sent = @ \o SubSeq(th[t].pending, 1, n),
                          ![t].pc = "fail", ![t].cause = "perform"]
    /\ UNCHANGED call

-----------------------------------------------------------------------------
(* The results *)

\* The result of row r is at r - row in the batch.
ResultOf_Row(t) == ResultAt(t, th[t].r)
ResultOf(t) == ResultAt(t, th[t].r - th[t].row + 1)

\* The headers of a result, copied out of the batch.
ResultHeaders(t, result) ==
    IF result = NoResult THEN <<>>
    ELSE [k \in 1..Rows(t)[result.row].headers |-> <<result.row, k>>]

\* Most SQLite functions give the result as bh_result_json does, which fails on a
\* URL, a header or a request body that is not UTF-8; the others hand out its
\* parts.
AsJson(t) == Host(t) \in {"request", "verb"}

Written(t, result) ==
    IF AsJson(t) THEN [result EXCEPT !.body = Envelope(result.body)] ELSE result

WriteRow(t) ==
    /\ At(t, "write") /\ InGroup(t)
    /\ AsJson(t) => Rows(t)[th[t].r].utf8
    /\ th' = [th EXCEPT ![t].output[th[t].r] = Written(t, ResultOf(t)),
                        ![t].headers[th[t].r] = ResultHeaders(t, ResultOf(t)),
                        ![t].r = @ + 1]
    /\ IF AsJson(t) THEN ClearError(t) ELSE UNCHANGED errmsg
    /\ UNCHANGED call

ResultJsonFails(t) ==
    /\ At(t, "write") /\ InGroup(t)
    /\ AsJson(t) /\ ~Rows(t)[th[t].r].utf8
    /\ Fails(t, "json")
    /\ UNCHANGED call

\* Where the next group begins.
Resume_Skip(t) == GroupEnd(t) + 2
Resume(t) == GroupEnd(t) + 1

EndGroup(t) ==
    /\ At(t, "write") /\ ~InGroup(t)
    /\ th' = [th EXCEPT ![t] = [Freed(@) EXCEPT !.row = Resume(t), !.pc = "group"]]
    /\ UNCHANGED <<call, errmsg>>

\* DuckDB goes on to the MAP columns; the others return.
EndRows(t) ==
    /\ At(t, "group")
    /\ th[t].row > Len(Rows(t))
    /\ th' = [th EXCEPT ![t].r = 1, ![t].pc = IF Host(t) = "duckdb" THEN "maps" ELSE "done"]
    /\ UNCHANGED <<call, errmsg>>

\* The offset of the row after one with n pairs.
Advanced_Not(offset, n) == offset
Advanced(offset, n) == offset + n

\* The row's list entry, and its pairs from the offset on.
WriteMapEntry(t) ==
    /\ At(t, "maps") /\ th[t].r <= Len(Rows(t))
    /\ LET kvs == th[t].headers[th[t].r] IN
         th' = [th EXCEPT
                  ![t].entries[th[t].r] = [offset |-> th[t].offset, length |-> Len(kvs)],
                  ![t].child = SubSeq(@, 1, th[t].offset) \o kvs,
                  ![t].offset = Advanced(@, Len(kvs)),
                  ![t].r = @ + 1]
    /\ UNCHANGED <<call, errmsg>>

EndMaps(t) ==
    /\ At(t, "maps") /\ th[t].r > Len(Rows(t))
    /\ th' = [th EXCEPT ![t].pc = "done"]
    /\ UNCHANGED <<call, errmsg>>

\* A failed call: DuckDB frees the batch and then reads the message, SQLite and
\* Python read it first.
FreesFirst(t) == Host(t) = "duckdb"

FreeOnError(t) ==
    /\ At(t, "fail") /\ th[t].open
    /\ FreesFirst(t) \/ th[t].reported # None
    /\ th' = [th EXCEPT ![t] = [Freed(@) EXCEPT !.pc = IF FreesFirst(t) THEN "fail" ELSE "error"]]
    /\ UNCHANGED <<call, errmsg>>

Report(t) ==
    /\ At(t, "fail") /\ th[t].reported = None
    /\ FreesFirst(t) => ~th[t].open
    /\ th' = [th EXCEPT ![t].reported = errmsg[t],
                        ![t].pc = IF FreesFirst(t) THEN "error" ELSE "fail"]
    /\ UNCHANGED <<call, errmsg>>

Next ==
    \E t \in Threads :
        \/ Call(t) \/ BeginGroup(t) \/ MissingArgument(t) \/ AddRow(t) \/ AddFails(t)
        \/ AllAdded(t) \/ PerformBatch(t) \/ PerformFails(t) \/ WriteRow(t)
        \/ ResultJsonFails(t) \/ EndGroup(t) \/ EndRows(t) \/ WriteMapEntry(t) \/ EndMaps(t)
        \/ FreeOnError(t) \/ Report(t)

Spec == Init /\ [][Next]_vars

-----------------------------------------------------------------------------
(* Properties *)

Done(t) == At(t, "done") /\ ~Rejects(t)

\* Every row gets the result of its own request, made with its own
\* configuration "rather than silently taking row 0's", however the
\* configurations alternate down the chunk.
RowsMatched ==
    \A t \in Threads : Done(t) =>
        \A k \in 1..Len(Rows(t)) : /\ th[t].output[k].row = k
                                   /\ th[t].output[k].config = Config(t, k)

\* Whatever bytes a response has, its JSON envelope is made, is UTF-8 by the
\* standard's table, and gives the bytes back; the other functions give them as
\* they are.
BodiesSurvive ==
    \A t \in Threads : Done(t) =>
        \A k \in 1..Len(Rows(t)) :
            LET body == th[t].output[k].body IN
            IF AsJson(t) THEN /\ Recovered(body) = Rows(t)[k].body
                              /\ body.encoding = "utf8" => WellFormed(body.text)
            ELSE body = Rows(t)[k].body

\* The slices of the shared list child that the MAP entries designate hold each
\* row's own headers, rows without headers among them, and fill the child.
MapsMatched ==
    \A t \in Threads : (At(t, "done") /\ Host(t) = "duckdb") =>
        /\ \A k \in 1..Len(Rows(t)) :
              LET e == th[t].entries[k] IN
                  SubSeq(th[t].child, e.offset + 1, e.offset + e.length)
                      = [j \in 1..Rows(t)[k].headers |-> <<k, j>>]
        /\ Len(th[t].child) = th[t].offset

\* However a call ends, the rows whose requests went out are a prefix of its
\* rows, each sent once: a failing row stops its own group before it is sent and
\* every later group, but what earlier groups sent stays sent, and so does the
\* request whose result cannot be written.
PrefixSent ==
    \A t \in Threads :
        LET n == Len(th[t].sent) IN
        /\ th[t].sent = [k \in 1..n |-> k]
        /\ th[t].cause \in {"required", "add"} => n = th[t].row - 1
        /\ th[t].cause = "json" => n = th[t].row
        /\ Done(t) => n = Len(Rows(t))

\* No path out of a call, and no new group, leaves a batch behind.
HandlesFreed ==
    \A t \in Threads : th[t].pc \in {"group", "done", "error"} => ~th[t].open

\* The error a host reports is that of the call that failed on its own thread,
\* although DuckDB reads it after it has freed the batch.
OwnErrorReported ==
    \A t \in Threads : At(t, "error") => th[t].reported = Message(t, th[t].cause)
=============================================================================
