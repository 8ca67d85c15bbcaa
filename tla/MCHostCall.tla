----------------------------- MODULE MCHostCall -----------------------------
(***************************************************************************)
(* HostCall with chunks of up to three rows over two configurations, with  *)
(* and without headers, one bad row at each place, and the SQLite and      *)
(* Python calls, beside a second thread that succeeds or fails.  Bodies    *)
(* around the limits of UTF-8 and of every length modulo three are given   *)
(* to one thread alone.                                                    *)
(***************************************************************************)
EXTENDS HostCall

R(c, k, h) == [config |-> c, kind |-> k, utf8 |-> TRUE, headers |-> h, body |-> <<65>>]

Good == {R("A", "given", 2), R("B", "given", 0), R("B", "given", 1)}
Bad == {R("A", "empty", 0), R("B", "nul", 0)}

Chunks ==
    UNION {[1..n -> Good] : n \in 0..3}
        \cup {<<g, b>> : g \in Good, b \in Bad} \cup {<<b, g>> : g \in Good, b \in Bad}

Single == {[R("A", "given", 1) EXCEPT !.utf8 = FALSE], R("A", "given", 1)} \cup Bad

OneCall ==
    {[host |-> "duckdb", rows |-> s] : s \in Chunks}
        \cup {[host |-> h, rows |-> <<x>>] : h \in {"request", "verb", "body"}, x \in Single}
        \cup {[host |-> "python", rows |-> s] :
                 s \in {<<R("A", "given", 1), R("A", "given", 0)>>,
                        <<R("A", "given", 1), R("A", "empty", 0)>>}}

\* Bytes on both sides of every limit of the encoding.
Bytes == {65, 127, 128, 143, 144, 159, 160, 191, 193, 194, 223, 224, 237, 239, 240, 244, 255}
Tails == {127, 128, 143, 144, 159, 160, 191, 192}

Bodies ==
    UNION {[1..n -> Bytes] : n \in 0..2}
        \cup {<<c, a, b>> : c \in {224, 225, 237, 238}, a \in Tails, b \in Tails}
        \cup {<<c, a, b, 191>> : c \in {240, 241, 244, 245}, a \in Tails, b \in Tails}
        \cup {<<65, 194, 160, 128>>, <<225, 128, 191, 65>>, <<255, 0, 255, 0, 255>>}

BodyCall(b) == [host |-> "verb", rows |-> <<[R("A", "given", 0) EXCEPT !.body = b]>>]

Beside ==
    {[host |-> "duckdb", rows |-> <<R("A", "given", 1), R("B", "nul", 0)>>],
     [host |-> "request", rows |-> <<R("A", "given", 1)>>],
     [host |-> "python", rows |-> <<R("A", "nul", 0)>>]}

SmallCalls ==
    LET Pair(a, b) == [t \in Threads |-> IF t = CHOOSE u \in Threads : TRUE THEN a ELSE b]
    IN  {Pair(a, b) : a \in OneCall, b \in Beside}
            \cup {Pair(BodyCall(b), [host |-> "duckdb", rows |-> <<>>]) : b \in Bodies}
=============================================================================
