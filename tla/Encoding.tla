------------------------------ MODULE Encoding ------------------------------
(***************************************************************************)
(* How bh_result_json (src/blobhttp_core.cpp) puts a body of any bytes     *)
(* into a JSON string: as text when IsValidUtf8 says so, else in Base64.   *)
(* A string is a sequence of bytes, a Base64 text a sequence of indices of *)
(* its alphabet and of Pad.                                                *)
(***************************************************************************)
EXTENDS Integers, Sequences, FiniteSets

\* How many bytes follow a first byte, and the bits it contributes; -1 when no
\* character begins with it.
Extra(c) ==
    CASE c < 128 -> 0
      [] c \div 32 = 6 -> 1
      [] c \div 16 = 14 -> 2
      [] c \div 8 = 30 -> 3
      [] OTHER -> -1

\* The code point of a first byte and extra continuation bytes.
CodePoint(s, i, extra) ==
    LET low == IF extra = 1 THEN 32 ELSE IF extra = 2 THEN 16 ELSE 8
        cp[k \in 0..extra] == IF k = 0 THEN s[i] % low ELSE cp[k - 1] * 64 + (s[i + k] % 64)
    IN  cp[extra]

\* Overlong encodings, surrogates and code points out of range.  Without the
\* first test, a text may have several encodings.
Rejected_NotOverlong(extra, cp) == cp > 1114111 \/ cp \in 55296..57343
Rejected(extra, cp) ==
    \/ extra = 1 /\ cp < 128
    \/ extra = 2 /\ cp < 2048
    \/ extra = 3 /\ cp < 65536
    \/ cp > 1114111
    \/ cp \in 55296..57343

IsValidUtf8(s) ==
    LET valid[i \in 1..(Len(s) + 4)] ==
            i > Len(s) \/ LET extra == Extra(s[i]) IN
                /\ extra >= 0
                /\ i + extra <= Len(s)
                /\ \A k \in 1..extra : s[i + k] \div 64 = 2
                /\ extra > 0 => ~Rejected(extra, CodePoint(s, i, extra))
                /\ valid[i + extra + 1]
    IN  valid[1]

Pad == 64     \* '='

\* Each three bytes make four digits of six bits; one or two bytes at the end
\* make two or three digits and padding.
Digits(in, i) ==
    LET n == Len(in) - i + 1
        v == in[i] * 65536 + (IF n >= 2 THEN in[i + 1] * 256 ELSE 0) + (IF n >= 3 THEN in[i + 2] ELSE 0)
    IN  <<v \div 262144, (v \div 4096) % 64,
          IF n >= 2 THEN (v \div 64) % 64 ELSE Pad, IF n >= 3 THEN v % 64 ELSE Pad>>

Base64Encode(in) ==
    [k \in 1..(4 * ((Len(in) + 2) \div 3)) |-> Digits(in, 3 * ((k - 1) \div 4) + 1)[((k - 1) % 4) + 1]]

\* response_body of the envelope, and its encoding.
Envelope(body) ==
    IF IsValidUtf8(body) THEN [encoding |-> "utf8", text |-> body]
    ELSE [encoding |-> "base64", text |-> Base64Encode(body)]

-----------------------------------------------------------------------------
(* The reference definitions *)

\* The well-formed characters, by the byte ranges of the UTF-8 standard.
Following == 128..191
WellFormedChar(c) ==
    \/ Len(c) = 1 /\ c[1] \in 0..127
    \/ Len(c) = 2 /\ c[1] \in 194..223 /\ c[2] \in Following
    \/ /\ Len(c) = 3 /\ c[3] \in Following
       /\ \/ c[1] = 224 /\ c[2] \in 160..191
          \/ c[1] \in (225..236) \cup {238, 239} /\ c[2] \in Following
          \/ c[1] = 237 /\ c[2] \in 128..159
    \/ /\ Len(c) = 4 /\ c[3] \in Following /\ c[4] \in Following
       /\ \/ c[1] = 240 /\ c[2] \in 144..191
          \/ c[1] \in 241..243 /\ c[2] \in Following
          \/ c[1] = 244 /\ c[2] \in 128..143

\* A text is a sequence of well-formed characters.
WellFormed(s) ==
    LET from[i \in 1..(Len(s) + 1)] ==
            i = Len(s) + 1
                \/ \E j \in i..Len(s) : j < i + 4 /\ WellFormedChar(SubSeq(s, i, j)) /\ from[j + 1]
    IN  from[1]

\* The bytes of a Base64 text: three of each four digits, less one for each
\* padding.
Base64Decode(text) ==
    LET digit(k) == IF text[k] = Pad THEN 0 ELSE text[k]
        v(q) == digit(q + 1) * 262144 + digit(q + 2) * 4096 + digit(q + 3) * 64 + digit(q + 4)
        pads == Cardinality({k \in 1..Len(text) : text[k] = Pad})
    IN  [k \in 1..(3 * (Len(text) \div 4) - pads) |->
            LET value == v(4 * ((k - 1) \div 3)) IN
            CASE k % 3 = 1 -> value \div 65536
              [] k % 3 = 2 -> (value \div 256) % 256
              [] OTHER -> value % 256]

\* What a reader of the envelope recovers.
Recovered(e) == IF e.encoding = "utf8" THEN e.text ELSE Base64Decode(e.text)
=============================================================================
