------------------------- MODULE MCOutboundDispatch -------------------------
(* Two channels: an answer streamed to one, with a note or another stream in    *)
(* between, and replies of two turns to the other.                              *)
EXTENDS OutboundDispatch

CONSTANTS d1, d2, e1, f1, note, hint, r1, r2, r3,           \* messages
          web, chat                               \* channels

\* The late answer before the stream or among it.
MCScripts == {<<r1, r2, d1, note, d2, e1, r3>>, <<r1, d1, f1, hint, e1, r2>>}
MCKind == [m \in Msgs |-> CASE m \in {d1, d2, f1} -> "delta" [] m = e1 -> "end"
                             [] m \in {note, hint} -> "progress" [] OTHER -> "reply"]
MCChannelOf == [m \in Msgs |-> IF m \in {f1, r1, r2, r3, hint} THEN chat ELSE web]
MCStreamOf == [m \in Msgs |-> CASE m \in {d1, d2, e1} -> "answer" [] m = f1 -> "other"
                                [] OTHER -> "none"]
MCTextOf == [m \in Msgs |-> IF m \in {r1, r2, r3} THEN "done" ELSE "part"]

\* r1 answers a message; r2 is a late answer to the same one and answers another,
\* which r3 is a late answer to.
MCAnswers == [m \in Msgs |-> CASE m = r1 -> "m1" [] m = r2 -> "m2" [] OTHER -> NoOrigin]
MCOrigin == [m \in Msgs |-> CASE m = r2 -> "m1" [] m = r3 -> "m2" [] OTHER -> NoOrigin]
=============================================================================
