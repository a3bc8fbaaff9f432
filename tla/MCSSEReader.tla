---------------------------- MODULE MCSSEReader ----------------------------
(* Small streams for SSEReader. *)
EXTENDS SSEReader

L(k, t, s) == [kind |-> k, tokens |-> t, size |-> s]

\* usage lines that fit the buffer of 2 cells, just fit it, and do not
MCLines == {L("usage", 1, 1), L("usage", 3, 2), L("usage", 2, 3),
            L("start", 1, 2), L("start", 2, 3),
            L("delta", 0, 1), L("delta", 3, 2), L("delta", 2, 3),
            L("content", 0, 1), L("content", 0, 4)}
============================================================================
