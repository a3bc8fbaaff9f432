----------------------------- MODULE SSEReader -----------------------------
(***************************************************************************)
(* The reader that extracts token usage from a server-sent-event stream    *)
(* while it passes the bytes on to the client                              *)
(* (internal/proxy/sse.go, internal/proxy/anthropic_sse.go and the SSE     *)
(* parsers of internal/provider).                                          *)
(*                                                                         *)
(* The upstream sends lines; the network cuts the byte stream into chunks  *)
(* anywhere.  A line has a kind, a token count and a length in cells, a    *)
(* cell being a run of bytes that is never split.  Everything scan can see *)
(* of a chunk is the sequence of its line ends and of the unfinished line  *)
(* it stops in, so a step here is one line end or one unfinished tail.     *)
(* After the partial-line buffer overflows it holds the end of a line      *)
(* only, which carries no "data: " prefix and is skipped by processLine.   *)
(* One goroutine reads and then closes the body, so steps do not overlap.  *)
(***************************************************************************)
EXTENDS Integers, Sequences, FiniteSetsExt

CONSTANTS
    Lines,      \* the lines an upstream may send
    MaxBuffer,  \* maxLineBuffer, in cells
    Reserved,   \* reservedTokens of the request
    MaxLines,   \* bound: lines per stream
    MaxCloses,  \* bound: calls of Close
    NoUsage,    \* a nil *UsageData
    NoLine      \* between two lines

Kinds == {"start", "delta", "usage", "content"}

ASSUME ReaderAssumption ==
    /\ Lines \subseteq [kind : Kinds, tokens : Nat, size : Nat \ {0}]
    /\ MaxBuffer \in Nat /\ Reserved \in Nat
    /\ MaxLines \in Nat /\ MaxCloses \in Nat
    /\ NoUsage \notin Nat /\ NoLine \notin Lines

VARIABLES
    parseFunc, \* the parser of the request's provider
    sent,      \* history: the lines whose end has been read
    line, got, \* the line being read and how much of it has been read
    buf,       \* cells held in r.buf
    intact,    \* r.buf starts where the current line starts
    acc,       \* anthropicSSEAccumulator
    usage,     \* r.usage: total tokens
    closed,    \* r.closed
    closes,    \* history: calls of Close
    deltas     \* history: the delta of every call of onUsage

vars == <<parseFunc, sent, line, got, buf, intact, acc, usage, closed, closes, deltas>>
----------------------------------------------------------------------------
Init ==
    /\ parseFunc \in {"openai", "anthropic"}
    /\ sent = <<>> /\ line = NoLine /\ got = 0
    /\ buf = 0 /\ intact = TRUE
    /\ acc = [inputTokens |-> 0, hasInput |-> FALSE]
    /\ usage = NoUsage
    /\ closed = FALSE /\ closes = 0 /\ deltas = <<>>

(* A mutant: a line without an end is kept however long it grows. *)
HoldUnbounded(n) == buf' = n /\ UNCHANGED intact

(* scan, with no line end left in the buffer: an overlong line is dropped. *)
Hold(n) ==
    IF n > MaxBuffer THEN buf' = 0 /\ intact' = FALSE
                     ELSE buf' = n /\ UNCHANGED intact

(* ParseOpenAISSEUsage: every chunk with usage counts as final. *)
ParseOpenAI(l) ==
    /\ usage' = IF l.kind = "usage" THEN l.tokens ELSE usage
    /\ UNCHANGED acc

(* A mutant: a message_delta without a message_start counts its output.    *)
ParseAnyDelta(l) ==
    /\ acc' = IF l.kind = "start"
              THEN [inputTokens |-> l.tokens, hasInput |-> TRUE] ELSE acc
    /\ usage' = IF l.kind = "delta" THEN acc.inputTokens + l.tokens ELSE usage

(* anthropicSSEAccumulator.Parse on top of ParseAnthropicSSEUsage. *)
ParseAnthropic(l) ==
    /\ acc' = IF l.kind = "start"
              THEN [inputTokens |-> l.tokens, hasInput |-> TRUE] ELSE acc
    /\ usage' = IF l.kind = "delta" /\ acc.hasInput
                THEN acc.inputTokens + l.tokens ELSE usage

processLine(l) ==
    IF parseFunc = "openai" THEN ParseOpenAI(l) ELSE ParseAnthropic(l)

(* The end of the file, an error and a panic inside Read leave the reader  *)
(* as it is and only stop the copying: they are the absence of more steps. *)
Reading == ~closed

(* What each provider sends; a content line is any line without usage. *)
KindsOf(provider) == IF provider = "openai" THEN {"usage", "content"}
                                            ELSE {"start", "delta", "content"}

(* A new line begins; the reader sees it only through its bytes. *)
NextLine(l) ==
    /\ Reading /\ line = NoLine /\ Len(sent) < MaxLines
    /\ l.kind \in KindsOf(parseFunc)
    /\ line' = l /\ got' = 0
    /\ UNCHANGED <<parseFunc, sent, buf, intact, acc, usage, closed, closes, deltas>>

(* Read of a chunk that stops inside the line. *)
ReadTail(n) ==
    /\ Reading /\ line # NoLine
    /\ n \in 1 .. line.size - got
    /\ got' = got + n
    /\ Hold(buf + n)
    /\ UNCHANGED <<parseFunc, sent, line, acc, usage, closed, closes, deltas>>

(* Read of the rest of the line with its line end. *)
ReadLineEnd ==
    /\ Reading /\ line # NoLine
    /\ IF intact THEN processLine(line) ELSE UNCHANGED <<acc, usage>>
    /\ sent' = Append(sent, line)
    /\ line' = NoLine /\ got' = 0
    /\ buf' = 0 /\ intact' = TRUE
    /\ UNCHANGED <<parseFunc, closed, closes, deltas>>

(* A mutant: Close does not remember that it has reported. *)
CloseForgets ==
    /\ closes < MaxCloses
    /\ closes' = closes + 1
    /\ deltas' = IF usage # NoUsage THEN Append(deltas, usage - Reserved)
                                    ELSE deltas
    /\ closed' = TRUE
    /\ UNCHANGED <<parseFunc, sent, line, got, buf, intact, acc, usage>>

(* Close, at the end of the stream or whenever the copying stops; the      *)
(* first call reports the usage, if any, to the proxy's callback.          *)
Close ==
    /\ closes < MaxCloses
    /\ closes' = closes + 1
    /\ closed' = TRUE
    /\ deltas' = IF ~closed /\ usage # NoUsage
                 THEN Append(deltas, usage - Reserved) ELSE deltas
    /\ UNCHANGED <<parseFunc, sent, line, got, buf, intact, acc, usage>>

Next ==
    \/ \E l \in Lines : NextLine(l)
    \/ \E n \in 1 .. Max({l.size : l \in Lines}) : ReadTail(n)
    \/ ReadLineEnd
    \/ Close

Spec == Init /\ [][Next]_vars
----------------------------------------------------------------------------
TypeOK ==
    /\ parseFunc \in {"openai", "anthropic"}
    /\ sent \in Seq(Lines) /\ line \in Lines \cup {NoLine}
    /\ got \in Nat /\ buf \in 0 .. MaxBuffer /\ intact \in BOOLEAN
    /\ acc \in [inputTokens : Nat, hasInput : BOOLEAN]
    /\ usage \in Nat \cup {NoUsage}
    /\ closed \in BOOLEAN /\ closes \in 0 .. MaxCloses
    /\ deltas \in Seq(Int)

(* What a stream of whole lines says was used: for OpenAI the last usage   *)
(* chunk, for Anthropic the last message_delta that follows a              *)
(* message_start, with the input tokens of the nearest one before it.      *)
Before(s, i, kind) == {j \in 1 .. i - 1 : s[j].kind = kind}

ReportedBy(s) ==
    LET n == Len(s) + 1
        complete == {i \in Before(s, n, "delta") : Before(s, i, "start") # {}}
    IN  CASE parseFunc = "openai" /\ Before(s, n, "usage") # {} ->
                s[Max(Before(s, n, "usage"))].tokens
          [] parseFunc = "anthropic" /\ complete # {} ->
                LET i == Max(complete)
                IN  s[Max(Before(s, i, "start"))].tokens + s[i].tokens
          [] OTHER -> NoUsage

Without(s, dropped) ==
    LET Blank(l) == [l EXCEPT !.kind = "content"]
    IN  [i \in DOMAIN s |-> IF i \in dropped THEN Blank(s[i]) ELSE s[i]]

(* However the network cuts the stream into chunks, the usage that has     *)
(* been extracted is the one the lines read so far report, up to lines     *)
(* longer than the buffer: only those may be missed (scan, processLine).   *)
UsageMatchesLines ==
    LET long == {i \in DOMAIN sent : sent[i].size > MaxBuffer}
    IN  \E dropped \in SUBSET long : usage = ReportedBy(Without(sent, dropped))

(* Usage that was extracted reaches the accounting exactly once, with the  *)
(* first Close, whenever and however often Close is called: reconciliation *)
(* is neither lost nor repeated, and no usage means no reconciliation.     *)
ReconciledExactlyOnce ==
    deltas = IF closed /\ usage # NoUsage THEN <<usage - Reserved>> ELSE <<>>
============================================================================
