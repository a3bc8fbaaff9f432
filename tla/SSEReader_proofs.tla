-------------------------- MODULE SSEReader_proofs --------------------------
(***************************************************************************)
(* The reader of SSE streams keeps its types and its bound on the line     *)
(* buffer, reconciles exactly once and extracts the usage that the lines   *)
(* report, for every set of lines, every buffer size and every sequence of *)
(* chunks and calls of Close.                                              *)
(***************************************************************************)
EXTENDS SSEReader, Sums

(* A line that is complete leaves the accumulator and the usage well typed. *)
LEMMA ProcessLineType ==
    ASSUME TypeOK, NEW l \in Lines, processLine(l)
    PROVE  /\ acc' \in [inputTokens : Nat, hasInput : BOOLEAN]
           /\ usage' \in Nat \cup {NoUsage}
<1>1. l.kind \in Kinds /\ l.tokens \in Nat
  BY ReaderAssumption
<1>2. acc.inputTokens + l.tokens \in Nat
  BY <1>1 DEF TypeOK
<1>3. CASE parseFunc = "openai"
  BY <1>1, <1>3 DEF processLine, ParseOpenAI, TypeOK
<1>4. CASE parseFunc # "openai"
  <2>1. acc' \in [inputTokens : Nat, hasInput : BOOLEAN]
    <3>1. CASE l.kind = "start"
      <4>1. acc' = [inputTokens |-> l.tokens, hasInput |-> TRUE]
        BY <1>4, <3>1 DEF processLine, ParseAnthropic
      <4>2. QED
        BY <1>1, <4>1
    <3>2. CASE l.kind # "start"
      BY <1>4, <3>2 DEF processLine, ParseAnthropic, TypeOK
    <3>3. QED
      BY <3>1, <3>2
  <2>2. usage' \in Nat \cup {NoUsage}
    BY <1>2, <1>4 DEF processLine, ParseAnthropic, TypeOK
  <2>3. QED
    BY <2>1, <2>2
<1>5. QED
  BY <1>3, <1>4

LEMMA InitInv == Init => TypeOK /\ ReconciledExactlyOnce
<1> SUFFICES ASSUME Init PROVE TypeOK /\ ReconciledExactlyOnce
  OBVIOUS
<1>1. acc \in [inputTokens : Nat, hasInput : BOOLEAN]
  BY DEF Init
<1>2. closed \in BOOLEAN /\ intact \in BOOLEAN
  BY DEF Init
<1>3. sent \in Seq(Lines) /\ deltas \in Seq(Int)
  BY DEF Init
<1>4. got \in Nat /\ buf \in 0 .. MaxBuffer /\ closes \in 0 .. MaxCloses
  BY ReaderAssumption DEF Init
<1>5. ReconciledExactlyOnce
  BY DEF Init, ReconciledExactlyOnce
<1>6. QED
  BY <1>1, <1>2, <1>3, <1>4, <1>5 DEF Init, TypeOK

LEMMA NextType == TypeOK /\ [Next]_vars => TypeOK'
<1> SUFFICES ASSUME TypeOK, [Next]_vars PROVE TypeOK'
  OBVIOUS
<1>1. ASSUME NEW l \in Lines, NextLine(l) PROVE TypeOK'
  BY <1>1 DEF TypeOK, NextLine
<1>2. ASSUME NEW n, ReadTail(n) PROVE TypeOK'
  <2>1. line \in Lines
    BY <1>2 DEF ReadTail, TypeOK
  <2> line.size \in Nat /\ got \in Nat /\ n \in 1 .. line.size - got
    BY <1>2, <2>1, ReaderAssumption DEF ReadTail, TypeOK
  <2>2. got' \in Nat /\ buf + n \in Nat
    BY <1>2, <2>1 DEF ReadTail, TypeOK
  <2>3. buf' \in 0 .. MaxBuffer /\ intact' \in BOOLEAN
    <3>1. CASE buf + n > MaxBuffer
      <4>1. buf' = 0 /\ intact' = FALSE
        BY <1>2, <3>1 DEF ReadTail, Hold
      <4>2. buf' \in 0 .. MaxBuffer
        BY <4>1, ReaderAssumption
      <4>3. intact' \in BOOLEAN
        BY <4>1
      <4>4. QED
        BY <4>2, <4>3
    <3>2. CASE ~(buf + n > MaxBuffer)
      <4>1. buf' = buf + n /\ intact' = intact
        BY <1>2, <3>2 DEF ReadTail, Hold
      <4>2. buf + n \in 0 .. MaxBuffer
        BY <2>2, <3>2, ReaderAssumption
      <4>3. QED
        BY <4>1, <4>2 DEF TypeOK
    <3>3. QED
      BY <3>1, <3>2
  <2>4. QED
    BY <1>2, <2>2, <2>3 DEF ReadTail, TypeOK
<1>3. ASSUME ReadLineEnd PROVE TypeOK'
  <2>1. line \in Lines
    BY <1>3 DEF ReadLineEnd, TypeOK
  <2>2. /\ acc' \in [inputTokens : Nat, hasInput : BOOLEAN]
        /\ usage' \in Nat \cup {NoUsage}
    <3>1. CASE intact
      BY <1>3, <2>1, <3>1, ProcessLineType DEF ReadLineEnd
    <3>2. CASE ~intact
      BY <1>3, <3>2 DEF ReadLineEnd, TypeOK
    <3>3. QED
      BY <3>1, <3>2
  <2>3. buf' \in 0 .. MaxBuffer
    BY <1>3, ReaderAssumption DEF ReadLineEnd
  <2>4. QED
    BY <1>3, <2>1, <2>2, <2>3 DEF ReadLineEnd, TypeOK
<1>4. ASSUME Close PROVE TypeOK'
  <2>1. deltas' \in Seq(Int)
    <3>1. CASE ~closed /\ usage # NoUsage
      <4>1. usage - Reserved \in Int
        BY <3>1, ReaderAssumption DEF TypeOK
      <4>2. QED
        BY <1>4, <3>1, <4>1 DEF Close, TypeOK
    <3>2. CASE ~(~closed /\ usage # NoUsage)
      BY <1>4, <3>2 DEF Close, TypeOK
    <3>3. QED
      BY <3>1, <3>2
  <2>2. closes' \in 0 .. MaxCloses
    BY <1>4, ReaderAssumption DEF Close, TypeOK
  <2>3. QED
    BY <1>4, <2>1, <2>2 DEF Close, TypeOK
<1>5. ASSUME UNCHANGED vars PROVE TypeOK'
  BY <1>5 DEF vars, TypeOK
<1>6. QED
  BY <1>1, <1>2, <1>3, <1>4, <1>5 DEF Next

(* The reader's types, the accumulator's and the bound of the line buffer    *)
(* hold in every reachable state (tokenExtractingReader).                    *)
THEOREM ReaderTypeCorrect == Spec => []TypeOK
<1>1. Init => TypeOK
  BY InitInv
<1>2. QED
  BY <1>1, NextType, PTL DEF Spec

(* Extracted usage is handed to the accounting with the first Close, once,   *)
(* whatever is read before and however often Close is called again: the      *)
(* flag is set in the step that reports, and no line is read after it.       *)
THEOREM ReconciledOnce == Spec => []ReconciledExactlyOnce
<1>1. Init => ReconciledExactlyOnce
  BY InitInv
<1>2. ReconciledExactlyOnce /\ [Next]_vars => ReconciledExactlyOnce'
  <2> SUFFICES ASSUME ReconciledExactlyOnce, [Next]_vars
               PROVE  ReconciledExactlyOnce'
    OBVIOUS
  <2>1. ASSUME NEW l \in Lines, NextLine(l) PROVE ReconciledExactlyOnce'
    BY <2>1 DEF NextLine, ReconciledExactlyOnce
  <2>2. ASSUME NEW n, ReadTail(n) PROVE ReconciledExactlyOnce'
    BY <2>2 DEF ReadTail, ReconciledExactlyOnce
  <2>3. ASSUME ReadLineEnd PROVE ReconciledExactlyOnce'
    BY <2>3 DEF ReadLineEnd, Reading, ReconciledExactlyOnce
  <2>4. ASSUME Close PROVE ReconciledExactlyOnce'
    BY <2>4 DEF Close, ReconciledExactlyOnce
  <2>5. ASSUME UNCHANGED vars PROVE ReconciledExactlyOnce'
    BY <2>5 DEF vars, ReconciledExactlyOnce
  <2>6. QED
    BY <2>1, <2>2, <2>3, <2>4, <2>5 DEF Next
<1>3. QED
  BY <1>1, <1>2, PTL DEF Spec
-----------------------------------------------------------------------------
(* The usage that was extracted is the one the lines report. *)

LineType == [kind : Kinds, tokens : Nat, size : Nat \ {0}]

LongLines == {i \in DOMAIN sent : sent[i].size > MaxBuffer}

\* The indices of the message_deltas that follow a message_start.
Complete(s) == {i \in Before(s, Len(s) + 1, "delta") : Before(s, i, "start") # {}}

\* The accumulator remembers the last message_start.
Remembers(s) ==
    LET starts == Before(s, Len(s) + 1, "start")
    IN  /\ acc.hasInput <=> starts # {}
        /\ starts # {} => acc.inputTokens = s[Max(starts)].tokens

Follows(s) == usage = ReportedBy(s) /\ (parseFunc = "anthropic" => Remembers(s))

\* As long as the buffer starts where the line starts it holds all that has
\* been read of it; what does not fit the buffer belongs to a long line.
Partial ==
    /\ line = NoLine => intact /\ buf = 0 /\ got = 0
    /\ line # NoLine => /\ got <= line.size
                        /\ intact => buf = got
                        /\ ~intact => line.size > MaxBuffer

LinesInv ==
    /\ TypeOK /\ Partial
    /\ \E dropped \in SUBSET LongLines : Follows(Without(sent, dropped))

(* Max is what it is called on a non-empty set of indices. *)
LEMMA MaxOfIndices ==
    ASSUME NEW n \in Nat, NEW S, S \subseteq 1 .. n, S # {}
    PROVE  Max(S) \in S /\ \A y \in S : Max(S) >= y
<1> DEFINE T == {n - x : x \in S}
<1>1. T \subseteq Nat /\ T # {}
  <2>1. \A x \in S : x \in Nat /\ x <= n
    OBVIOUS
  <2>2. \A x \in S : n - x \in Nat
    BY <2>1
  <2>3. QED
    BY <2>2
<1>2. PICK m \in T : \A y \in T : m <= y
  BY <1>1, LeastNatural
<1>3. PICK x \in S : m = n - x
  BY <1>2
<1>4. \A y \in S : x >= y
  <2>1. SUFFICES ASSUME NEW y \in S PROVE x >= y
    OBVIOUS
  <2>2. n - y \in T
    OBVIOUS
  <2>3. n - x <= n - y
    BY <1>2, <1>3, <2>2
  <2>4. x \in Nat /\ y \in Nat
    OBVIOUS
  <2>5. QED
    BY <2>3, <2>4
<1>5. QED
  BY <1>3, <1>4 DEF Max

LEMMA MaxIsLast ==
    ASSUME NEW n \in Nat, NEW S, S \subseteq 1 .. n, n \in S
    PROVE  Max(S) = n
<1>1. Max(S) \in S /\ Max(S) >= n
  BY MaxOfIndices
<1>2. Max(S) \in 1 .. n
  BY <1>1
<1>3. QED
  BY <1>1, <1>2

\* t goes on where s stops after n lines.
Agree(s, t, n) == \A i \in 1 .. n : t[i] = s[i]

(* A line more is seen by the sets of indices of its own kind only. *)
LEMMA BeforeStep ==
    ASSUME NEW n \in Nat, NEW s, NEW t, NEW k, Agree(s, t, n)
    PROVE  /\ \A i \in 1 .. n + 1 : Before(t, i, k) = Before(s, i, k)
           /\ t[n + 1].kind = k => Before(t, n + 2, k) = Before(s, n + 1, k) \cup {n + 1}
           /\ t[n + 1].kind # k => Before(t, n + 2, k) = Before(s, n + 1, k)
           /\ Before(s, n + 1, k) \subseteq 1 .. n
<1>1. \A i \in 1 .. n + 1 : i - 1 \in 0 .. n
  OBVIOUS
<1>2. (n + 2) - 1 = n + 1 /\ (n + 1) - 1 = n
  OBVIOUS
<1>3. 1 .. n + 1 = (1 .. n) \cup {n + 1}
  OBVIOUS
<1>4. \A i \in 1 .. n + 1 : Before(t, i, k) = Before(s, i, k)
  BY <1>1 DEF Before, Agree
<1>5. /\ t[n + 1].kind = k => Before(t, n + 2, k) = Before(s, n + 1, k) \cup {n + 1}
      /\ t[n + 1].kind # k => Before(t, n + 2, k) = Before(s, n + 1, k)
  BY <1>2, <1>3 DEF Before, Agree
<1>6. QED
  BY <1>2, <1>4, <1>5 DEF Before

(* The reader follows a stream that gets one line longer. *)
LEMMA FollowsStep ==
    ASSUME TypeOK, parseFunc' = parseFunc,
           NEW n \in Nat, NEW s, NEW t,
           s \in Seq(LineType), t \in Seq(LineType), Len(s) = n, Len(t) = n + 1,
           Agree(s, t, n), Follows(s), processLine(t[n + 1])
    PROVE  Follows(t)'
<1> DEFINE l == t[n + 1]
<1>1. \A k : /\ \A i \in 1 .. n + 1 : Before(t, i, k) = Before(s, i, k)
             /\ l.kind = k => Before(t, n + 2, k) = Before(s, n + 1, k) \cup {n + 1}
             /\ l.kind # k => Before(t, n + 2, k) = Before(s, n + 1, k)
             /\ Before(s, n + 1, k) \subseteq 1 .. n
  BY BeforeStep
<1>2. Len(s) + 1 = n + 1 /\ Len(t) + 1 = n + 2
  OBVIOUS
<1>3. CASE parseFunc = "openai"
  <2> DEFINE U == Before(s, n + 1, "usage")
  <2>1. usage = IF U # {} THEN s[Max(U)].tokens ELSE NoUsage
    BY <1>2, <1>3 DEF Follows, ReportedBy
  <2>2. usage' = IF l.kind = "usage" THEN l.tokens ELSE usage
    BY <1>3 DEF processLine, ParseOpenAI
  <2>3. usage' = LET V == Before(t, n + 2, "usage")
                 IN  IF V # {} THEN t[Max(V)].tokens ELSE NoUsage
    <3>1. CASE l.kind = "usage"
      <4>1. Max(Before(t, n + 2, "usage")) = n + 1
        <5>1. Before(t, n + 2, "usage") = U \cup {n + 1} /\ U \subseteq 1 .. n
          BY <1>1, <3>1
        <5>2. PICK V : V = Before(t, n + 2, "usage")
          OBVIOUS
        <5>3. V \subseteq 1 .. n + 1 /\ n + 1 \in V /\ n + 1 \in Nat
          BY <5>1, <5>2
        <5>4. QED
          BY <5>2, <5>3, MaxIsLast
      <4>2. Before(t, n + 2, "usage") # {}
        BY <1>1, <3>1
      <4>3. QED
        BY <2>2, <3>1, <4>1, <4>2, Zenon
    <3>2. CASE l.kind # "usage"
      <4>1. Before(t, n + 2, "usage") = U /\ U \subseteq 1 .. n
        BY <1>1, <3>2
      <4>2. U # {} => Max(U) \in 1 .. n
        BY <4>1, MaxOfIndices
      <4>3. QED
        BY <2>1, <2>2, <3>2, <4>1, <4>2 DEF Agree
    <3>3. QED
      BY <3>1, <3>2
  <2>4. usage' = ReportedBy(t)'
    BY <1>2, <1>3, <2>3 DEF ReportedBy
  <2>5. QED
    BY <1>3, <2>4 DEF Follows
<1>4. CASE parseFunc = "anthropic"
  <2> DEFINE S == Before(s, n + 1, "start")
             D == Complete(s)
             Told(x, i) == x[Max(Before(x, i, "start"))].tokens + x[i].tokens
  <2>1. usage = IF D # {} THEN Told(s, Max(D)) ELSE NoUsage
    BY <1>4 DEF Follows, ReportedBy, Complete
  <2>2. (acc.hasInput <=> S # {}) /\ (S # {} => acc.inputTokens = s[Max(S)].tokens)
    BY <1>2, <1>4 DEF Follows, Remembers
  <2>3. /\ acc' = IF l.kind = "start"
                  THEN [inputTokens |-> l.tokens, hasInput |-> TRUE] ELSE acc
        /\ usage' = IF l.kind = "delta" /\ acc.hasInput
                    THEN acc.inputTokens + l.tokens ELSE usage
    BY <1>4 DEF processLine, ParseAnthropic
  <2>4. S # {} => Max(S) \in 1 .. n
    BY <1>1, MaxOfIndices
  <2>5. Remembers(t)'
    <3>1. CASE l.kind = "start"
      <4>1. Max(Before(t, n + 2, "start")) = n + 1
        <5>1. Before(t, n + 2, "start") = S \cup {n + 1} /\ S \subseteq 1 .. n
          BY <1>1, <3>1
        <5>2. PICK V : V = Before(t, n + 2, "start")
          OBVIOUS
        <5>3. V \subseteq 1 .. n + 1 /\ n + 1 \in V /\ n + 1 \in Nat
          BY <5>1, <5>2
        <5>4. QED
          BY <5>2, <5>3, MaxIsLast
      <4>2. Before(t, n + 2, "start") # {}
        BY <1>1, <3>1
      <4>3. acc'.inputTokens = l.tokens /\ acc'.hasInput
        BY <2>3, <3>1
      <4>4. QED
        BY <1>2, <4>1, <4>2, <4>3 DEF Remembers
    <3>2. CASE l.kind # "start"
      <4>1. Before(t, n + 2, "start") = S /\ acc' = acc
        BY <1>1, <2>3, <3>2
      <4>2. QED
        BY <1>2, <2>2, <2>4, <4>1 DEF Remembers, Agree
    <3>3. QED
      BY <3>1, <3>2
  <2>6. D \subseteq 1 .. n
    BY <1>1, <1>2 DEF Complete
  <2>7. \A i \in D : /\ i \in 1 .. n /\ Before(t, i, "start") = Before(s, i, "start")
                     /\ Max(Before(s, i, "start")) \in 1 .. n
    <3>1. SUFFICES ASSUME NEW i \in D
                   PROVE  /\ i \in 1 .. n /\ Before(t, i, "start") = Before(s, i, "start")
                          /\ Max(Before(s, i, "start")) \in 1 .. n
      OBVIOUS
    <3>2. i \in 1 .. n /\ i \in 1 .. n + 1
      BY <2>6
    <3>3. Before(s, i, "start") # {} /\ Before(s, i, "start") \subseteq 1 .. n
      BY <3>2 DEF Complete, Before
    <3>4. QED
      BY <1>1, <3>2, <3>3, MaxOfIndices
  <2>8. Before(t, n + 1, "start") = S
    BY <1>1
  <2>9. Complete(t) = D \cup (IF l.kind = "delta" /\ S # {} THEN {n + 1} ELSE {})
    BY <1>1, <1>2, <2>8 DEF Complete
  <2>10. usage' = IF Complete(t) # {} THEN Told(t, Max(Complete(t))) ELSE NoUsage
    <3>1. CASE l.kind = "delta" /\ S # {}
      <4>1. Max(Complete(t)) = n + 1
        <5>1. PICK V : V = Complete(t)
          OBVIOUS
        <5>2. V = D \cup {n + 1}
          BY <2>9, <3>1, <5>1
        <5>3. V \subseteq 1 .. n + 1 /\ n + 1 \in V /\ n + 1 \in Nat
          BY <2>6, <5>2
        <5>4. QED
          BY <5>1, <5>3, MaxIsLast
      <4>2. Complete(t) # {}
        BY <2>9, <3>1
      <4>3. usage' = s[Max(S)].tokens + l.tokens
        BY <2>2, <2>3, <3>1
      <4>4. Told(t, n + 1) = s[Max(S)].tokens + l.tokens
        BY <2>4, <2>8, <3>1 DEF Agree
      <4>5. QED
        BY <4>1, <4>2, <4>3, <4>4
    <3>2. CASE ~(l.kind = "delta" /\ S # {})
      <4>1. Complete(t) = D /\ usage' = usage
        BY <2>2, <2>3, <2>9, <3>2
      <4>2. D # {} => Max(D) \in D
        BY <2>6, MaxOfIndices
      <4>3. D # {} => Told(t, Max(D)) = Told(s, Max(D))
        BY <2>7, <4>2 DEF Agree
      <4>4. QED
        BY <2>1, <4>1, <4>3
    <3>3. QED
      BY <3>1, <3>2
  <2>11. usage' = ReportedBy(t)'
    BY <1>4, <2>10 DEF ReportedBy, Complete
  <2>12. QED
    BY <2>5, <2>11 DEF Follows
<1>5. QED
  BY <1>3, <1>4 DEF TypeOK

(* Blanking lines of a stream leaves a stream of the same length. *)
LEMMA WithoutType ==
    ASSUME NEW u \in Seq(LineType), NEW d
    PROVE  /\ Without(u, d) \in Seq(LineType) /\ Len(Without(u, d)) = Len(u)
           /\ \A i \in 1 .. Len(u) : Without(u, d)[i] =
                 IF i \in d THEN [u[i] EXCEPT !.kind = "content"] ELSE u[i]
<1>1. DOMAIN u = 1 .. Len(u) /\ Len(u) \in Nat
  OBVIOUS
<1>2. \A x \in LineType : [x EXCEPT !.kind = "content"] \in LineType
  BY DEF LineType, Kinds
<1>3. \A i \in 1 .. Len(u) : u[i] \in LineType
  OBVIOUS
<1>4. Without(u, d) = [i \in 1 .. Len(u) |->
                          IF i \in d THEN [u[i] EXCEPT !.kind = "content"] ELSE u[i]]
  BY <1>1 DEF Without
<1>5. \A i \in 1 .. Len(u) : Without(u, d)[i] \in LineType
  BY <1>2, <1>3, <1>4
<1>6. QED
  BY <1>1, <1>4, <1>5

LEMMA InitLines == Init => LinesInv
<1> SUFFICES ASSUME Init PROVE LinesInv
  OBVIOUS
<1>1. TypeOK /\ Partial
  BY InitInv DEF Init, Partial
<1>2. \A k : Before(<<>>, 1, k) = {}
  BY DEF Before
<1>3. Without(sent, {}) = <<>>
  BY DEF Init, Without
<1>4. Len(<<>>) + 1 = 1
  OBVIOUS
<1>5. ReportedBy(<<>>) = NoUsage
  BY <1>2, <1>4 DEF ReportedBy
<1>6. Remembers(<<>>)
  BY <1>2, <1>4 DEF Init, Remembers
<1>7. Follows(Without(sent, {}))
  BY <1>3, <1>5, <1>6 DEF Init, Follows
<1>8. QED
  BY <1>1, <1>7 DEF LinesInv

(* The reader's view does not change unless a line ends. *)
LEMMA LinesKept ==
    ASSUME LinesInv, UNCHANGED <<parseFunc, sent, acc, usage>>, TypeOK', Partial'
    PROVE  LinesInv'
<1>1. PICK d \in SUBSET LongLines : Follows(Without(sent, d))
  BY DEF LinesInv
<1>2. d \in SUBSET LongLines'
  BY <1>1 DEF LongLines
<1>3. PICK s : s = Without(sent, d)
  OBVIOUS
<1>4. Follows(s)'
  BY <1>1, <1>3 DEF Follows, ReportedBy, Remembers
<1>5. s = Without(sent, d)'
  BY <1>3
<1>6. QED
  BY <1>2, <1>4, <1>5 DEF LinesInv

LEMMA LineEndLines ==
    ASSUME LinesInv, ReadLineEnd, TypeOK'
    PROVE  LinesInv'
<1> DEFINE n == Len(sent)
<1>1. TypeOK /\ Partial /\ line \in Lines /\ line # NoLine
  BY ReaderAssumption DEF LinesInv, ReadLineEnd, TypeOK
<1>2. Lines \subseteq LineType
  BY ReaderAssumption DEF LineType
<1>3. /\ sent \in Seq(LineType) /\ n \in Nat /\ line \in LineType
      /\ sent' \in Seq(LineType) /\ Len(sent') = n + 1
      /\ \A i \in 1 .. n : sent'[i] = sent[i]
      /\ sent'[n + 1] = line
  BY <1>1, <1>2 DEF ReadLineEnd, TypeOK
<1>4. PICK d \in SUBSET LongLines : Follows(Without(sent, d))
  BY DEF LinesInv
<1>5. d \subseteq 1 .. n
  BY <1>3, <1>4 DEF LongLines
<1>6. LongLines \subseteq LongLines'
  BY <1>3 DEF LongLines
<1>7. Partial'
  BY DEF ReadLineEnd, Partial
<1>8. PICK e \in SUBSET LongLines' :
         /\ e \cap (1 .. n) = d
         /\ processLine(IF n + 1 \in e THEN [line EXCEPT !.kind = "content"] ELSE line)
  <2>0. n + 1 \notin 1 .. n
    BY <1>3
  <2>1. CASE intact
    <3>1. d \in SUBSET LongLines' /\ n + 1 \notin d /\ d \cap (1 .. n) = d
      BY <1>4, <1>5, <1>6, <2>0, Zenon
    <3>2. processLine(line)
      BY <2>1 DEF ReadLineEnd
    <3>3. QED
      BY <3>1, <3>2
  <2>2. CASE ~intact
    <3>1. line.size > MaxBuffer
      BY <1>1, <2>2 DEF Partial
    <3>2. n + 1 \in LongLines'
      BY <1>3, <3>1 DEF LongLines
    <3>3. (d \cup {n + 1}) \cap (1 .. n) = d
      BY <1>5, <2>0, Zenon
    <3>4. processLine([line EXCEPT !.kind = "content"])
      <4>1. [line EXCEPT !.kind = "content"].kind = "content"
        BY <1>3 DEF LineType
      <4>2. acc' = acc /\ usage' = usage
        BY <2>2 DEF ReadLineEnd
      <4>3. QED
        BY <4>1, <4>2 DEF processLine, ParseOpenAI, ParseAnthropic
    <3>5. d \cup {n + 1} \in SUBSET LongLines'
      BY <1>4, <1>6, <3>2
    <3>6. QED
      BY <3>3, <3>4, <3>5
  <2>3. QED
    BY <2>1, <2>2
<1>9. PICK s : s = Without(sent, d)
  OBVIOUS
<1>10. PICK t : t = Without(sent', e)
  OBVIOUS
<1>11. /\ s \in Seq(LineType) /\ Len(s) = n
       /\ \A i \in 1 .. n : s[i] = IF i \in d THEN [sent[i] EXCEPT !.kind = "content"]
                                              ELSE sent[i]
  BY <1>3, <1>9, WithoutType
<1>12. /\ t \in Seq(LineType) /\ Len(t) = n + 1
       /\ \A i \in 1 .. n + 1 : t[i] = IF i \in e THEN [sent'[i] EXCEPT !.kind = "content"]
                                                  ELSE sent'[i]
  BY <1>3, <1>10, WithoutType
<1>13. Agree(s, t, n)
  <2>1. \A i \in 1 .. n : i \in d <=> i \in e
    BY <1>8
  <2>2. \A i \in 1 .. n : i \in 1 .. n + 1
    BY <1>3
  <2>3. QED
    BY <1>3, <1>11, <1>12, <2>1, <2>2 DEF Agree
<1>14. n + 1 \in 1 .. n + 1
  BY <1>3
<1>15. processLine(t[n + 1])
  BY <1>3, <1>8, <1>12, <1>14
<1>16. Follows(t)'
  <2>1. Follows(s) /\ parseFunc' = parseFunc
    BY <1>4, <1>9 DEF ReadLineEnd
  <2> HIDE DEF n
  <2>2. QED
    BY <1>1, <1>3, <1>11, <1>12, <1>13, <1>15, <2>1, FollowsStep
<1>17. QED
  BY <1>7, <1>8, <1>10, <1>16 DEF LinesInv

LEMMA NextLines == LinesInv /\ [Next]_vars => LinesInv'
<1> SUFFICES ASSUME LinesInv, [Next]_vars PROVE LinesInv'
  OBVIOUS
<1>1. TypeOK /\ TypeOK' /\ Partial
  BY NextType DEF LinesInv
<1>2. ASSUME NEW l \in Lines, NextLine(l) PROVE LinesInv'
  <2>1. l # NoLine /\ l.size \in Nat
    BY ReaderAssumption
  <2>2. Partial'
    BY <1>1, <1>2, <2>1 DEF NextLine, Partial
  <2>3. QED
    BY <1>1, <1>2, <2>2, LinesKept DEF NextLine
<1>3. ASSUME NEW i, ReadTail(i) PROVE LinesInv'
  <2>1. line \in Lines /\ line # NoLine
    BY <1>1, <1>3 DEF ReadTail, TypeOK
  <2>2. line.size \in Nat /\ got \in Nat /\ buf \in Nat /\ MaxBuffer \in Nat
    BY <1>1, <2>1, ReaderAssumption DEF TypeOK
  <2>3. i \in 1 .. line.size - got /\ got' = got + i /\ line' = line
    BY <1>3 DEF ReadTail
  <2>4. i \in Nat /\ got' <= line.size
    BY <2>2, <2>3
  <2>5. (intact' => buf' = got') /\ (~intact' => line.size > MaxBuffer)
    <3>1. CASE buf + i > MaxBuffer
      <4>1. ~intact'
        BY <1>3, <3>1 DEF ReadTail, Hold
      <4>2. line.size > MaxBuffer
        BY <1>1, <2>1, <2>2, <2>3, <2>4, <3>1 DEF Partial
      <4>3. QED
        BY <4>1, <4>2
    <3>2. CASE ~(buf + i > MaxBuffer)
      BY <1>1, <1>3, <2>1, <2>3, <3>2 DEF ReadTail, Hold, Partial
    <3>3. QED
      BY <3>1, <3>2
  <2>6. Partial'
    BY <2>1, <2>3, <2>4, <2>5 DEF Partial
  <2>7. QED
    BY <1>1, <1>3, <2>6, LinesKept DEF ReadTail
<1>4. CASE ReadLineEnd
  BY <1>1, <1>4, LineEndLines
<1>5. CASE Close
  <2>1. Partial'
    BY <1>1, <1>5 DEF Close, Partial
  <2>2. QED
    BY <1>1, <1>5, <2>1, LinesKept DEF Close
<1>6. CASE UNCHANGED vars
  <2>1. Partial'
    BY <1>1, <1>6 DEF vars, Partial
  <2>2. QED
    BY <1>1, <1>6, <2>1, LinesKept DEF vars
<1>7. QED
  BY <1>2, <1>3, <1>4, <1>5, <1>6 DEF Next

(* However the stream is cut into chunks, and for every length of lines and  *)
(* every size of the buffer, the extracted usage is the one that the lines   *)
(* read so far report, except that lines longer than the buffer may be       *)
(* missed (scan, processLine, anthropicSSEAccumulator).                      *)
THEOREM UsageIsReported == Spec => []UsageMatchesLines
<1>1. LinesInv => UsageMatchesLines
  BY DEF LinesInv, LongLines, Follows, UsageMatchesLines
<1>2. QED
  BY <1>1, InitLines, NextLines, PTL DEF Spec
============================================================================
