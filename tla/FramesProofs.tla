------------------------------ MODULE FramesProofs ------------------------------
(* Proofs about SseFrames as MCParts has it, for any set of payloads without   *)
(* line feeds, any number of writes and any way to cut the stream.             *)
EXTENDS MCParts, RecursionProofs, SequenceTheorems

-----------------------------------------------------------------------------
(* Lines, turns and events, step by step *)

Chars == Payloads \cup {"\n", ":", "event", "data", "{", "}"}
Writes == Payloads \cup {"keepalive"}

LEMMA Marks ==
  /\ \A w \in Payloads : w # "\n" /\ w # "keepalive"
  /\ Sse!LF = "\n" /\ Sse!keepalive = "keepalive"
BY PartsAssumption DEF Sse!LF, Sse!keepalive

\* The functions that linesOf, takeFrames and events are read off.
Lines(f, x) ==
  x = [k \in 0..Len(f) |-> IF k = 0 THEN << <<>> >> ELSE Sse!lengthened(x[k - 1], f[k])]
Turns(text, x) ==
  x = [k \in 0..Len(text) |-> IF k = 0 THEN [frames |-> <<>>, rest |-> text] ELSE Sse!takeOne(x[k - 1])]
Parsed(fs, x) ==
  x = [k \in 0..Len(fs) |-> IF k = 0 THEN <<>> ELSE x[k - 1] \o Sse!parseFrame(fs[k])]

LEMMA LinesOf ==
  ASSUME NEW f \in Seq(Chars)
  PROVE  \E x : /\ x[0] = << <<>> >> /\ \A k \in 1..Len(f) : x[k] = Sse!lengthened(x[k - 1], f[k])
                /\ Sse!linesOf(f) = x[Len(f)]
<1> DEFINE Q == {ls \in Seq(Seq(Chars)) : Len(ls) > 0}
           c == << <<>> >>
           n == Len(f)
           Go(ls, k) == Sse!lengthened(ls, f[k])
           F == [k \in 1..n |-> [ls \in Q |-> Go(ls, k)]]
<1>1. n \in Nat /\ 0 \in 0..n /\ n \in 0..n
  OBVIOUS
<1>2. c \in Q
  <2> DEFINE E == Seq(Chars)
  <2>1. <<>> \in E
    OBVIOUS
  <2> HIDE DEF E
  <2>2. c \in Seq(E) /\ Len(c) = 1
    BY <2>1
  <2> QED BY <2>2 DEF E
<1>3. ASSUME NEW ls \in Q, NEW k \in 1..n PROVE Go(ls, k) \in Q
  <2> DEFINE E == Seq(Chars)
  <2>1. f[k] \in Chars /\ <<>> \in E /\ \A l \in E : Append(l, f[k]) \in E
    OBVIOUS
  <2>2. ls \in Seq(E) /\ Len(ls) > 0
    OBVIOUS
  <2> HIDE DEF E
  <2>3. Append(ls, <<>>) \in Seq(E) /\ Len(Append(ls, <<>>)) > 0
    BY <2>1, <2>2
  <2>4. ls[Len(ls)] \in E
    BY <2>2
  <2>5. /\ [ls EXCEPT ![Len(ls)] = Append(ls[Len(ls)], f[k])] \in Seq(E)
        /\ Len([ls EXCEPT ![Len(ls)] = Append(ls[Len(ls)], f[k])]) > 0
    <3> DEFINE l == Append(ls[Len(ls)], f[k])
    <3>1. l \in E
      BY <2>1, <2>4
    <3> HIDE DEF l
    <3>2. [ls EXCEPT ![Len(ls)] = l] \in Seq(E) /\ Len([ls EXCEPT ![Len(ls)] = l]) = Len(ls)
      BY <2>2, <3>1
    <3> QED BY <2>2, <3>2 DEF l
  <2>6. Go(ls, k) = Append(ls, <<>>) \/ Go(ls, k) = [ls EXCEPT ![Len(ls)] = Append(ls[Len(ls)], f[k])]
    BY DEF Sse!lengthened
  <2> HIDE DEF Go
  <2>7. Go(ls, k) \in Seq(E) /\ Len(Go(ls, k)) > 0
    BY <2>3, <2>5, <2>6
  <2> QED BY <2>7 DEF E
<1> HIDE DEF Q, Go
<1>4. F \in Steps(Q, n)
  BY <1>3 DEF Steps
<1>5. PICK h : Recurs(h, Q, c, n, F)
  <2> HIDE DEF c, F, n
  <2> QED BY <1>1, <1>2, <1>4, Recursion
<1>6. Lines(f, h)
  <2>1. \A k \in 1..n : F[k][h[k - 1]] = Go(h[k - 1], k)
    <3> HIDE DEF n
    <3>1. \A k \in 1..n : k - 1 \in 0..n
      BY <1>1
    <3> QED BY <1>5, <3>1 DEF Recurs
  <2>2. h = [k \in 0..n |-> IF k = 0 THEN c ELSE Go(h[k - 1], k)]
    <3> HIDE DEF F, c, n
    <3>1. \A k \in 0..n : k # 0 => k \in 1..n
      BY <1>1
    <3> QED BY <1>5, <2>1, <3>1 DEF Recurs
  <2> QED BY <2>2 DEF Lines, Go
<1> DEFINE g == CHOOSE x : Lines(f, x)
<1>7. Lines(f, g)
  BY <1>6
<1>8. Sse!linesOf(f) = g[n]
  BY DEF Sse!linesOf, Lines
<1> HIDE DEF g
<1>9. g[0] = << <<>> >> /\ \A k \in 1..Len(f) : g[k] = Sse!lengthened(g[k - 1], f[k])
  <2>1. \A k \in 1..n : k \in 0..n /\ k # 0
    BY <1>1
  <2> QED BY <1>1, <1>7, <2>1 DEF Lines
<1> QED BY <1>8, <1>9

Takings == [frames : Seq(Seq(Chars)), rest : Seq(Chars)]

LEMMA Pieces ==
  ASSUME NEW E, NEW s \in Seq(E), NEW k \in 1..(Len(s) - 1)
  PROVE  SubSeq(s, 1, k - 1) \in Seq(E) /\ SubSeq(s, k + 2, Len(s)) \in Seq(E)
OBVIOUS

\* The first blank line is looked for, and found if there is one.
LEMMA FirstBoundary ==
  ASSUME NEW s \in Seq(Chars), Sse!boundaries(s) # {}
  PROVE  LET k == CHOOSE k \in Sse!boundaries(s) : \A j \in Sse!boundaries(s) : k <= j IN
         k \in Sse!boundaries(s) /\ \A j \in Sse!boundaries(s) : k <= j
<1>1. Sse!boundaries(s) \subseteq Nat
  BY DEF Sse!boundaries
<1>2. PICK k \in Sse!boundaries(s) : \A j \in Sse!boundaries(s) : ~(j < k)
  BY <1>1, Least
<1>3. \A j \in Sse!boundaries(s) : k <= j
  BY <1>1, <1>2
<1> QED BY <1>2, <1>3

LEMMA TakenOne == ASSUME NEW t \in Takings PROVE Sse!takeOne(t) \in Takings
<1> DEFINE s == t.rest
           k == CHOOSE k \in Sse!boundaries(s) : \A j \in Sse!boundaries(s) : k <= j
           E == Seq(Chars)
<1>1. s \in Seq(Chars) /\ t.frames \in Seq(E)
  BY DEF Takings
<1>2. CASE Sse!boundaries(s) = {}
  BY <1>2 DEF Sse!takeOne
<1>3. CASE Sse!boundaries(s) # {}
  <2>1. k \in Sse!boundaries(s)
    BY <1>1, <1>3, FirstBoundary
  <2>2. Sse!takeOne(t) = [frames |-> Append(t.frames, SubSeq(s, 1, k - 1)), rest |-> SubSeq(s, k + 2, Len(s))]
    BY <1>3 DEF Sse!takeOne
  <2>3. k \in 1..(Len(s) - 1)
    BY <2>1 DEF Sse!boundaries
  <2> HIDE DEF k, s
  <2>4. SubSeq(s, 1, k - 1) \in E /\ SubSeq(s, k + 2, Len(s)) \in Seq(Chars)
    BY <1>1, <2>3, Pieces
  <2> HIDE DEF E
  <2>5. Append(t.frames, SubSeq(s, 1, k - 1)) \in Seq(E)
    BY <1>1, <2>4
  <2> QED BY <2>2, <2>4, <2>5 DEF Takings, E
<1> QED BY <1>2, <1>3

LEMMA TurnsOf ==
  ASSUME NEW text \in Seq(Chars)
  PROVE  \E x : /\ x[0] = [frames |-> <<>>, rest |-> text]
                /\ \A k \in 1..Len(text) : x[k] = Sse!takeOne(x[k - 1])
                /\ Sse!takeFrames(text) = x[Len(text)]
<1> DEFINE Q == Takings
           c == [frames |-> <<>>, rest |-> text]
           n == Len(text)
           F == [k \in 1..n |-> [t \in Q |-> Sse!takeOne(t)]]
<1>1. n \in Nat /\ 0 \in 0..n /\ n \in 0..n
  OBVIOUS
<1>2. c \in Q
  <2> DEFINE E == Seq(Chars)
  <2>1. <<>> \in Seq(E) /\ text \in E
    OBVIOUS
  <2> QED BY <2>1 DEF Takings
<1>3. F \in Steps(Q, n)
  BY TakenOne DEF Steps
<1> HIDE DEF Q
<1>4. PICK h : Recurs(h, Q, c, n, F)
  <2> HIDE DEF c, F, n
  <2> QED BY <1>1, <1>2, <1>3, Recursion
<1>5. Turns(text, h)
  <2>1. \A k \in 1..n : F[k][h[k - 1]] = Sse!takeOne(h[k - 1])
    <3> HIDE DEF n
    <3>1. \A k \in 1..n : k - 1 \in 0..n
      BY <1>1
    <3> QED BY <1>4, <3>1 DEF Recurs
  <2>2. h = [k \in 0..n |-> IF k = 0 THEN c ELSE Sse!takeOne(h[k - 1])]
    <3> HIDE DEF F, c, n
    <3>1. \A k \in 0..n : k # 0 => k \in 1..n
      BY <1>1
    <3> QED BY <1>4, <2>1, <3>1 DEF Recurs
  <2> QED BY <2>2 DEF Turns
<1> DEFINE g == CHOOSE x : Turns(text, x)
<1>6. Turns(text, g)
  BY <1>5
<1>7. Sse!takeFrames(text) = g[n]
  BY DEF Sse!takeFrames, Turns
<1> HIDE DEF g
<1>8. g[0] = c /\ \A k \in 1..n : g[k] = Sse!takeOne(g[k - 1])
  <2>1. \A k \in 1..n : k \in 0..n /\ k # 0
    BY <1>1
  <2> QED BY <1>1, <1>6, <2>1 DEF Turns
<1> QED BY <1>7, <1>8

LEMMA EventsOf ==
  ASSUME NEW fs, NEW n \in Nat, n = Len(fs), \A k \in 1..n : Sse!parseFrame(fs[k]) \in Seq(Payloads)
  PROVE  \E x : /\ x[0] = <<>> /\ \A k \in 1..n : x[k] = x[k - 1] \o Sse!parseFrame(fs[k])
                /\ Sse!events(fs) = x[n]
<1> DEFINE Q == Seq(Payloads)
           c == <<>>
           Go(e, k) == e \o Sse!parseFrame(fs[k])
           F == [k \in 1..n |-> [e \in Q |-> Go(e, k)]]
<1>1. 0 \in 0..n /\ n \in 0..n /\ c \in Q
  OBVIOUS
<1>2. \A k \in 1..n, e \in Q : Go(e, k) \in Q
  OBVIOUS
<1> HIDE DEF Q, Go
<1>3. F \in Steps(Q, n)
  BY <1>2 DEF Steps
<1>4. PICK h : Recurs(h, Q, c, n, F)
  <2> HIDE DEF c, F
  <2> QED BY <1>1, <1>3, Recursion
<1>5. Parsed(fs, h)
  <2>1. \A k \in 1..n : F[k][h[k - 1]] = Go(h[k - 1], k)
    <3>1. \A k \in 1..n : k - 1 \in 0..n
      BY <1>1
    <3> QED BY <1>4, <3>1 DEF Recurs
  <2>2. h = [k \in 0..n |-> IF k = 0 THEN c ELSE Go(h[k - 1], k)]
    <3> HIDE DEF F, c
    <3>1. \A k \in 0..n : k # 0 => k \in 1..n
      BY <1>1
    <3> QED BY <1>4, <2>1, <3>1 DEF Recurs
  <2> QED BY <2>2 DEF Parsed, Go
<1> DEFINE g == CHOOSE x : Parsed(fs, x)
<1>6. Parsed(fs, g)
  BY <1>5
<1>7. Sse!events(fs) = g[n]
  BY DEF Sse!events, Parsed
<1> HIDE DEF g
<1>8. g[0] = c /\ \A k \in 1..n : g[k] = g[k - 1] \o Sse!parseFrame(fs[k])
  <2>1. \A k \in 1..n : k \in 0..n /\ k # 0
    BY <1>1
  <2> QED BY <1>1, <1>6, <2>1 DEF Parsed
<1> QED BY <1>7, <1>8

-----------------------------------------------------------------------------
(* The lines of a frame, whole or not *)

LEMMA Append1 == ASSUME NEW e1, NEW e2 PROVE Append(<<e1>>, e2) = <<e1, e2>>
<1> DEFINE s == Append(<<e1>>, e2)
           t == <<e1, e2>>
<1>1. s[1] = t[1] /\ s[2] = t[2]
  OBVIOUS
<1>2. s \in Seq({e1, e2}) /\ t \in Seq({e1, e2}) /\ Len(s) = 2 /\ Len(t) = 2
  OBVIOUS
<1> HIDE DEF s, t
<1>3. \A j \in 1..2 : s[j] = t[j]
  BY <1>1
<1> QED BY <1>2, <1>3, SeqEqual DEF s, t

LEMMA Append2 == ASSUME NEW e1, NEW e2, NEW e3 PROVE Append(<<e1, e2>>, e3) = <<e1, e2, e3>>
<1> DEFINE s == Append(<<e1, e2>>, e3)
           t == <<e1, e2, e3>>
<1>1. s[1] = t[1] /\ s[2] = t[2] /\ s[3] = t[3]
  OBVIOUS
<1>2. s \in Seq({e1, e2, e3}) /\ t \in Seq({e1, e2, e3}) /\ Len(s) = 3 /\ Len(t) = 3
  OBVIOUS
<1> HIDE DEF s, t
<1>3. \A j \in 1..3 : s[j] = t[j]
  BY <1>1
<1> QED BY <1>2, <1>3, SeqEqual DEF s, t

LEMMA Append3 == ASSUME NEW e1, NEW e2, NEW e3, NEW e4 PROVE Append(<<e1, e2, e3>>, e4) = <<e1, e2, e3, e4>>
<1> DEFINE s == Append(<<e1, e2, e3>>, e4)
           t == <<e1, e2, e3, e4>>
<1>1. s[1] = t[1] /\ s[2] = t[2] /\ s[3] = t[3] /\ s[4] = t[4]
  OBVIOUS
<1>2. s \in Seq({e1, e2, e3, e4}) /\ t \in Seq({e1, e2, e3, e4}) /\ Len(s) = 4 /\ Len(t) = 4
  OBVIOUS
<1> HIDE DEF s, t
<1>3. \A j \in 1..4 : s[j] = t[j]
  BY <1>1
<1> QED BY <1>2, <1>3, SeqEqual DEF s, t

LEMMA Lengthen1 ==
  ASSUME NEW l \in Seq(Chars), NEW c \in Chars
  PROVE  Sse!lengthened(<<l>>, c) = IF c = "\n" THEN <<l, <<>>>> ELSE <<Append(l, c)>>
<1> DEFINE m == Append(l, c)
<1>1. Sse!lengthened(<<l>>, c) = IF c = "\n" THEN Append(<<l>>, <<>>) ELSE [<<l>> EXCEPT ![1] = m]
  <2>1. Len(<<l>>) = 1 /\ <<l>>[1] = l
    OBVIOUS
  <2> QED BY <2>1 DEF Sse!lengthened, Sse!LF
<1> HIDE DEF m
<1>2. [<<l>> EXCEPT ![1] = m] = <<m>>
  <2> DEFINE s == [<<l>> EXCEPT ![1] = m]
             t == <<m>>
  <2>1. s \in [1..1 -> {l, m}] /\ t \in [1..1 -> {l, m}] /\ s[1] = t[1]
    OBVIOUS
  <2> HIDE DEF s, t
  <2>2. \A j \in 1..1 : s[j] = t[j]
    BY <2>1
  <2>3. s = t
    BY <2>1, <2>2
  <2> QED BY <2>3 DEF s, t
<1>3. Append(<<l>>, <<>>) = <<l, <<>>>>
  BY Append1
<1> QED BY <1>1, <1>2, <1>3 DEF m

LEMMA Lengthen2 ==
  ASSUME NEW a \in Seq(Chars), NEW l \in Seq(Chars), NEW c \in Chars
  PROVE  Sse!lengthened(<<a, l>>, c) = IF c = "\n" THEN <<a, l, <<>>>> ELSE <<a, Append(l, c)>>
<1> DEFINE m == Append(l, c)
<1>1. Sse!lengthened(<<a, l>>, c) = IF c = "\n" THEN Append(<<a, l>>, <<>>) ELSE [<<a, l>> EXCEPT ![2] = m]
  <2>1. Len(<<a, l>>) = 2 /\ <<a, l>>[2] = l
    OBVIOUS
  <2> QED BY <2>1 DEF Sse!lengthened, Sse!LF
<1> HIDE DEF m
<1>2. [<<a, l>> EXCEPT ![2] = m] = <<a, m>>
  <2> DEFINE s == [<<a, l>> EXCEPT ![2] = m]
             t == <<a, m>>
  <2>1. s \in [1..2 -> {a, l, m}] /\ t \in [1..2 -> {a, l, m}] /\ s[1] = t[1] /\ s[2] = t[2]
    OBVIOUS
  <2> HIDE DEF s, t
  <2>2. \A j \in 1..2 : s[j] = t[j]
    BY <2>1
  <2>3. s = t
    BY <2>1, <2>2
  <2> QED BY <2>3 DEF s, t
<1>3. Append(<<a, l>>, <<>>) = <<a, l, <<>>>>
  BY Append2
<1> QED BY <1>1, <1>2, <1>3 DEF m

\* An event on its way: the lines of the n characters of its frame that are there.
EventChars(w) == <<"event", "\n", "data", "{", w, "}", "\n">>
EventLines(w, n) ==
  CASE n = 0 -> << <<>> >>
    [] n = 1 -> << <<"event">> >>
    [] n = 2 -> << <<"event">>, <<>> >>
    [] n = 3 -> << <<"event">>, <<"data">> >>
    [] n = 4 -> << <<"event">>, <<"data", "{">> >>
    [] n = 5 -> << <<"event">>, <<"data", "{", w>> >>
    [] n = 6 -> << <<"event">>, <<"data", "{", w, "}">> >>
    [] n = 7 -> << <<"event">>, <<"data", "{", w, "}">>, <<>> >>

LEMMA Spelt ==
  ASSUME NEW w \in Payloads
  PROVE  /\ w # "\n" /\ w \in Chars /\ "\n" \in Chars /\ "event" \in Chars /\ "data" \in Chars
         /\ "{" \in Chars /\ "}" \in Chars
         /\ EventChars(w)[1] = "event" /\ EventChars(w)[2] = "\n" /\ EventChars(w)[3] = "data"
         /\ EventChars(w)[4] = "{" /\ EventChars(w)[5] = w /\ EventChars(w)[6] = "}" /\ EventChars(w)[7] = "\n"
<1>1. w # "\n"
  BY Marks
<1>2. w \in Chars /\ "\n" \in Chars /\ "event" \in Chars /\ "data" \in Chars /\ "{" \in Chars /\ "}" \in Chars
  BY DEF Chars
<1>3. /\ EventChars(w)[1] = "event" /\ EventChars(w)[2] = "\n" /\ EventChars(w)[3] = "data"
      /\ EventChars(w)[4] = "{" /\ EventChars(w)[5] = w /\ EventChars(w)[6] = "}" /\ EventChars(w)[7] = "\n"
  BY DEF EventChars
<1> QED BY <1>1, <1>2, <1>3

LEMMA Tuples ==
  ASSUME NEW S, NEW a \in S, NEW b \in S, NEW c \in S, NEW d \in S
  PROVE  <<a>> \in Seq(S) /\ <<a, b>> \in Seq(S) /\ <<a, b, c>> \in Seq(S) /\ <<a, b, c, d>> \in Seq(S)
OBVIOUS

LEMMA PiecesOfLines ==
  ASSUME NEW w \in Payloads
  PROVE  /\ <<>> \in Seq(Chars) /\ <<"event">> \in Seq(Chars) /\ <<"data">> \in Seq(Chars)
         /\ <<"data", "{">> \in Seq(Chars) /\ <<"data", "{", w>> \in Seq(Chars)
         /\ <<"data", "{", w, "}">> \in Seq(Chars)
<1>1. w \in Chars /\ "event" \in Chars /\ "data" \in Chars /\ "{" \in Chars /\ "}" \in Chars
  BY Spelt
<1>2. <<"event">> \in Seq(Chars)
  BY <1>1, Tuples
<1>3. <<"data">> \in Seq(Chars) /\ <<"data", "{">> \in Seq(Chars) /\ <<"data", "{", w>> \in Seq(Chars)
      /\ <<"data", "{", w, "}">> \in Seq(Chars)
  BY <1>1, Tuples, Zenon
<1>4. <<>> \in Seq(Chars)
  OBVIOUS
<1> QED BY <1>2, <1>3, <1>4, Zenon

LEMMA LinesAre ==
  ASSUME NEW w
  PROVE  /\ EventLines(w, 0) = << <<>> >>
         /\ EventLines(w, 1) = << <<"event">> >>
         /\ EventLines(w, 2) = << <<"event">>, <<>> >>
         /\ EventLines(w, 3) = << <<"event">>, <<"data">> >>
         /\ EventLines(w, 4) = << <<"event">>, <<"data", "{">> >>
         /\ EventLines(w, 5) = << <<"event">>, <<"data", "{", w>> >>
         /\ EventLines(w, 6) = << <<"event">>, <<"data", "{", w, "}">> >>
         /\ EventLines(w, 7) = << <<"event">>, <<"data", "{", w, "}">>, <<>> >>
<1>1. EventLines(w, 0) = << <<>> >>
  <2>1. 1 # 0 /\ 2 # 0 /\ 3 # 0 /\ 4 # 0 /\ 5 # 0 /\ 6 # 0 /\ 7 # 0
    OBVIOUS
  <2> QED BY <2>1, Zenon DEF EventLines
<1>2. EventLines(w, 1) = << <<"event">> >>
  <2>1. 0 # 1 /\ 2 # 1 /\ 3 # 1 /\ 4 # 1 /\ 5 # 1 /\ 6 # 1 /\ 7 # 1
    OBVIOUS
  <2> QED BY <2>1, Zenon DEF EventLines
<1>3. EventLines(w, 2) = << <<"event">>, <<>> >>
  <2>1. 0 # 2 /\ 1 # 2 /\ 3 # 2 /\ 4 # 2 /\ 5 # 2 /\ 6 # 2 /\ 7 # 2
    OBVIOUS
  <2> QED BY <2>1, Zenon DEF EventLines
<1>4. EventLines(w, 3) = << <<"event">>, <<"data">> >>
  <2>1. 0 # 3 /\ 1 # 3 /\ 2 # 3 /\ 4 # 3 /\ 5 # 3 /\ 6 # 3 /\ 7 # 3
    OBVIOUS
  <2> QED BY <2>1, Zenon DEF EventLines
<1>5. EventLines(w, 4) = << <<"event">>, <<"data", "{">> >>
  <2>1. 0 # 4 /\ 1 # 4 /\ 2 # 4 /\ 3 # 4 /\ 5 # 4 /\ 6 # 4 /\ 7 # 4
    OBVIOUS
  <2> QED BY <2>1, Zenon DEF EventLines
<1>6. EventLines(w, 5) = << <<"event">>, <<"data", "{", w>> >>
  <2>1. 0 # 5 /\ 1 # 5 /\ 2 # 5 /\ 3 # 5 /\ 4 # 5 /\ 6 # 5 /\ 7 # 5
    OBVIOUS
  <2> QED BY <2>1, Zenon DEF EventLines
<1>7. EventLines(w, 6) = << <<"event">>, <<"data", "{", w, "}">> >>
  <2>1. 0 # 6 /\ 1 # 6 /\ 2 # 6 /\ 3 # 6 /\ 4 # 6 /\ 5 # 6 /\ 7 # 6
    OBVIOUS
  <2> QED BY <2>1, Zenon DEF EventLines
<1>8. EventLines(w, 7) = << <<"event">>, <<"data", "{", w, "}">>, <<>> >>
  <2>1. 0 # 7 /\ 1 # 7 /\ 2 # 7 /\ 3 # 7 /\ 4 # 7 /\ 5 # 7 /\ 6 # 7
    OBVIOUS
  <2> QED BY <2>1, Zenon DEF EventLines
<1> QED BY <1>1, <1>2, <1>3, <1>4, <1>5, <1>6, <1>7, <1>8, Zenon

\* One character more.
LEMMA LinesGoOn ==
  ASSUME NEW w \in Payloads, NEW n \in 1..7
  PROVE  Sse!lengthened(EventLines(w, n - 1), EventChars(w)[n]) = EventLines(w, n)
<1>1. Sse!lengthened(EventLines(w, 0), EventChars(w)[1]) = EventLines(w, 1)
  <2>1. EventLines(w, 0) = << <<>> >> /\ EventLines(w, 1) = << <<"event">> >>
    BY LinesAre, Zenon
  <2>2. EventChars(w)[1] = "event"
    BY Spelt
  <2>3. <<>> \in Seq(Chars)
    BY PiecesOfLines, Zenon
  <2>7. "event" \in Chars /\ "event" # "\n"
    BY Spelt
  <2>5. Sse!lengthened(<< <<>> >>, "event") = <<Append(<<>>, "event")>>
    BY <2>3, <2>7, Lengthen1
  <2>6. Append(<<>>, "event") = <<"event">>
    OBVIOUS
  <2> QED BY <2>1, <2>2, <2>5, <2>6, Zenon
<1>2. Sse!lengthened(EventLines(w, 1), EventChars(w)[2]) = EventLines(w, 2)
  <2>1. EventLines(w, 1) = << <<"event">> >> /\ EventLines(w, 2) = << <<"event">>, <<>> >>
    BY LinesAre, Zenon
  <2>2. EventChars(w)[2] = "\n"
    BY Spelt
  <2>3. <<"event">> \in Seq(Chars)
    BY PiecesOfLines, Zenon
  <2>7. "\n" \in Chars
    BY Spelt
  <2>5. Sse!lengthened(<< <<"event">> >>, "\n") = << <<"event">>, <<>> >>
    BY <2>3, <2>7, Lengthen1
  <2> QED BY <2>1, <2>2, <2>5, Zenon
<1>3. Sse!lengthened(EventLines(w, 2), EventChars(w)[3]) = EventLines(w, 3)
  <2>1. EventLines(w, 2) = << <<"event">>, <<>> >> /\ EventLines(w, 3) = << <<"event">>, <<"data">> >>
    BY LinesAre, Zenon
  <2>2. EventChars(w)[3] = "data"
    BY Spelt
  <2>3. <<>> \in Seq(Chars)
    BY PiecesOfLines, Zenon
  <2>4. <<"event">> \in Seq(Chars)
    BY PiecesOfLines, Zenon
  <2>7. "data" \in Chars /\ "data" # "\n"
    BY Spelt
  <2>5. Sse!lengthened(<< <<"event">>, <<>> >>, "data") = <<<<"event">>, Append(<<>>, "data")>>
    BY <2>3, <2>4, <2>7, Lengthen2
  <2>6. Append(<<>>, "data") = <<"data">>
    OBVIOUS
  <2> QED BY <2>1, <2>2, <2>5, <2>6, Zenon
<1>4. Sse!lengthened(EventLines(w, 3), EventChars(w)[4]) = EventLines(w, 4)
  <2>1. EventLines(w, 3) = << <<"event">>, <<"data">> >> /\ EventLines(w, 4) = << <<"event">>, <<"data", "{">> >>
    BY LinesAre, Zenon
  <2>2. EventChars(w)[4] = "{"
    BY Spelt
  <2>3. <<"data">> \in Seq(Chars)
    BY PiecesOfLines, Zenon
  <2>4. <<"event">> \in Seq(Chars)
    BY PiecesOfLines, Zenon
  <2>7. "{" \in Chars /\ "{" # "\n"
    BY Spelt
  <2>5. Sse!lengthened(<< <<"event">>, <<"data">> >>, "{") = <<<<"event">>, Append(<<"data">>, "{")>>
    BY <2>3, <2>4, <2>7, Lengthen2
  <2>6. Append(<<"data">>, "{") = <<"data", "{">>
    BY Append1
  <2> QED BY <2>1, <2>2, <2>5, <2>6, Zenon
<1>5. Sse!lengthened(EventLines(w, 4), EventChars(w)[5]) = EventLines(w, 5)
  <2>1. EventLines(w, 4) = << <<"event">>, <<"data", "{">> >> /\ EventLines(w, 5) = << <<"event">>, <<"data", "{", w>> >>
    BY LinesAre, Zenon
  <2>2. EventChars(w)[5] = w
    BY Spelt
  <2>3. <<"data", "{">> \in Seq(Chars)
    BY PiecesOfLines, Zenon
  <2>4. <<"event">> \in Seq(Chars)
    BY PiecesOfLines, Zenon
  <2>7. w \in Chars /\ w # "\n"
    BY Spelt
  <2>5. Sse!lengthened(<< <<"event">>, <<"data", "{">> >>, w) = <<<<"event">>, Append(<<"data", "{">>, w)>>
    BY <2>3, <2>4, <2>7, Lengthen2
  <2>6. Append(<<"data", "{">>, w) = <<"data", "{", w>>
    BY Append2
  <2> QED BY <2>1, <2>2, <2>5, <2>6, Zenon
<1>6. Sse!lengthened(EventLines(w, 5), EventChars(w)[6]) = EventLines(w, 6)
  <2>1. EventLines(w, 5) = << <<"event">>, <<"data", "{", w>> >> /\ EventLines(w, 6) = << <<"event">>, <<"data", "{", w, "}">> >>
    BY LinesAre, Zenon
  <2>2. EventChars(w)[6] = "}"
    BY Spelt
  <2>3. <<"data", "{", w>> \in Seq(Chars)
    BY PiecesOfLines, Zenon
  <2>4. <<"event">> \in Seq(Chars)
    BY PiecesOfLines, Zenon
  <2>7. "}" \in Chars /\ "}" # "\n"
    BY Spelt
  <2>5. Sse!lengthened(<< <<"event">>, <<"data", "{", w>> >>, "}") = <<<<"event">>, Append(<<"data", "{", w>>, "}")>>
    BY <2>3, <2>4, <2>7, Lengthen2
  <2>6. Append(<<"data", "{", w>>, "}") = <<"data", "{", w, "}">>
    BY Append3
  <2> QED BY <2>1, <2>2, <2>5, <2>6, Zenon
<1>7. Sse!lengthened(EventLines(w, 6), EventChars(w)[7]) = EventLines(w, 7)
  <2>1. EventLines(w, 6) = << <<"event">>, <<"data", "{", w, "}">> >> /\ EventLines(w, 7) = << <<"event">>, <<"data", "{", w, "}">>, <<>> >>
    BY LinesAre, Zenon
  <2>2. EventChars(w)[7] = "\n"
    BY Spelt
  <2>3. <<"data", "{", w, "}">> \in Seq(Chars)
    BY PiecesOfLines, Zenon
  <2>4. <<"event">> \in Seq(Chars)
    BY PiecesOfLines, Zenon
  <2>7. "\n" \in Chars
    BY Spelt
  <2>5. Sse!lengthened(<< <<"event">>, <<"data", "{", w, "}">> >>, "\n") = << <<"event">>, <<"data", "{", w, "}">>, <<>> >>
    BY <2>3, <2>4, <2>7, Lengthen2
  <2> QED BY <2>1, <2>2, <2>5, Zenon
<1>8. n = 1 \/ n = 2 \/ n = 3 \/ n = 4 \/ n = 5 \/ n = 6 \/ n = 7
  OBVIOUS
<1> QED BY <1>1, <1>2, <1>3, <1>4, <1>5, <1>6, <1>7, <1>8

LEMMA LinesOfEvent ==
  ASSUME NEW w \in Payloads, NEW f \in Seq(Chars), NEW n \in 0..7, Len(f) = n,
         \A k \in 1..n : f[k] = EventChars(w)[k]
  PROVE  Sse!linesOf(f) = EventLines(w, n)
<1>1. PICK x : /\ x[0] = << <<>> >> /\ \A k \in 1..n : x[k] = Sse!lengthened(x[k - 1], f[k])
               /\ Sse!linesOf(f) = x[n]
  BY LinesOf
<1> DEFINE T == {k \in 0..n : x[k] = EventLines(w, k)}
<1>2. 0 \in T
  <2>1. EventLines(w, 0) = << <<>> >>
    BY LinesAre, Zenon
  <2> QED BY <1>1, <2>1
<1>3. ASSUME NEW k \in 1..n, k - 1 \in T PROVE k \in T
  <2>1. x[k] = Sse!lengthened(EventLines(w, k - 1), EventChars(w)[k]) /\ k \in 1..7
    BY <1>1, <1>3
  <2>2. x[k] = EventLines(w, k)
    BY <2>1, LinesGoOn
  <2> QED BY <2>2
<1>4. \A k \in 0..n : k \in T
  <2>1. n \in Nat
    OBVIOUS
  <2> HIDE DEF T
  <2> QED BY <1>2, <1>3, <2>1, UpTo
<1>5. x[n] = EventLines(w, n)
  BY <1>4
<1> QED BY <1>1, <1>5

LEMMA LinesOfKeepalive ==
  ASSUME NEW f \in Seq(Chars), NEW n \in 0..2, Len(f) = n, \A k \in 1..n : f[k] = <<":", "\n">>[k]
  PROVE  \/ Sse!linesOf(f) = << <<>> >> \/ Sse!linesOf(f) = << <<":">> >>
         \/ Sse!linesOf(f) = << <<":">>, <<>> >>
<1>1. PICK x : /\ x[0] = << <<>> >> /\ \A k \in 1..n : x[k] = Sse!lengthened(x[k - 1], f[k])
               /\ Sse!linesOf(f) = x[n]
  BY LinesOf
<1>2. ":" \in Chars /\ "\n" \in Chars
  BY DEF Chars
<1>3. <<>> \in Seq(Chars) /\ Append(<<>>, ":") = <<":">>
  OBVIOUS
<1>4. <<":">> \in Seq(Chars)
  BY <1>2
<1>5. Sse!lengthened(<< <<>> >>, ":") = << <<":">> >>
  <2>1. Sse!lengthened(<< <<>> >>, ":") = <<Append(<<>>, ":")>>
    BY <1>2, <1>3, Lengthen1
  <2> QED BY <1>3, <2>1, Zenon
<1>6. Sse!lengthened(<< <<":">> >>, "\n") = << <<":">>, <<>> >>
  BY <1>2, <1>4, Lengthen1
<1> DEFINE u == << <<>> >>
           v == << <<":">> >>
           y == << <<":">>, <<>> >>
<1>7. Sse!lengthened(u, ":") = v /\ Sse!lengthened(v, "\n") = y /\ x[0] = u
  BY <1>1, <1>5, <1>6
<1> SUFFICES Sse!linesOf(f) = u \/ Sse!linesOf(f) = v \/ Sse!linesOf(f) = y
  OBVIOUS
<1> HIDE DEF u, v, y
<1>8. <<":", "\n">>[1] = ":" /\ <<":", "\n">>[2] = "\n"
  OBVIOUS
<1>9. 1 <= n => x[1] = v
  BY <1>1, <1>7, <1>8
<1>10. 2 <= n => x[2] = y
  BY <1>1, <1>7, <1>8, <1>9
<1>11. n = 0 \/ n = 1 \/ n = 2
  OBVIOUS
<1> QED BY <1>1, <1>7, <1>9, <1>10, <1>11

-----------------------------------------------------------------------------
(* What a frame parses to *)

IsData(l) == l # <<>> /\ l[1] = "data"

\* At most the second line has data.
LEMMA DataOf ==
  ASSUME NEW E, NEW ls \in Seq(E), NEW n \in 1..3, Len(ls) = n, ~IsData(ls[1]), n = 3 => ~IsData(ls[3])
  PROVE  Sse!dataOf(ls) = IF n > 1 /\ IsData(ls[2]) THEN <<ls[2]>> ELSE <<>>
<1> DEFINE S == {l \in Sse!Range(ls) : IsData(l)}
<1>1. Sse!dataOf(ls) = Filter(ls, S)
  BY DEF Sse!dataOf, Sse!Filter, Filter, IsData
<1>2. ls[1] \notin S /\ (n = 3 => ls[3] \notin S)
  OBVIOUS
<1>3. n > 1 => (ls[2] \in S <=> IsData(ls[2]))
  <2>1. n > 1 => ls[2] \in Sse!Range(ls)
    <3>1. n > 1 => 2 \in DOMAIN ls
      OBVIOUS
    <3> QED BY <3>1 DEF Sse!Range
  <2> QED BY <2>1
<1> HIDE DEF S
<1>4. PICK g \in [0..Len(ls) -> Seq(E)] : Grows(ls, S, g) /\ Filter(ls, S) = g[Len(ls)]
  BY FilterGrows
<1>5. /\ g[0] = <<>> /\ Filter(ls, S) = g[n]
      /\ \A k \in 1..n : g[k] = IF ls[k] \in S THEN Append(g[k - 1], ls[k]) ELSE g[k - 1]
  BY <1>4 DEF Grows
<1>6. g[1] = <<>>
  BY <1>2, <1>5
<1>7. n > 1 => g[2] = IF IsData(ls[2]) THEN <<ls[2]>> ELSE <<>>
  <2>1. n > 1 => g[2] = IF ls[2] \in S THEN Append(<<>>, ls[2]) ELSE <<>>
    <3>1. n > 1 => 2 \in 1..n /\ 2 - 1 = 1
      OBVIOUS
    <3>2. n > 1 => g[2] = IF ls[2] \in S THEN Append(g[2 - 1], ls[2]) ELSE g[2 - 1]
      BY <1>5, <3>1
    <3> QED BY <1>6, <3>1, <3>2
  <2>2. Append(<<>>, ls[2]) = <<ls[2]>>
    OBVIOUS
  <2> QED BY <1>3, <2>1, <2>2
<1>8. n = 3 => g[3] = g[2]
  BY <1>2, <1>5
<1>9. n = 1 \/ n = 2 \/ n = 3
  OBVIOUS
<1> QED BY <1>1, <1>5, <1>6, <1>7, <1>8, <1>9

\* What is parsed is between the braces of that line, when it is whole.
LEMMA Parsing ==
  ASSUME NEW f, NEW E, NEW ls \in Seq(E), Sse!linesOf(f) = ls,
         NEW n \in 1..3, Len(ls) = n, ~IsData(ls[1]), n = 3 => ~IsData(ls[3])
  PROVE  Sse!parseFrame(f) = IF n > 1 /\ IsData(ls[2]) /\ Len(ls[2]) = 4 /\ ls[2][4] = "}"
                             THEN <<ls[2][3]>> ELSE <<>>
<1> DEFINE data == Sse!dataOf(ls)
<1>1. data = IF n > 1 /\ IsData(ls[2]) THEN <<ls[2]>> ELSE <<>>
  BY DataOf
<1>2. Sse!parseFrame(f) = IF Len(data) = 1 /\ Len(data[1]) = 4 /\ data[1][4] = "}" THEN <<data[1][3]>> ELSE <<>>
  BY DEF Sse!parseFrame
<1> HIDE DEF data
<1>3. Len(<<ls[2]>>) = 1 /\ <<ls[2]>>[1] = ls[2] /\ Len(<<>>) = 0
  OBVIOUS
<1>4. CASE n > 1 /\ IsData(ls[2])
  <2>1. Len(data) = 1 /\ data[1] = ls[2]
    BY <1>1, <1>3, <1>4
  <2> QED BY <1>2, <1>4, <2>1, Zenon
<1>5. CASE ~(n > 1 /\ IsData(ls[2]))
  <2>1. Len(data) # 1
    BY <1>1, <1>3, <1>5
  <2> QED BY <1>2, <1>5, <2>1, Zenon
<1> QED BY <1>4, <1>5

LEMMA Pair == ASSUME NEW a, NEW b PROVE <<a, b>>[1] = a /\ <<a, b>>[2] = b /\ Len(<<a, b>>) = 2
OBVIOUS

LEMMA Mere == ~IsData(<<>>) /\ ~IsData(<<"event">>) /\ ~IsData(<<":">>)
BY DEF IsData

\* Six characters of an event's frame are enough, fewer are not.
LEMMA EventParsed ==
  ASSUME NEW w \in Payloads, NEW f \in Seq(Chars), NEW n \in 0..7, Len(f) = n,
         \A k \in 1..n : f[k] = EventChars(w)[k]
  PROVE  Sse!parseFrame(f) = IF n >= 6 THEN <<w>> ELSE <<>>
<1> DEFINE E == Seq(Chars)
<1>1. /\ <<>> \in E /\ <<"event">> \in E /\ <<"data">> \in E
      /\ <<"data", "{">> \in E /\ <<"data", "{", w>> \in E /\ <<"data", "{", w, "}">> \in E
  BY PiecesOfLines, Zenon
<1> HIDE DEF E
<1>2. Sse!linesOf(f) = EventLines(w, n)
  BY LinesOfEvent
<1>3. CASE n < 2
  <2>1. PICK l \in E : Sse!linesOf(f) = <<l>> /\ ~IsData(l)
    <3>1. n = 0 \/ n = 1
      BY <1>3
    <3>2. CASE n = 0
      BY <1>1, <1>2, <3>2, LinesAre, Mere, Zenon
    <3>3. CASE n = 1
      BY <1>1, <1>2, <3>3, LinesAre, Mere, Zenon
    <3> QED BY <3>1, <3>2, <3>3
  <2>2. <<l>> \in Seq(E) /\ Len(<<l>>) = 1 /\ <<l>>[1] = l
    OBVIOUS
  <2>3. ~(1 > 1) /\ 1 \in 1..3 /\ 1 # 3
    OBVIOUS
  <2>4. Sse!parseFrame(f) = <<>>
    BY <2>1, <2>2, <2>3, Parsing
  <2> QED BY <1>3, <2>4
<1>4. CASE n \in 2..6
  <2>1. PICK l \in E : /\ Sse!linesOf(f) = <<<<"event">>, l>>
                       /\ n = 6 => l = <<"data", "{", w, "}">>
                       /\ n < 6 => Len(l) # 4
    <3> DEFINE Is(l) == /\ Sse!linesOf(f) = <<<<"event">>, l>>
                        /\ n = 6 => l = <<"data", "{", w, "}">>
                        /\ n < 6 => Len(l) # 4
    <3> SUFFICES \E l \in E : Is(l)
      OBVIOUS
    <3>1. n = 2 \/ n = 3 \/ n = 4 \/ n = 5 \/ n = 6
      BY <1>4
    <3>2. CASE n = 2
      <4>1. Sse!linesOf(f) = <<<<"event">>, <<>>>>
        BY <1>2, <3>2, LinesAre, Zenon
      <4>2. Len(<<>>) # 4 /\ n # 6
        BY <3>2
      <4>3. Is(<<>>)
        BY <4>1, <4>2, Zenon
      <4> QED BY <1>1, <4>3, Zenon
    <3>3. CASE n = 3
      <4>1. Sse!linesOf(f) = <<<<"event">>, <<"data">>>>
        BY <1>2, <3>3, LinesAre, Zenon
      <4>2. Len(<<"data">>) # 4 /\ n # 6
        BY <3>3
      <4>3. Is(<<"data">>)
        BY <4>1, <4>2, Zenon
      <4> QED BY <1>1, <4>3, Zenon
    <3>4. CASE n = 4
      <4>1. Sse!linesOf(f) = <<<<"event">>, <<"data", "{">>>>
        BY <1>2, <3>4, LinesAre, Zenon
      <4>2. Len(<<"data", "{">>) # 4 /\ n # 6
        BY <3>4
      <4>3. Is(<<"data", "{">>)
        BY <4>1, <4>2, Zenon
      <4> QED BY <1>1, <4>3, Zenon
    <3>5. CASE n = 5
      <4>1. Sse!linesOf(f) = <<<<"event">>, <<"data", "{", w>>>>
        BY <1>2, <3>5, LinesAre, Zenon
      <4>2. Len(<<"data", "{", w>>) # 4 /\ n # 6
        BY <3>5
      <4>3. Is(<<"data", "{", w>>)
        BY <4>1, <4>2, Zenon
      <4> QED BY <1>1, <4>3, Zenon
    <3>6. CASE n = 6
      <4>1. Sse!linesOf(f) = <<<<"event">>, <<"data", "{", w, "}">>>>
        BY <1>2, <3>6, LinesAre, Zenon
      <4>2. ~(n < 6)
        BY <3>6
      <4>3. Is(<<"data", "{", w, "}">>)
        BY <4>1, <4>2, Zenon
      <4> QED BY <1>1, <4>3, Zenon
    <3> QED BY <3>1, <3>2, <3>3, <3>4, <3>5, <3>6
  <2> DEFINE first == <<"event">>
             ls == <<first, l>>
  <2>2. ls \in Seq(E) /\ Len(ls) = 2 /\ ls[1] = first /\ ls[2] = l
    <3>1. first \in E
      BY <1>1
    <3> HIDE DEF first
    <3> QED BY <2>1, <3>1, Pair, Tuples
  <2>3. ~IsData(first) /\ 2 \in 1..3 /\ 2 > 1 /\ 2 # 3
    BY Mere
  <2>4. Sse!linesOf(f) = ls
    BY <2>1
  <2> HIDE DEF ls, first
  <2>5. Sse!parseFrame(f) = IF 2 > 1 /\ IsData(ls[2]) /\ Len(ls[2]) = 4 /\ ls[2][4] = "}"
                            THEN <<ls[2][3]>> ELSE <<>>
    BY <2>2, <2>3, <2>4, Parsing
  <2>6. Sse!parseFrame(f) = IF IsData(l) /\ Len(l) = 4 /\ l[4] = "}" THEN <<l[3]>> ELSE <<>>
    BY <2>2, <2>3, <2>5
  <2>7. CASE n = 6
    <3>1. IsData(l) /\ Len(l) = 4 /\ l[4] = "}" /\ l[3] = w
      <4>1. l = <<"data", "{", w, "}">>
        BY <2>1, <2>7
      <4> QED BY <4>1 DEF IsData
    <3>2. n >= 6
      BY <2>7
    <3> QED BY <2>6, <3>1, <3>2, Zenon
  <2>8. CASE n < 6
    <3>1. ~(n >= 6)
      BY <2>8
    <3> QED BY <2>1, <2>6, <2>8, <3>1, Zenon
  <2> QED BY <1>4, <2>7, <2>8
<1>5. CASE n = 7
  <2> DEFINE first == <<"event">>
             l == <<"data", "{", w, "}">>
             ls == <<first, l, <<>>>>
  <2>1. IsData(l) /\ Len(l) = 4 /\ l[4] = "}" /\ l[3] = w
    BY DEF IsData
  <2>2. Sse!linesOf(f) = ls
    BY <1>2, <1>5, LinesAre, Zenon
  <2>3. first \in E /\ l \in E /\ ~IsData(first) /\ ~IsData(<<>>)
    BY <1>1, Mere, Zenon
  <2> HIDE DEF first, l
  <2>4. ls \in Seq(E) /\ Len(ls) = 3 /\ ls[1] = first /\ ls[2] = l /\ ls[3] = <<>>
    <3>1. <<>> \in E
      BY <1>1, Zenon
    <3>2. ls \in Seq(E)
      BY <2>3, <3>1, Tuples, Zenon
    <3> QED BY <3>2
  <2>6. 3 \in 1..3 /\ 3 > 1 /\ n >= 6
    BY <1>5
  <2> HIDE DEF ls
  <2>5. Sse!parseFrame(f) = IF 3 > 1 /\ IsData(ls[2]) /\ Len(ls[2]) = 4 /\ ls[2][4] = "}"
                            THEN <<ls[2][3]>> ELSE <<>>
    BY <2>2, <2>3, <2>4, <2>6, Parsing
  <2> QED BY <2>1, <2>4, <2>5, <2>6, Zenon
<1> QED BY <1>3, <1>4, <1>5

LEMMA KeepaliveParsed ==
  ASSUME NEW f \in Seq(Chars), NEW n \in 0..2, Len(f) = n, \A k \in 1..n : f[k] = <<":", "\n">>[k]
  PROVE  Sse!parseFrame(f) = <<>>
<1> DEFINE E == Seq(Chars)
           colon == <<":">>
<1>1. <<>> \in E /\ colon \in E
  <2>1. ":" \in Chars
    BY DEF Chars
  <2> QED BY <2>1, Tuples
<1>2. \/ Sse!linesOf(f) = << <<>> >> \/ Sse!linesOf(f) = <<colon>> \/ Sse!linesOf(f) = <<colon, <<>> >>
  BY LinesOfKeepalive
<1>3. ~IsData(<<>>) /\ ~IsData(colon)
  BY Mere
<1> HIDE DEF E, colon
<1>4. ASSUME NEW l \in E, ~IsData(l), Sse!linesOf(f) = <<l>> PROVE Sse!parseFrame(f) = <<>>
  <2>1. <<l>> \in Seq(E) /\ Len(<<l>>) = 1 /\ <<l>>[1] = l /\ 1 \in 1..3 /\ 1 # 3 /\ ~(1 > 1)
    OBVIOUS
  <2> QED BY <1>4, <2>1, Parsing
<1>5. CASE Sse!linesOf(f) = <<colon, <<>> >>
  <2> DEFINE ls == <<colon, <<>> >>
  <2>1. ls \in Seq(E) /\ Len(ls) = 2 /\ ls[1] = colon /\ ls[2] = <<>> /\ 2 \in 1..3 /\ 2 # 3
    BY <1>1, Pair, Tuples
  <2>2. Sse!linesOf(f) = ls
    BY <1>5
  <2> HIDE DEF ls
  <2>3. Sse!parseFrame(f) = IF 2 > 1 /\ IsData(ls[2]) /\ Len(ls[2]) = 4 /\ ls[2][4] = "}"
                            THEN <<ls[2][3]>> ELSE <<>>
    BY <1>3, <2>1, <2>2, Parsing
  <2> QED BY <1>3, <2>1, <2>3
<1> QED BY <1>1, <1>2, <1>3, <1>4, <1>5

Body(w) == SubSeq(Sse!frame(w), 1, Len(Sse!frame(w)) - 2)

LEMMA FrameOfKeepalive ==
  ASSUME NEW w, w = "keepalive"
  PROVE  Sse!frame(w) \in Seq(Chars) /\ Len(Sse!frame(w)) = 3
         /\ Sse!frame(w)[1] = ":" /\ Sse!frame(w)[2] = "\n" /\ Sse!frame(w)[3] = "\n"
<1>1. Sse!frame(w) = <<":", "\n", "\n">>
  BY Marks DEF Sse!frame
<1>2. ":" \in Chars /\ "\n" \in Chars
  BY DEF Chars
<1>3. <<":", "\n", "\n">> \in Seq(Chars)
  BY <1>2, Tuples, Zenon
<1>4. Len(<<":", "\n", "\n">>) = 3 /\ <<":", "\n", "\n">>[1] = ":" /\ <<":", "\n", "\n">>[2] = "\n"
      /\ <<":", "\n", "\n">>[3] = "\n"
  OBVIOUS
<1> QED BY <1>1, <1>3, <1>4, Zenon

LEMMA Eight ==
  ASSUME NEW S, NEW e1 \in S, NEW e2 \in S, NEW e3 \in S, NEW e4 \in S, NEW e5 \in S, NEW e6 \in S,
         NEW e7 \in S, NEW e8 \in S
  PROVE  <<e1, e2, e3, e4, e5, e6, e7, e8>> \in Seq(S)
OBVIOUS

LEMMA FrameOfEvent ==
  ASSUME NEW w \in Payloads
  PROVE  Sse!frame(w) \in Seq(Chars) /\ Len(Sse!frame(w)) = 8 /\ Sse!frame(w)[8] = "\n"
         /\ \A k \in 1..7 : Sse!frame(w)[k] = EventChars(w)[k]
<1> DEFINE f == <<"event", "\n", "data", "{", w, "}", "\n", "\n">>
<1>1. Sse!frame(w) = f
  BY Marks DEF Sse!frame
<1>2. "event" \in Chars /\ "\n" \in Chars /\ "data" \in Chars /\ "{" \in Chars /\ w \in Chars /\ "}" \in Chars
  BY Spelt
<1>3. f \in Seq(Chars)
  BY <1>2, Eight, Zenon
<1>4. Len(f) = 8 /\ f[8] = "\n" /\ f[1] = "event" /\ f[2] = "\n" /\ f[3] = "data" /\ f[4] = "{" /\ f[5] = w
      /\ f[6] = "}" /\ f[7] = "\n"
  OBVIOUS
<1> HIDE DEF f
<1>5. ASSUME NEW k \in 1..7 PROVE f[k] = EventChars(w)[k]
  <2>1. k = 1 \/ k = 2 \/ k = 3 \/ k = 4 \/ k = 5 \/ k = 6 \/ k = 7
    OBVIOUS
  <2> DEFINE c == EventChars(w)
  <2>2. c[1] = "event" /\ c[2] = "\n" /\ c[3] = "data" /\ c[4] = "{" /\ c[5] = w /\ c[6] = "}" /\ c[7] = "\n"
    BY Spelt
  <2> HIDE DEF c
  <2>3. f[k] = c[k]
    BY <1>4, <2>1, <2>2
  <2> QED BY <2>3 DEF c
<1> QED BY <1>1, <1>3, <1>4, <1>5, Zenon

\* Of a frame, only the end is blank.
LEMMA FrameEnds ==
  ASSUME NEW w \in Writes
  PROVE  /\ Sse!frame(w) \in Seq(Chars) /\ Len(Sse!frame(w)) \in Nat /\ Len(Sse!frame(w)) \in {3, 8}
         /\ Sse!frame(w)[Len(Sse!frame(w)) - 1] = "\n" /\ Sse!frame(w)[Len(Sse!frame(w))] = "\n"
         /\ \A k \in 1..(Len(Sse!frame(w)) - 2) : ~(Sse!frame(w)[k] = "\n" /\ Sse!frame(w)[k + 1] = "\n")
<1> DEFINE f == Sse!frame(w)
<1>1. CASE w = "keepalive"
  <2>1. f \in Seq(Chars) /\ Len(f) = 3 /\ f[1] = ":" /\ f[2] = "\n" /\ f[3] = "\n"
    BY <1>1, FrameOfKeepalive
  <2> HIDE DEF f
  <2>2. \A k \in 1..(Len(f) - 2) : k = 1
    BY <2>1
  <2> QED BY <2>1, <2>2 DEF f
<1>2. CASE w \in Payloads
  <2>1. f \in Seq(Chars) /\ Len(f) = 8 /\ f[8] = "\n" /\ \A k \in 1..7 : f[k] = EventChars(w)[k]
    BY <1>2, FrameOfEvent
  <2> HIDE DEF f
  <2>2. f[1] = "event" /\ f[3] = "data" /\ f[4] = "{" /\ f[5] = w /\ f[6] = "}" /\ f[7] = "\n" /\ w # "\n"
    <3>1. 1 \in 1..7 /\ 3 \in 1..7 /\ 4 \in 1..7 /\ 5 \in 1..7 /\ 6 \in 1..7 /\ 7 \in 1..7
      OBVIOUS
    <3> DEFINE c == EventChars(w)
    <3>2. w # "\n" /\ c[1] = "event" /\ c[3] = "data" /\ c[4] = "{" /\ c[5] = w /\ c[6] = "}" /\ c[7] = "\n"
      BY <1>2, Spelt
    <3>3. \A k \in 1..7 : f[k] = c[k]
      BY <2>1
    <3> HIDE DEF c
    <3> QED BY <3>1, <3>2, <3>3
  <2>3. ASSUME NEW k \in 1..(Len(f) - 2) PROVE ~(f[k] = "\n" /\ f[k + 1] = "\n")
    <3>1. k = 1 \/ k = 2 \/ k = 3 \/ k = 4 \/ k = 5 \/ k = 6
      BY <2>1
    <3>2. 2 + 1 = 3
      OBVIOUS
    <3>3. "event" # "\n" /\ "data" # "\n" /\ "{" # "\n" /\ "}" # "\n"
      OBVIOUS
    <3> QED BY <2>2, <3>1, <3>2, <3>3, Zenon
  <2>4. Len(f) - 1 = 7 /\ Len(f) = 8 /\ Len(f) \in Nat
    BY <2>1
  <2> QED BY <2>1, <2>2, <2>3, <2>4 DEF f
<1> QED BY <1>1, <1>2 DEF Writes

LEMMA BodyParsed ==
  ASSUME NEW w \in Writes
  PROVE  Body(w) \in Seq(Chars) /\ Sse!parseFrame(Body(w)) = IF w \in Payloads THEN <<w>> ELSE <<>>
<1> DEFINE f == Sse!frame(w)
           b == Body(w)
           n == Len(f) - 2
<1>1. f \in Seq(Chars) /\ n \in Nat /\ n <= Len(f) /\ (n = 1 \/ n = 6)
  BY FrameEnds
<1>2. b \in Seq(Chars) /\ Len(b) = n /\ \A k \in 1..n : b[k] = f[k]
  <2> HIDE DEF f
  <2>1. b = SubSeq(f, 1, n)
    BY DEF Body, f
  <2>2. \A k \in 1..n : f[k] \in Chars
    BY <1>1
  <2> HIDE DEF n, b
  <2> QED BY <1>1, <2>1, <2>2, SubSeqProperties
<1> HIDE DEF f, b
<1>3. CASE w \in Payloads
  <2>1. n = 6 /\ \A k \in 1..7 : f[k] = EventChars(w)[k]
    BY <1>3, FrameOfEvent DEF f
  <2> HIDE DEF n
  <2>2. \A k \in 1..n : b[k] = EventChars(w)[k]
    BY <1>2, <2>1
  <2>3. n \in 0..7 /\ n >= 6
    BY <2>1
  <2>4. Sse!parseFrame(b) = <<w>>
    BY <1>2, <1>3, <2>2, <2>3, EventParsed
  <2> QED BY <1>2, <1>3, <2>4 DEF b
<1>4. CASE w \notin Payloads
  <2>0. w = "keepalive"
    BY <1>4 DEF Writes
  <2>1. n = 1 /\ f[1] = ":"
    BY <2>0, FrameOfKeepalive DEF f
  <2> HIDE DEF n
  <2>2. \A k \in 1..n : b[k] = <<":", "\n">>[k]
    <3>1. \A k \in 1..n : k = 1
      BY <2>1
    <3>2. <<":", "\n">>[1] = ":"
      OBVIOUS
    <3> QED BY <1>2, <2>1, <3>1, <3>2
  <2>3. n \in 0..2
    BY <2>1
  <2>4. Sse!parseFrame(b) = <<>>
    BY <1>2, <2>2, <2>3, KeepaliveParsed
  <2> QED BY <1>2, <1>4, <2>4 DEF b
<1> QED BY <1>3, <1>4

-----------------------------------------------------------------------------
(* Taking frames off a text *)

\* A text s and the rest of the stream, that is a frame and what follows it.
LEMMA InFrame ==
  ASSUME NEW f \in Seq(Chars), NEW s \in Seq(Chars), NEW t \in Seq(Chars), NEW u \in Seq(Chars), s \o t = f \o u
  PROVE  /\ Len(s) \in Nat /\ Len(f) \in Nat
         /\ \A k \in 1..Len(s) : k <= Len(f) => s[k] = f[k]
<1> DEFINE n == Len(s)
           m == Len(f)
<1>1. n \in Nat /\ m \in Nat
  OBVIOUS
<1>2. \A k \in 1..(n + Len(t)) : (s \o t)[k] = IF k <= n THEN s[k] ELSE t[k - n]
  BY ConcatProperties
<1>3. \A k \in 1..(m + Len(u)) : (f \o u)[k] = IF k <= m THEN f[k] ELSE u[k - m]
  BY ConcatProperties
<1>4. Len(t) \in Nat /\ Len(u) \in Nat
  OBVIOUS
<1> HIDE DEF n, m
<1>5. ASSUME NEW k \in 1..n, k <= m PROVE s[k] = f[k]
  <2>1. k \in 1..(n + Len(t)) /\ k \in 1..(m + Len(u))
    BY <1>1, <1>4, <1>5
  <2>2. (s \o t)[k] = s[k]
    <3>1. k <= n
      BY <1>1
    <3>2. (s \o t)[k] = IF k <= n THEN s[k] ELSE t[k - n]
      BY <1>2, <2>1
    <3> QED BY <3>1, <3>2, Zenon
  <2>3. (f \o u)[k] = f[k]
    BY <1>3, <1>5, <2>1
  <2> QED BY <2>2, <2>3, Zenon
<1> QED BY <1>1, <1>5 DEF n, m

LEMMA NotWhole ==
  ASSUME NEW w \in Writes, NEW s \in Seq(Chars), NEW t \in Seq(Chars), NEW u \in Seq(Chars),
         s \o t = Sse!frame(w) \o u, Len(s) < Len(Sse!frame(w))
  PROVE  Sse!boundaries(s) = {}
<1> DEFINE f == Sse!frame(w)
<1>1. f \in Seq(Chars) /\ Len(f) \in Nat
      /\ \A k \in 1..(Len(f) - 2) : ~(f[k] = "\n" /\ f[k + 1] = "\n")
  BY FrameEnds
<1>2. Len(s) \in Nat /\ \A k \in 1..Len(s) : k <= Len(f) => s[k] = f[k]
  BY <1>1, InFrame
<1> HIDE DEF f
<1>3. ASSUME NEW k \in 1..(Len(s) - 1), s[k] = "\n", s[k + 1] = "\n" PROVE FALSE
  <2>1. k \in 1..(Len(f) - 2) /\ k \in 1..Len(s) /\ k + 1 \in 1..Len(s) /\ k <= Len(f) /\ k + 1 <= Len(f)
    BY <1>1, <1>2 DEF f
  <2> QED BY <1>1, <1>2, <1>3, <2>1
<1> QED BY <1>3, Marks DEF Sse!boundaries

LEMMA Regrouped ==
  ASSUME NEW a \in Seq(Chars), NEW b \in Seq(Chars), NEW c \in Seq(Chars)
  PROVE  (a \o b) \o c = a \o (b \o c)
BY ConcatAssociative

\* s starts with the frame of w, and u is all that follows; a turn takes the frame.
Starts(w, s, t, u) == s \o t = Sse!frame(w) \o u /\ Len(s) >= Len(Sse!frame(w))
TakesIt(fs, w, s, t, u) ==
  \E v \in Seq(Chars) :
    /\ Sse!takeOne([frames |-> fs, rest |-> s]) = [frames |-> Append(fs, Body(w)), rest |-> v]
    /\ v \o t = u /\ Len(v) < Len(s)

LEMMA Whole ==
  ASSUME NEW w \in Writes, NEW s \in Seq(Chars), NEW t \in Seq(Chars), NEW u \in Seq(Chars),
         Starts(w, s, t, u), NEW fs
  PROVE  TakesIt(fs, w, s, t, u)
<1> DEFINE f == Sse!frame(w)
           n == Len(f)
           v == SubSeq(s, n + 1, Len(s))
           k == CHOOSE k \in Sse!boundaries(s) : \A j \in Sse!boundaries(s) : k <= j
<1>1. /\ f \in Seq(Chars) /\ n \in Nat /\ n \in {3, 8} /\ f[n - 1] = "\n" /\ f[n] = "\n"
      /\ \A j \in 1..(n - 2) : ~(f[j] = "\n" /\ f[j + 1] = "\n")
  BY FrameEnds
<1>0. s \o t = f \o u /\ Len(s) >= Len(f)
  BY DEF Starts
<1>2. Len(s) \in Nat /\ n <= Len(s) /\ \A j \in 1..Len(s) : j <= n => s[j] = f[j]
  <2>1. Len(s) \in Nat /\ \A j \in 1..Len(s) : j <= n => s[j] = f[j]
    BY <1>0, <1>1, InFrame
  <2> QED BY <1>0, <1>1, <2>1
<1>3. Sse!boundaries(s) = {j \in 1..(Len(s) - 1) : s[j] = "\n" /\ s[j + 1] = "\n"}
  BY Marks DEF Sse!boundaries
<1>4. n - 1 \in Sse!boundaries(s)
  <2> HIDE DEF f, n
  <2>1. n - 1 \in 1..(Len(s) - 1) /\ n - 1 \in 1..Len(s) /\ n \in 1..Len(s) /\ n - 1 <= n /\ (n - 1) + 1 = n
    BY <1>1, <1>2
  <2>2. s[n - 1] = f[n - 1] /\ s[n] = f[n]
    <3>1. n <= n
      BY <1>1
    <3> QED BY <1>2, <2>1, <3>1, Zenon
  <2>3. s[n - 1] = "\n" /\ s[(n - 1) + 1] = "\n"
    BY <1>1, <2>1, <2>2, Zenon
  <2> QED BY <1>3, <2>1, <2>3
<1>5. k \in Sse!boundaries(s) /\ \A j \in Sse!boundaries(s) : k <= j
  BY <1>4, FirstBoundary
<1>6. k = n - 1
  <2> HIDE DEF f, n, k
  <2>1. k <= n - 1 /\ k \in 1..(Len(s) - 1) /\ s[k] = "\n" /\ s[k + 1] = "\n"
    BY <1>3, <1>4, <1>5
  <2>2. ~(k \in 1..(n - 2))
    <3> SUFFICES ASSUME k \in 1..(n - 2) PROVE FALSE
      OBVIOUS
    <3>1. k \in 1..Len(s) /\ k + 1 \in 1..Len(s) /\ k <= n /\ k + 1 <= n
      BY <1>1, <1>2, <2>1
    <3> QED BY <1>1, <1>2, <2>1, <3>1
  <2> QED BY <1>1, <2>1, <2>2
<1>7. Sse!takeOne([frames |-> fs, rest |-> s]) =
        [frames |-> Append(fs, SubSeq(s, 1, k - 1)), rest |-> SubSeq(s, k + 2, Len(s))]
  BY <1>4 DEF Sse!takeOne
<1> HIDE DEF k
<1>8. k - 1 = n - 2 /\ k + 2 = n + 1
  <2> HIDE DEF n
  <2> QED BY <1>1, <1>6
<1>9. SubSeq(s, 1, n - 2) = Body(w)
  <2> DEFINE a == SubSeq(s, 1, n - 2)
             b == SubSeq(f, 1, n - 2)
  <2> HIDE DEF f, n
  <2>1. \A j \in 1..(n - 2) : s[j] \in Chars /\ f[j] \in Chars /\ s[j] = f[j]
    <3>1. \A j \in 1..(n - 2) : j \in 1..Len(s) /\ j <= n
      BY <1>1, <1>2
    <3>2. \A j \in 1..Len(s) : s[j] \in Chars
      OBVIOUS
    <3> QED BY <1>2, <3>1, <3>2
  <2>2. n - 2 \in Nat /\ 1 \in Int /\ n - 2 \in Int
    BY <1>1
  <2>3. /\ a \in Seq(Chars) /\ Len(a) = IF 1 <= n - 2 THEN n - 2 - 1 + 1 ELSE 0
        /\ \A j \in 1..(n - 2 - 1 + 1) : a[j] = s[1 + j - 1]
    BY <2>1, <2>2, SubSeqProperties
  <2>4. /\ b \in Seq(Chars) /\ Len(b) = IF 1 <= n - 2 THEN n - 2 - 1 + 1 ELSE 0
        /\ \A j \in 1..(n - 2 - 1 + 1) : b[j] = f[1 + j - 1]
    BY <2>1, <2>2, SubSeqProperties
  <2> HIDE DEF a, b
  <2>5. n - 2 - 1 + 1 = n - 2 /\ 1 <= n - 2
    BY <1>1
  <2>6. \A j \in 1..(n - 2) : 1 + j - 1 = j
    OBVIOUS
  <2>7. Len(a) = n - 2 /\ Len(b) = n - 2 /\ \A j \in 1..(n - 2) : a[j] = s[j] /\ b[j] = f[j]
    BY <2>3, <2>4, <2>5, <2>6
  <2>8. \A j \in 1..Len(a) : a[j] = b[j]
    BY <2>1, <2>7
  <2>9. a = b
    BY <2>3, <2>4, <2>7, <2>8, SeqEqual
  <2> QED BY <2>9 DEF a, b, Body, f, n
<1>10. v \in Seq(Chars) /\ Len(v) = Len(s) - n
  <2> HIDE DEF f, n
  <2>1. \A j \in (n + 1)..Len(s) : s[j] \in Chars
    BY <1>1, <1>2
  <2>2. /\ v \in Seq(Chars) /\ Len(v) = IF n + 1 <= Len(s) THEN Len(s) - (n + 1) + 1 ELSE 0
    BY <1>1, <1>2, <2>1, SubSeqProperties
  <2> HIDE DEF v
  <2> QED BY <1>1, <1>2, <2>2
<1>11. s = f \o v
  <2> HIDE DEF v
  <2>1. f \o v \in Seq(Chars) /\ Len(f \o v) = n + Len(v)
        /\ \A j \in 1..(n + Len(v)) : (f \o v)[j] = IF j <= n THEN f[j] ELSE v[j - n]
    BY <1>1, <1>10, ConcatProperties
  <2>2. \A j \in 1..(Len(s) - (n + 1) + 1) : v[j] = s[n + 1 + j - 1]
    <3>1. \A j \in (n + 1)..Len(s) : s[j] \in Chars
      BY <1>1, <1>2
    <3>2. n + 1 \in Int /\ Len(s) \in Int
      BY <1>1, <1>2
    <3> HIDE DEF n
    <3> QED BY <3>1, <3>2, SubSeqProperties DEF v
  <2> DEFINE x == f \o v
  <2>3. x \in Seq(Chars) /\ Len(x) = Len(s) /\ \A j \in 1..Len(s) : x[j] = IF j <= n THEN f[j] ELSE v[j - n]
    <3> HIDE DEF n, f
    <3>1. n + Len(v) = Len(s)
      BY <1>1, <1>2, <1>10
    <3> QED BY <2>1, <3>1
  <2> HIDE DEF x, f, n
  <2>4. ASSUME NEW j \in 1..Len(s) PROVE x[j] = s[j]
    <3>1. CASE j <= n
      BY <1>2, <2>3, <3>1
    <3>2. CASE j > n
      <4>1. j - n \in 1..(Len(s) - (n + 1) + 1) /\ n + 1 + (j - n) - 1 = j /\ ~(j <= n)
        BY <1>1, <1>2, <3>2
      <4>2. v[j - n] = s[n + 1 + (j - n) - 1]
        BY <2>2, <4>1
      <4> QED BY <2>3, <4>1, <4>2
    <3> QED BY <1>1, <1>2, <3>1, <3>2
  <2>5. x = s
    BY <2>3, <2>4, SeqEqual
  <2> QED BY <2>5 DEF x
<1>12. v \o t = u
  <2> HIDE DEF v, f
  <2>0. f \in Seq(Chars) /\ v \in Seq(Chars) /\ t \in Seq(Chars)
    BY <1>1, <1>10 DEF f
  <2>a. v \o t \in Seq(Chars)
    BY <2>0, ConcatProperties
  <2>b. (f \o v) \o t = f \o (v \o t)
    BY <2>0, Regrouped
  <2>1. (f \o v) \o t = f \o (v \o t) /\ v \o t \in Seq(Chars)
    BY <2>a, <2>b
  <2>2. f \o (v \o t) = f \o u
    BY <1>0, <1>11, <2>1 DEF f
  <2> QED BY <1>1, <2>1, <2>2, ConcatSimplifications
<1>13. Len(v) < Len(s)
  <2> HIDE DEF v, n
  <2> QED BY <1>1, <1>2, <1>10
<1> QED BY <1>7, <1>8, <1>9, <1>10, <1>12, <1>13 DEF TakesIt

\* What is left of the stream after each of its frames.
Remains(r, ws) ==
  /\ r \in [0..Len(ws) -> Seq(Chars)] /\ r[Len(ws)] = <<>>
  /\ \A j \in 1..Len(ws) : r[j - 1] = Sse!frame(ws[j]) \o r[j]

\* s does not hold the frame that comes after j others.
Incomplete(s, ws, j) == j < Len(ws) => Len(s) < Len(Sse!frame(ws[j + 1]))

\* The frames fs are those from m to j, s is a part of what follows, and t the rest.
Goes(fs, s, t, ws, r, m, j) ==
  /\ fs \in Seq(Seq(Chars)) /\ Len(fs) = j - m /\ \A i \in 1..(j - m) : fs[i] = Body(ws[m + i])
  /\ s \in Seq(Chars) /\ s \o t = r[j]

\* One turn takes a frame, or there is none to take.
LEMMA OneTaken ==
  ASSUME NEW ws \in Seq(Writes), NEW r, Remains(r, ws), NEW m \in 0..Len(ws), NEW j \in m..Len(ws),
         NEW fs, NEW s, NEW t \in Seq(Chars), Goes(fs, s, t, ws, r, m, j)
  PROVE  \/ Incomplete(s, ws, j) /\ Sse!takeOne([frames |-> fs, rest |-> s]) = [frames |-> fs, rest |-> s]
         \/ /\ j + 1 \in m..Len(ws) /\ ~Incomplete(s, ws, j)
            /\ \E gs, v : /\ Sse!takeOne([frames |-> fs, rest |-> s]) = [frames |-> gs, rest |-> v]
                          /\ Goes(gs, v, t, ws, r, m, j + 1) /\ Len(v) < Len(s)
<1> DEFINE n == Len(ws)
           f == Sse!frame(ws[j + 1])
           E == Seq(Chars)
<1>1. n \in Nat /\ m \in Nat /\ j \in Nat /\ m <= j /\ j <= n
  OBVIOUS
<1>2. s \in Seq(Chars) /\ s \o t = r[j] /\ fs \in Seq(E) /\ Len(fs) = j - m
      /\ \A i \in 1..(j - m) : fs[i] = Body(ws[m + i])
  BY DEF Goes
<1>3. CASE j = n
  <2>1. s \o t = <<>>
    BY <1>2, <1>3 DEF Remains
  <2>2. s = <<>>
    BY <1>2, <2>1, ConcatSimplifications
  <2>3. Sse!boundaries(s) = {}
    BY <2>2 DEF Sse!boundaries
  <2>4. Incomplete(s, ws, j)
    BY <1>1, <1>3 DEF Incomplete
  <2> QED BY <2>3, <2>4 DEF Sse!takeOne
<1>4. CASE j # n
  <2>1. j + 1 \in 1..n /\ j + 1 \in m..n /\ (j + 1) - 1 = j /\ j + 1 \in 0..n
    BY <1>1, <1>4
  <2>2. ws[j + 1] \in Writes
    BY <2>1
  <2>3. r[j + 1] \in Seq(Chars) /\ r[j] = f \o r[j + 1]
    <3>1. r[j + 1] \in Seq(Chars)
      BY <2>1 DEF Remains
    <3>2. r[(j + 1) - 1] = f \o r[j + 1]
      BY <2>1 DEF Remains
    <3> QED BY <2>1, <3>1, <3>2
  <2> HIDE DEF n
  <2>4. Len(f) \in Nat /\ Len(s) \in Nat
    <3>1. Len(s) \in Nat
      BY <1>2
    <3> QED BY <2>2, <3>1, FrameEnds
  <2>5. s \o t = f \o r[j + 1]
    BY <1>2, <2>3
  <2> HIDE DEF E
  <2>6. CASE Len(s) < Len(f)
    <3>1. Sse!boundaries(s) = {}
      BY <1>2, <2>2, <2>3, <2>5, <2>6, NotWhole
    <3>2. Incomplete(s, ws, j)
      BY <2>6 DEF Incomplete
    <3> QED BY <3>1, <3>2 DEF Sse!takeOne
  <2>7. CASE Len(s) >= Len(f)
    <3> DEFINE gs == Append(fs, Body(ws[j + 1]))
    <3>1. PICK v \in Seq(Chars) :
            /\ Sse!takeOne([frames |-> fs, rest |-> s]) = [frames |-> gs, rest |-> v]
            /\ v \o t = r[j + 1] /\ Len(v) < Len(s)
      <4> DEFINE w == ws[j + 1]
                 u == r[j + 1]
      <4>1. w \in Writes /\ s \in Seq(Chars) /\ u \in Seq(Chars)
        BY <1>2, <2>2, <2>3
      <4>2. Starts(w, s, t, u)
        BY <2>5, <2>7 DEF Starts
      <4> HIDE DEF w, u
      <4>3. TakesIt(fs, w, s, t, u)
        BY <4>1, <4>2, Whole
      <4> QED BY <4>3 DEF TakesIt, w, u
    <3>2. Body(ws[j + 1]) \in E
      BY <2>2, BodyParsed DEF E
    <3>3. gs \in Seq(E) /\ Len(gs) = (j + 1) - m
      BY <1>1, <1>2, <3>2
    <3>b. gs[Len(fs) + 1] = Body(ws[j + 1]) /\ \A i \in 1..(j - m) : gs[i] = fs[i]
      <4> DEFINE b == Body(ws[j + 1])
      <4>1. fs \in Seq(E) /\ b \in E
        BY <1>2, <3>2
      <4> HIDE DEF b
      <4>2. /\ \A i \in 1..Len(fs) : Append(fs, b)[i] = fs[i]
            /\ Append(fs, b)[Len(fs) + 1] = b
        BY <4>1, AppendProperties
      <4>3. Len(fs) = j - m
        BY <1>2
      <4> QED BY <4>2, <4>3, Zenon DEF b
    <3> HIDE DEF gs
    <3>4. ASSUME NEW i \in 1..((j + 1) - m) PROVE gs[i] = Body(ws[m + i])
      <4>1. CASE i \in 1..(j - m)
        BY <1>2, <3>b, <4>1
      <4>2. CASE i = (j + 1) - m
        <5>1. m + i = j + 1 /\ i = Len(fs) + 1
          BY <1>1, <1>2, <4>2
        <5> QED BY <3>b, <5>1, Zenon
      <4> QED BY <1>1, <4>1, <4>2
    <3>5. Goes(gs, v, t, ws, r, m, j + 1)
      BY <3>1, <3>3, <3>4 DEF Goes, E
    <3>6. ~Incomplete(s, ws, j)
      <4>1. j < Len(ws)
        BY <1>1, <1>4 DEF n
      <4>2. ~(Len(s) < Len(f))
        BY <2>4, <2>7
      <4> QED BY <4>1, <4>2 DEF Incomplete
    <3>7. \E hs, v1 : /\ Sse!takeOne([frames |-> fs, rest |-> s]) = [frames |-> hs, rest |-> v1]
                      /\ Goes(hs, v1, t, ws, r, m, j + 1) /\ Len(v1) < Len(s)
      BY <3>1, <3>5, Zenon
    <3>8. j + 1 \in m..Len(ws)
      BY <2>1 DEF n
    <3>9. j + 1 \in m..Len(ws) /\ ~Incomplete(s, ws, j)
      BY <3>6, <3>8
    <3> QED BY <3>7, <3>9
  <2>8. Len(s) < Len(f) \/ Len(s) >= Len(f)
    <3> HIDE DEF f
    <3> QED BY <2>4
  <2> QED BY <2>6, <2>7, <2>8
<1> QED BY <1>3, <1>4

\* takeFrames takes every whole frame of what it is given, and leaves what is not one.
LEMMA FramesTaken ==
  ASSUME NEW ws \in Seq(Writes), NEW r, Remains(r, ws), NEW m \in 0..Len(ws),
         NEW text \in Seq(Chars), NEW t \in Seq(Chars), text \o t = r[m]
  PROVE  \E j \in m..Len(ws) : LET y == Sse!takeFrames(text) IN
           Goes(y.frames, y.rest, t, ws, r, m, j) /\ Incomplete(y.rest, ws, j)
<1> DEFINE n == Len(text)
           y == Sse!takeFrames(text)
           At(z, k) == \E j \in m..Len(ws) : \E fs, s :
                         /\ z = [frames |-> fs, rest |-> s] /\ Goes(fs, s, t, ws, r, m, j)
                         /\ Incomplete(s, ws, j) \/ Len(s) + k <= n
<1>1. PICK x : /\ x[0] = [frames |-> <<>>, rest |-> text]
               /\ \A k \in 1..n : x[k] = Sse!takeOne(x[k - 1])
               /\ y = x[n]
  BY TurnsOf
<1>2. n \in Nat /\ m \in m..Len(ws)
  OBVIOUS
<1>3. At(x[0], 0)
  <2>1. Goes(<<>>, text, t, ws, r, m, m)
    BY DEF Goes
  <2> HIDE DEF n
  <2>2. Len(text) + 0 <= n
    BY <1>2 DEF n
  <2> QED BY <1>1, <1>2, <2>1, <2>2
<1>4. ASSUME NEW k \in 1..n, At(x[k - 1], k - 1) PROVE At(x[k], k)
  <2>0. PICK j \in m..Len(ws) : \E fs, s :
          /\ x[k - 1] = [frames |-> fs, rest |-> s] /\ Goes(fs, s, t, ws, r, m, j)
          /\ Incomplete(s, ws, j) \/ Len(s) + (k - 1) <= n
    BY <1>4
  <2>1. PICK fs, s :
          /\ x[k - 1] = [frames |-> fs, rest |-> s] /\ Goes(fs, s, t, ws, r, m, j)
          /\ Incomplete(s, ws, j) \/ Len(s) + (k - 1) <= n
    BY <2>0
  <2>2. x[k] = Sse!takeOne([frames |-> fs, rest |-> s])
    BY <1>1, <2>1
  <2>3. CASE Incomplete(s, ws, j) /\ Sse!takeOne([frames |-> fs, rest |-> s]) = [frames |-> fs, rest |-> s]
    BY <2>1, <2>2, <2>3
  <2>4. ASSUME j + 1 \in m..Len(ws), ~Incomplete(s, ws, j), NEW gs, NEW v,
               Sse!takeOne([frames |-> fs, rest |-> s]) = [frames |-> gs, rest |-> v],
               Goes(gs, v, t, ws, r, m, j + 1), Len(v) < Len(s)
        PROVE  At(x[k], k)
    <3>0. v \in Seq(Chars) /\ s \in Seq(Chars)
      BY <2>1, <2>4, Zenon DEF Goes
    <3>1. Len(v) \in Nat /\ Len(s) \in Nat
      BY <3>0
    <3>2. Len(v) + k <= n
      <4>1. Len(s) + (k - 1) <= n
        BY <2>1, <2>4
      <4> HIDE DEF n
      <4> QED BY <1>2, <2>4, <3>1, <4>1
    <3> QED BY <2>2, <2>4, <3>1, <3>2
  <2> QED BY <2>1, <2>3, <2>4, OneTaken
<1> DEFINE T == {k \in 0..n : At(x[k], k)}
<1>5. n \in T
  <2>1. 0 \in T /\ \A k \in 1..n : k - 1 \in T => k \in T
    <3> HIDE DEF At, n
    <3>1. \A k \in 1..n : k - 1 \in 0..n /\ k \in 0..n
      BY <1>2
    <3> QED BY <1>2, <1>3, <1>4, <3>1
  <2> HIDE DEF T, n
  <2>2. n \in 0..n
    BY <1>2
  <2>3. \A k \in 0..n : k \in T
    BY <1>2, <2>1, UpTo
  <2> QED BY <2>2, <2>3
<1>6. PICK j \in m..Len(ws) : \E fs, s :
          /\ y = [frames |-> fs, rest |-> s] /\ Goes(fs, s, t, ws, r, m, j)
          /\ Incomplete(s, ws, j) \/ Len(s) + n <= n
  BY <1>1, <1>5
<1>7. PICK fs, s :
          /\ y = [frames |-> fs, rest |-> s] /\ Goes(fs, s, t, ws, r, m, j)
          /\ Incomplete(s, ws, j) \/ Len(s) + n <= n
  BY <1>6
<1>8. Incomplete(s, ws, j)
  <2>1. SUFFICES ASSUME Len(s) + n <= n, j < Len(ws) PROVE Len(s) < Len(Sse!frame(ws[j + 1]))
    BY <1>7 DEF Incomplete
  <2>2. s \in Seq(Chars) /\ Len(s) = 0
    <3>1. Len(s) \in Nat /\ s \in Seq(Chars)
      BY <1>7 DEF Goes
    <3> HIDE DEF n
    <3> QED BY <1>2, <2>1, <3>1
  <2>3. ws[j + 1] \in Writes
    <3>1. j + 1 \in 1..Len(ws)
      BY <2>1
    <3> QED BY <3>1
  <2> DEFINE l == Len(Sse!frame(ws[j + 1]))
  <2>4. l \in {3, 8}
    BY <2>3, FrameEnds
  <2> HIDE DEF l
  <2>5. Len(s) < l
    BY <2>2, <2>4
  <2> QED BY <2>5 DEF l
<1> HIDE DEF y
<1> QED BY <1>7, <1>8 DEF y

-----------------------------------------------------------------------------
(* The events of the frames taken *)

\* The events among the first writes, for each number of writes.
Kept(g, ws) == g \in [0..Len(ws) -> Seq(Payloads)] /\ Grows(ws, Payloads, g)

LEMMA EventsRegrouped ==
  ASSUME NEW a \in Seq(Payloads), NEW b \in Seq(Payloads), NEW c \in Seq(Payloads)
  PROVE  (a \o b) \o c = a \o (b \o c)
BY ConcatAssociative

Adds(e, w) == e = IF w \in Payloads THEN <<w>> ELSE <<>>
Extends(x, y, w) == x = IF w \in Payloads THEN Append(y, w) ELSE y

LEMMA OneMore ==
  ASSUME NEW a \in Seq(Payloads), NEW b \in Seq(Payloads), NEW w, NEW e, Adds(e, w)
  PROVE  e \in Seq(Payloads) /\ b \o e \in Seq(Payloads) /\ Extends(a \o (b \o e), a \o b, w)
<1>0. e = IF w \in Payloads THEN <<w>> ELSE <<>>
  BY DEF Adds
<1>1. a \o b \in Seq(Payloads) /\ e \in Seq(Payloads)
  BY <1>0, ConcatProperties
<1>a. b \o e \in Seq(Payloads)
  BY <1>1, ConcatProperties
<1>2. a \o (b \o e) = (a \o b) \o e
  BY <1>1, EventsRegrouped
<1> DEFINE c == a \o b
<1> HIDE DEF c
<1>3. c \o e = IF w \in Payloads THEN Append(c, w) ELSE c
  <2>1. c \in Seq(Payloads)
    BY <1>1 DEF c
  <2>2. CASE w \in Payloads
    BY <1>0, <2>1, <2>2
  <2>3. CASE w \notin Payloads
    BY <1>0, <2>1, <2>3
  <2> QED BY <2>2, <2>3
<1> QED BY <1>1, <1>a, <1>2, <1>3, Zenon DEF c, Extends

\* The events of the frames from m to j are what j writes have more than m.
LEMMA EventsTaken ==
  ASSUME NEW ws \in Seq(Writes), NEW g, Kept(g, ws), NEW m \in 0..Len(ws), NEW j \in m..Len(ws),
         NEW fs, Len(fs) = j - m, \A i \in 1..(j - m) : fs[i] = Body(ws[m + i])
  PROVE  Sse!events(fs) \in Seq(Payloads) /\ g[m] \o Sse!events(fs) = g[j]
<1> DEFINE n == j - m
           Q == Seq(Payloads)
           parsed(k) == Sse!parseFrame(fs[k])
<1>1. n \in Nat /\ m \in Nat /\ j \in Nat /\ m + n = j /\ j <= Len(ws)
  OBVIOUS
<1>2. n = Len(fs) /\ \A i \in 1..n : fs[i] = Body(ws[m + i])
  OBVIOUS
<1> HIDE DEF n
<1>3. ASSUME NEW k \in 1..n
      PROVE  /\ m + k \in 1..Len(ws) /\ ws[m + k] \in Writes
             /\ parsed(k) = IF ws[m + k] \in Payloads THEN <<ws[m + k]>> ELSE <<>>
  <2>1. m + k \in 1..Len(ws)
    BY <1>1
  <2>2. ws[m + k] \in Writes
    BY <2>1
  <2> QED BY <1>2, <2>1, <2>2, BodyParsed
<1>4. \A k \in 1..n : parsed(k) \in Q
  <2> SUFFICES ASSUME NEW k \in 1..n PROVE parsed(k) \in Q
    OBVIOUS
  <2> DEFINE w == ws[m + k]
             e == parsed(k)
  <2>1. e = IF w \in Payloads THEN <<w>> ELSE <<>>
    BY <1>3
  <2> HIDE DEF w, e
  <2>2. e \in Q
    <3>1. w \in Payloads => <<w>> \in Q
      BY Tuples
    <3> QED BY <2>1, <3>1
  <2> QED BY <2>2 DEF e
<1>5. PICK x : /\ x[0] = <<>> /\ \A k \in 1..n : x[k] = x[k - 1] \o parsed(k)
               /\ Sse!events(fs) = x[n]
  BY <1>1, <1>2, <1>4, EventsOf
<1> HIDE DEF parsed
<1>6. /\ \A k \in 0..Len(ws) : g[k] \in Q
      /\ \A k \in 1..Len(ws) : g[k] = IF ws[k] \in Payloads THEN Append(g[k - 1], ws[k]) ELSE g[k - 1]
  BY DEF Kept, Grows
<1>7. g[m] \in Q
  BY <1>6
<1> DEFINE T == {k \in 0..n : x[k] \in Q /\ g[m] \o x[k] = g[m + k]}
<1>8. 0 \in T
  <2>1. g[m] \o <<>> = g[m] /\ <<>> \in Q
    BY <1>7, ConcatEmptySeq
  <2>2. m + 0 = m /\ 0 \in 0..n
    BY <1>1
  <2> QED BY <1>5, <2>1, <2>2
<1>9. ASSUME NEW k \in 1..n, k - 1 \in T PROVE k \in T
  <2> DEFINE w == ws[m + k]
  <2>1. x[k - 1] \in Q /\ g[m] \o x[k - 1] = g[m + (k - 1)]
    BY <1>9
  <2>2. x[k] = x[k - 1] \o parsed(k) /\ parsed(k) = IF w \in Payloads THEN <<w>> ELSE <<>>
    BY <1>3, <1>5
  <2>3. m + (k - 1) = (m + k) - 1
    BY <1>1
  <2>4. g[m + k] = IF w \in Payloads THEN Append(g[m + (k - 1)], w) ELSE g[m + (k - 1)]
    <3>1. g[m + k] = IF w \in Payloads THEN Append(g[(m + k) - 1], w) ELSE g[(m + k) - 1]
      BY <1>3, <1>6
    <3> QED BY <2>3, <3>1
  <2> HIDE DEF w
  <2>5. x[k - 1] \o parsed(k) \in Q
        /\ g[m] \o (x[k - 1] \o parsed(k)) = IF w \in Payloads THEN Append(g[m] \o x[k - 1], w)
                                             ELSE g[m] \o x[k - 1]
    <3> DEFINE a == g[m]
               b == x[k - 1]
               e == parsed(k)
    <3>1. a \in Seq(Payloads) /\ b \in Seq(Payloads) /\ Adds(e, w)
      BY <1>7, <2>1, <2>2 DEF Adds
    <3> HIDE DEF a, b, e
    <3>2. b \o e \in Seq(Payloads) /\ Extends(a \o (b \o e), a \o b, w)
      BY <3>1, OneMore
    <3> QED BY <3>2, Zenon DEF a, b, e, Extends
  <2>6. x[k] \in Q /\ g[m] \o x[k] = g[m + k]
    BY <2>1, <2>2, <2>4, <2>5, Zenon
  <2>7. k \in 0..n
    BY <1>1
  <2> QED BY <2>6, <2>7
<1>10. n \in T
  <2> HIDE DEF T
  <2>1. \A k \in 0..n : k \in T
    BY <1>1, <1>8, <1>9, UpTo
  <2>2. n \in 0..n
    BY <1>1
  <2> QED BY <2>1, <2>2
<1> QED BY <1>1, <1>5, <1>10

\* What was applied is a prefix of what there is to apply.
LEMMA KeptGrows ==
  ASSUME NEW ws \in Seq(Writes), NEW g, Kept(g, ws), NEW m \in 0..Len(ws)
  PROVE  Sse!IsPrefix(g[m], g[Len(ws)])
<1> DEFINE n == Len(ws)
           fs == [i \in 1..(n - m) |-> Body(ws[m + i])]
           e == Sse!events(fs)
<1>1. n \in Nat /\ m \in Nat /\ n - m \in Nat /\ m \in 0..n /\ n \in m..n
  OBVIOUS
<1>2. Len(fs) = n - m /\ \A i \in 1..(n - m) : fs[i] = Body(ws[m + i])
  BY <1>1
<1> HIDE DEF fs
<1>3. Sse!events(fs) \in Seq(Payloads) /\ g[m] \o Sse!events(fs) = g[n]
  BY <1>1, <1>2, EventsTaken
<1> HIDE DEF e, n
<1>4. g[m] \in Seq(Payloads)
  BY <1>1 DEF Kept, n
<1> DEFINE a == g[m]
<1>5. a \in Seq(Payloads)
  BY <1>4
<1> HIDE DEF a
<1>6. Len(a) <= Len(a \o e) /\ SubSeq(a, 1, Len(a)) = SubSeq(a \o e, 1, Len(a))
  BY <1>3, <1>5
<1> QED BY <1>3, <1>6 DEF a, n, Sse!IsPrefix

\* All of the writes have what Filter keeps of them.
LEMMA KeptIsSent ==
  ASSUME NEW ws \in Seq(Writes), NEW g, Kept(g, ws)
  PROVE  g[Len(ws)] = Sse!Filter(ws, Payloads)
<1> DEFINE n == Len(ws)
<1>1. n \in Nat
  OBVIOUS
<1>2. PICK h \in [0..n -> Seq(Writes)] : Grows(ws, Payloads, h) /\ Filter(ws, Payloads) = h[n]
  BY FilterGrows
<1> DEFINE T == {k \in 0..n : h[k] = g[k]}
<1>3. 0 \in T
  BY <1>1, <1>2 DEF Kept, Grows
<1>4. ASSUME NEW k \in 1..n, k - 1 \in T PROVE k \in T
  <2>1. h[k - 1] = g[k - 1] /\ k \in 0..n
    BY <1>1, <1>4
  <2>2. /\ h[k] = IF ws[k] \in Payloads THEN Append(h[k - 1], ws[k]) ELSE h[k - 1]
        /\ g[k] = IF ws[k] \in Payloads THEN Append(g[k - 1], ws[k]) ELSE g[k - 1]
    BY <1>2 DEF Kept, Grows
  <2>3. h[k] = g[k]
    <3>1. CASE ws[k] \in Payloads
      <4>1. h[k] = Append(h[k - 1], ws[k]) /\ g[k] = Append(g[k - 1], ws[k])
        BY <2>2, <3>1
      <4> QED BY <2>1, <4>1, Zenon
    <3>2. CASE ws[k] \notin Payloads
      <4>1. h[k] = h[k - 1] /\ g[k] = g[k - 1]
        BY <2>2, <3>2
      <4> QED BY <2>1, <4>1, Zenon
    <3> QED BY <3>1, <3>2
  <2> QED BY <2>1, <2>3
<1>5. n \in T
  <2> HIDE DEF T, n
  <2>1. \A k \in 0..n : k \in T
    BY <1>1, <1>3, <1>4, UpTo
  <2> QED BY <1>1, <2>1
<1>6. Sse!Filter(ws, Payloads) = Filter(ws, Payloads)
  BY DEF Sse!Filter, Filter
<1> QED BY <1>2, <1>5, <1>6

LEMMA NextFrame ==
  ASSUME NEW ws \in Seq(Writes), NEW r, Remains(r, ws), NEW m \in 0..Len(ws), m # Len(ws)
  PROVE  /\ m + 1 \in 0..Len(ws) /\ ws[m + 1] \in Writes /\ r[m + 1] \in Seq(Chars)
         /\ r[m] = Sse!frame(ws[m + 1]) \o r[m + 1]
<1>1. m + 1 \in 1..Len(ws) /\ m + 1 \in 0..Len(ws) /\ (m + 1) - 1 = m
  OBVIOUS
<1>2. r[m + 1] \in Seq(Chars) /\ r[(m + 1) - 1] = Sse!frame(ws[m + 1]) \o r[m + 1]
  BY <1>1, Zenon DEF Remains
<1>3. ws[m + 1] \in Writes
  BY <1>1
<1> QED BY <1>1, <1>2, <1>3, Zenon

LEMMA NothingAfter ==
  ASSUME NEW ws \in Seq(Writes), NEW r, Remains(r, ws), NEW s \in Seq(Chars), NEW t \in Seq(Chars),
         s \o t = r[Len(ws)]
  PROVE  s = <<>>
<1>1. s \o t = <<>>
  BY DEF Remains
<1> QED BY <1>1, ConcatSimplifications

\* What lacks the end of its frame holds no blank line.
LEMMA NoneWhole ==
  ASSUME NEW ws \in Seq(Writes), NEW r, Remains(r, ws), NEW m \in 0..Len(ws),
         NEW s \in Seq(Chars), NEW t \in Seq(Chars), s \o t = r[m], Incomplete(s, ws, m)
  PROVE  Sse!boundaries(s) = {}
<1>1. CASE m = Len(ws)
  <2>1. s = <<>>
    BY <1>1, NothingAfter
  <2> QED BY <2>1 DEF Sse!boundaries
<1>2. CASE m # Len(ws)
  <2> DEFINE w == ws[m + 1]
             u == r[m + 1]
  <2>1. w \in Writes /\ u \in Seq(Chars) /\ s \o t = Sse!frame(w) \o u
    BY <1>2, NextFrame
  <2>2. Len(s) < Len(Sse!frame(w))
    <3>1. m < Len(ws)
      BY <1>2
    <3> QED BY <3>1 DEF Incomplete
  <2> HIDE DEF w, u
  <2> QED BY <2>1, <2>2, NotWhole
<1> QED BY <1>1, <1>2

\* When all was delivered, no frame is left.
LEMMA NoneLeft ==
  ASSUME NEW ws \in Seq(Writes), NEW r, Remains(r, ws), NEW m \in 0..Len(ws), Incomplete(r[m], ws, m)
  PROVE  m = Len(ws)
<1> SUFFICES ASSUME m # Len(ws) PROVE FALSE
  OBVIOUS
<1> DEFINE f == Sse!frame(ws[m + 1])
           u == r[m + 1]
<1>1. ws[m + 1] \in Writes /\ u \in Seq(Chars) /\ r[m] = f \o u
  BY NextFrame
<1>2. Len(r[m]) < Len(f)
  <2>1. m < Len(ws)
    OBVIOUS
  <2> QED BY <2>1 DEF Incomplete
<1>3. f \in Seq(Chars)
  BY <1>1, FrameEnds
<1> HIDE DEF f, u
<1>4. Len(f \o u) >= Len(f)
  <2>1. Len(f \o u) = Len(f) + Len(u) /\ Len(f) \in Nat /\ Len(u) \in Nat
    BY <1>1, <1>3, ConcatProperties
  <2> QED BY <2>1
<1>5. Len(f \o u) < Len(f) /\ Len(f) \in Nat /\ Len(f \o u) \in Nat
  <2>1. Len(f \o u) < Len(f)
    BY <1>1, <1>2
  <2>2. f \o u \in Seq(Chars)
    BY <1>1, <1>3, ConcatProperties
  <2> QED BY <1>3, <2>1, <2>2
<1> QED BY <1>4, <1>5

\* A last frame that lacks its end is an event of its own, or none.
OneMoreOrNone(g, m, s, ws) == \E j \in 0..Len(ws) : g[m] \o Sse!parseFrame(s) = g[j]

LEMMA TailParsed ==
  ASSUME NEW ws \in Seq(Writes), NEW r, Remains(r, ws), NEW g, Kept(g, ws), NEW m \in 0..Len(ws),
         NEW s \in Seq(Chars), NEW t \in Seq(Chars), s \o t = r[m], Incomplete(s, ws, m)
  PROVE  OneMoreOrNone(g, m, s, ws)
<1> SUFFICES \E j \in 0..Len(ws) : g[m] \o Sse!parseFrame(s) = g[j]
  BY DEF OneMoreOrNone
<1>1. g[m] \in Seq(Payloads)
  BY DEF Kept
<1> DEFINE a == g[m]
           p == Sse!parseFrame(s)
<1>2. p = <<>> => a \o p = g[m]
  BY <1>1, ConcatEmptySeq
<1>3. CASE m = Len(ws)
  <2>1. s = <<>>
    BY <1>3, NothingAfter
  <2>2. p = <<>>
    <3>1. Len(s) = 0 /\ 0 \in 0..2 /\ \A k \in 1..0 : s[k] = <<":", "\n">>[k]
      BY <2>1
    <3> QED BY <3>1, KeepaliveParsed
  <2> QED BY <1>2, <2>2
<1>4. CASE m # Len(ws)
  <2> DEFINE w == ws[m + 1]
             u == r[m + 1]
             f == Sse!frame(w)
             n == Len(s)
  <2>1. w \in Writes /\ u \in Seq(Chars) /\ s \o t = f \o u /\ m + 1 \in 0..Len(ws)
    BY <1>4, NextFrame
  <2>2. n < Len(f)
    <3>1. m < Len(ws)
      BY <1>4
    <3> QED BY <3>1 DEF Incomplete
  <2>3. g[m + 1] = IF w \in Payloads THEN Append(a, w) ELSE a
    <3>1. m + 1 \in 1..Len(ws) /\ (m + 1) - 1 = m
      BY <1>4
    <3>2. g[m + 1] = IF w \in Payloads THEN Append(g[(m + 1) - 1], w) ELSE g[(m + 1) - 1]
      BY <3>1, Zenon DEF Kept, Grows
    <3> QED BY <3>1, <3>2
  <2> HIDE DEF u
  <2>4. f \in Seq(Chars) /\ Len(f) \in Nat
    BY <2>1, FrameEnds
  <2>5. n \in Nat /\ \A k \in 1..n : k <= Len(f) => s[k] = f[k]
    <3> HIDE DEF f
    <3> QED BY <2>1, <2>4, InFrame
  <2>6. \A k \in 1..n : s[k] = f[k]
    <3> DEFINE l == Len(f)
    <3>1. l \in Nat /\ n < l
      BY <2>2, <2>4
    <3> HIDE DEF n, l
    <3>2. \A k \in 1..n : k <= l
      BY <2>5, <3>1
    <3> HIDE DEF f
    <3> QED BY <2>5, <3>2, Zenon DEF l
  <2> HIDE DEF w
  <2>7. CASE w \in Payloads
    <3>1. Len(f) = 8 /\ \A k \in 1..7 : f[k] = EventChars(w)[k]
      BY <2>7, FrameOfEvent
    <3> HIDE DEF f, n
    <3>2. n \in 0..7
      BY <2>2, <2>5, <3>1
    <3>3. \A k \in 1..n : s[k] = EventChars(w)[k]
      BY <2>6, <3>1, <3>2
    <3>4. p = IF n >= 6 THEN <<w>> ELSE <<>>
      BY <2>7, <3>2, <3>3, EventParsed DEF n
    <3>5. a \o <<w>> = Append(a, w)
      BY <1>1, <2>7
    <3> HIDE DEF p, a
    <3>6. a \o p = g[m + 1] \/ p = <<>>
      <4>1. CASE n >= 6
        BY <2>3, <2>7, <3>4, <3>5, <4>1, Zenon
      <4>2. CASE ~(n >= 6)
        BY <3>4, <4>2
      <4> QED BY <4>1, <4>2
    <3> QED BY <1>2, <2>1, <3>6 DEF p, a
  <2>8. CASE w \notin Payloads
    <3>0. w = "keepalive"
      BY <2>1, <2>8 DEF Writes
    <3>1. Len(f) = 3 /\ f[1] = ":" /\ f[2] = "\n"
      BY <3>0, FrameOfKeepalive
    <3> HIDE DEF f, n
    <3>2. n \in 0..2
      BY <2>2, <2>5, <3>1
    <3>3. \A k \in 1..n : s[k] = <<":", "\n">>[k]
      <4>1. \A k \in 1..n : k = 1 \/ k = 2
        BY <3>2
      <4>2. <<":", "\n">>[1] = ":" /\ <<":", "\n">>[2] = "\n"
        OBVIOUS
      <4> QED BY <2>6, <3>1, <4>1, <4>2, Zenon
    <3>4. p = <<>>
      BY <3>2, <3>3, KeepaliveParsed DEF n
    <3> QED BY <1>2, <3>4
  <2> QED BY <2>7, <2>8
<1> QED BY <1>3, <1>4

\* One write more: the streams that remain are longer by a frame.
GoesOn(q, h, r, g, ws, vs, f) ==
  Remains(q, vs) /\ Kept(h, vs) /\ \A j \in 0..Len(ws) : q[j] = r[j] \o f /\ h[j] = g[j]

LEMMA WritesGoOn ==
  ASSUME NEW ws \in Seq(Writes), NEW r, Remains(r, ws), NEW g, Kept(g, ws), NEW w \in Writes,
         NEW vs, vs = Append(ws, w)
  PROVE  \E q, h : GoesOn(q, h, r, g, ws, vs, Sse!frame(w))
<1> DEFINE n == Len(ws)
           f == Sse!frame(w)
           q == [j \in 0..(n + 1) |-> IF j <= n THEN r[j] \o f ELSE <<>>]
           h == [j \in 0..(n + 1) |-> IF j <= n THEN g[j]
                                     ELSE IF w \in Payloads THEN Append(g[n], w) ELSE g[n]]
<1>1. n \in Nat /\ vs \in Seq(Writes) /\ Len(vs) = n + 1 /\ vs[n + 1] = w
      /\ \A j \in 1..n : vs[j] = ws[j]
  OBVIOUS
<1>2. f \in Seq(Chars)
  BY FrameEnds
<1>3. /\ \A j \in 0..n : r[j] \in Seq(Chars) /\ g[j] \in Seq(Payloads)
      /\ r[n] = <<>> /\ \A j \in 1..n : r[j - 1] = Sse!frame(ws[j]) \o r[j]
      /\ g[0] = <<>>
      /\ \A k \in 1..n : g[k] = IF ws[k] \in Payloads THEN Append(g[k - 1], ws[k]) ELSE g[k - 1]
  BY Zenon DEF Remains, Kept, Grows
<1> HIDE DEF n, f
<1>4. /\ \A j \in 0..n : j \in 0..(n + 1) /\ j <= n
      /\ n + 1 \in 0..(n + 1) /\ ~(n + 1 <= n) /\ n \in 0..n /\ 0 \in 0..n
      /\ \A j \in 1..n : j \in 0..n /\ j - 1 \in 0..n
      /\ \A j \in 1..(n + 1) : j \in 1..n \/ j = n + 1
      /\ \A j \in 0..(n + 1) : j \in 0..n \/ j = n + 1
      /\ \A j \in 1..(n + 1) : j - 1 \in 0..(n + 1)
      /\ (n + 1) - 1 = n
  BY <1>1
<1>5. /\ \A j \in 0..n : q[j] = r[j] \o f /\ h[j] = g[j]
      /\ q[n + 1] = <<>> /\ h[n + 1] = IF w \in Payloads THEN Append(g[n], w) ELSE g[n]
  BY <1>4, Zenon
<1>6. Remains(q, vs)
  <2>1. ASSUME NEW j \in 0..(n + 1) PROVE q[j] \in Seq(Chars)
    <3>1. CASE j \in 0..n
      <4>1. r[j] \o f \in Seq(Chars)
        BY <1>2, <1>3, <3>1, ConcatProperties
      <4> QED BY <1>5, <3>1, <4>1, Zenon
    <3>2. CASE j = n + 1
      <4>1. <<>> \in Seq(Chars)
        OBVIOUS
      <4> HIDE DEF q
      <4> QED BY <1>5, <3>2, <4>1, Zenon
    <3> QED BY <1>4, <3>1, <3>2
  <2>2. q \in [0..(n + 1) -> Seq(Chars)]
    <3> DEFINE Value(j) == IF j <= n THEN r[j] \o f ELSE <<>>
    <3>1. \A j \in 0..(n + 1) : Value(j) \in Seq(Chars)
      BY <2>1
    <3>2. q = [j \in 0..(n + 1) |-> Value(j)]
      OBVIOUS
    <3> HIDE DEF Value, q
    <3> QED BY <3>1, <3>2
  <2> HIDE DEF q
  <2>3. ASSUME NEW j \in 1..(n + 1) PROVE q[j - 1] = Sse!frame(vs[j]) \o q[j]
    <3>1. CASE j \in 1..n
      <4>1. q[j - 1] = r[j - 1] \o f /\ q[j] = r[j] \o f /\ vs[j] = ws[j]
            /\ r[j - 1] = Sse!frame(ws[j]) \o r[j]
        BY <1>1, <1>3, <1>4, <1>5, <3>1, Zenon
      <4> DEFINE a == Sse!frame(ws[j])
                 b == r[j]
      <4>2. a \in Seq(Chars) /\ b \in Seq(Chars)
        <5>1. ws[j] \in Writes /\ j \in 0..n
          BY <1>4, <3>1 DEF n
        <5> QED BY <1>3, <5>1, FrameEnds
      <4> HIDE DEF a, b
      <4>3. (a \o b) \o f = a \o (b \o f)
        BY <1>2, <4>2, Regrouped
      <4> QED BY <4>1, <4>3, Zenon DEF a, b
    <3>2. CASE j = n + 1
      <4>1. q[j] = <<>> /\ vs[j] = w /\ j - 1 = n
        BY <1>1, <1>4, <1>5, <3>2
      <4>2. q[n] = <<>> \o f
        BY <1>3, <1>4, <1>5
      <4>3. <<>> \o f = f /\ f \o <<>> = f
        BY <1>2, ConcatEmptySeq
      <4>4. q[j - 1] = f \o q[j]
        BY <4>1, <4>2, <4>3, Zenon
      <4> QED BY <4>1, <4>4 DEF f
    <3> QED BY <1>4, <3>1, <3>2
  <2> QED BY <1>1, <1>5, <2>2, <2>3 DEF Remains
<1>7. Kept(h, vs)
  <2>1. ASSUME NEW j \in 0..(n + 1) PROVE h[j] \in Seq(Payloads)
    <3>1. CASE j \in 0..n
      BY <1>3, <1>5, <3>1, Zenon
    <3>2. CASE j = n + 1
      <4>1. g[n] \in Seq(Payloads)
        BY <1>3, <1>4
      <4> DEFINE p == g[n]
                 v == IF w \in Payloads THEN Append(p, w) ELSE p
      <4>2. h[n + 1] = v
        BY <1>5, Zenon
      <4> HIDE DEF h, p
      <4>3. v \in Seq(Payloads)
        BY <4>1 DEF p
      <4> HIDE DEF v
      <4> QED BY <3>2, <4>2, <4>3
    <3> QED BY <1>4, <3>1, <3>2
  <2>2. h \in [0..(n + 1) -> Seq(Payloads)]
    <3> DEFINE Value(j) == IF j <= n THEN g[j] ELSE IF w \in Payloads THEN Append(g[n], w) ELSE g[n]
    <3>1. \A j \in 0..(n + 1) : Value(j) \in Seq(Payloads)
      BY <2>1
    <3>2. h = [j \in 0..(n + 1) |-> Value(j)]
      OBVIOUS
    <3> HIDE DEF Value, h
    <3> QED BY <3>1, <3>2
  <2> HIDE DEF h
  <2>3. ASSUME NEW k \in 1..(n + 1)
        PROVE  h[k] = IF vs[k] \in Payloads THEN Append(h[k - 1], vs[k]) ELSE h[k - 1]
    <3>1. CASE k \in 1..n
      <4>1. h[k] = g[k] /\ h[k - 1] = g[k - 1] /\ vs[k] = ws[k]
        BY <1>1, <1>4, <1>5, <3>1, Zenon
      <4>2. g[k] = IF ws[k] \in Payloads THEN Append(g[k - 1], ws[k]) ELSE g[k - 1]
        BY <1>3, <3>1, Zenon
      <4> QED BY <4>1, <4>2, Zenon
    <3>2. CASE k = n + 1
      <4>1. vs[k] = w /\ k - 1 = n /\ h[n] = g[n]
        BY <1>1, <1>4, <1>5, <3>2
      <4>2. h[k] = IF w \in Payloads THEN Append(g[n], w) ELSE g[n]
        BY <1>5, <3>2, Zenon
      <4> QED BY <4>1, <4>2, Zenon
    <3> QED BY <1>4, <3>1, <3>2
  <2>4. h[0] = <<>>
    BY <1>3, <1>4, <1>5, Zenon
  <2> QED BY <1>1, <1>4, <2>2, <2>3, <2>4 DEF Kept, Grows
<1> HIDE DEF q, h
<1>8. \A j \in 0..Len(ws) : q[j] = r[j] \o Sse!frame(w) /\ h[j] = g[j]
  BY <1>5, Zenon DEF f, n
<1>9. GoesOn(q, h, r, g, ws, vs, Sse!frame(w))
  BY <1>6, <1>7, <1>8, Zenon DEF GoesOn
<1> QED BY <1>9

-----------------------------------------------------------------------------
(* The inductive invariant *)

\* m writes were read: their events are applied, and t follows what the browser holds.
Read(r, g, m, t) ==
  /\ Remains(r, written) /\ Kept(g, written) /\ m \in 0..Len(written) /\ t \in Seq(Chars)
  /\ applied = g[m]
  /\ state # "done" => buffer \o t = r[m] /\ Incomplete(buffer, written, m)
  /\ state \in {"open", "ended"} => t = wire

FramesInv ==
  /\ written \in Seq(Writes) /\ wire \in Seq(Chars) /\ buffer \in Seq(Chars)
  /\ state \in {"open", "ended", "cut", "done"}
  /\ state = "cut" => wire = <<>>
  /\ state = "done" => wire = <<>> /\ buffer = <<>>
  /\ \E r, g, m, t : Read(r, g, m, t)

LEMMA FramesStart == Sse!Init => FramesInv
<1> SUFFICES ASSUME Sse!Init PROVE FramesInv
  OBVIOUS
<1>1. written = <<>> /\ wire = <<>> /\ buffer = <<>> /\ applied = <<>> /\ state = "open"
  BY DEF Sse!Init
<1> DEFINE r == [j \in 0..0 |-> <<>>]
<1>2. <<>> \in Seq(Writes) /\ <<>> \in Seq(Chars) /\ <<>> \in Seq(Payloads) /\ Len(<<>>) = 0
      /\ <<>> \o <<>> = <<>> /\ 0 \in 0..0
  OBVIOUS
<1>3. r \in [0..0 -> Seq(Chars)] /\ r \in [0..0 -> Seq(Payloads)] /\ r[0] = <<>> /\ \A j \in 1..0 : FALSE
  BY <1>2
<1> HIDE DEF r
<1>4. Remains(r, written) /\ Kept(r, written)
  BY <1>1, <1>2, <1>3 DEF Remains, Kept, Grows
<1>5. Incomplete(buffer, written, 0)
  BY <1>1, <1>2 DEF Incomplete
<1>6. Read(r, r, 0, <<>>)
  BY <1>1, <1>2, <1>3, <1>4, <1>5 DEF Read
<1> QED BY <1>1, <1>2, <1>6 DEF FramesInv

LEMMA WriteKeeps == FramesInv /\ Sse!Write => FramesInv'
<1> SUFFICES ASSUME FramesInv, Sse!Write PROVE FramesInv'
  OBVIOUS
<1>1. PICK r, g, m, t : Read(r, g, m, t)
  BY DEF FramesInv
<1>2. PICK w \in Writes : written' = Append(written, w) /\ wire' = wire \o Sse!frame(w)
  BY Marks DEF Sse!Write, Writes
<1>3. state = "open" /\ buffer' = buffer /\ applied' = applied /\ state' = "open"
  BY DEF Sse!Write
<1> DEFINE f == Sse!frame(w)
           ws == written
           vs == Append(ws, w)
<1>4. ws \in Seq(Writes) /\ wire \in Seq(Chars) /\ buffer \in Seq(Chars) /\ f \in Seq(Chars)
      /\ Len(f) \in {3, 8}
  BY FrameEnds DEF FramesInv
<1>5. /\ Remains(r, ws) /\ Kept(g, ws) /\ m \in 0..Len(ws) /\ applied = g[m]
      /\ buffer \o wire = r[m] /\ Incomplete(buffer, ws, m)
  BY <1>1, <1>3 DEF Read
<1> HIDE DEF ws
<1>a. PICK q, h : GoesOn(q, h, r, g, ws, vs, f)
  <2>1. vs = Append(ws, w)
    OBVIOUS
  <2> HIDE DEF vs
  <2> QED BY <1>4, <1>5, <2>1, WritesGoOn
<1>6. /\ Remains(q, vs) /\ Kept(h, vs) /\ \A j \in 0..Len(ws) : q[j] = r[j] \o f /\ h[j] = g[j]
  BY <1>a, Zenon DEF GoesOn
<1>7. vs \in Seq(Writes) /\ Len(vs) = Len(ws) + 1 /\ Len(ws) \in Nat /\ vs[Len(ws) + 1] = w
      /\ \A j \in 1..Len(ws) : vs[j] = ws[j]
  BY <1>4
<1>8. m \in 0..Len(vs)
  BY <1>5, <1>7
<1>9. buffer \o (wire \o f) = q[m]
  <2>1. (buffer \o wire) \o f = buffer \o (wire \o f)
    BY <1>4, Regrouped
  <2>2. q[m] = r[m] \o f
    BY <1>5, <1>6
  <2> QED BY <1>5, <2>1, <2>2, Zenon
<1> HIDE DEF vs
<1>10. Incomplete(buffer, vs, m)
  <2>1. CASE m # Len(ws)
    <3>1. m < Len(ws) /\ m + 1 \in 1..Len(ws)
      BY <1>5, <1>7, <2>1
    <3>2. vs[m + 1] = ws[m + 1]
      BY <1>7, <3>1
    <3> QED BY <1>5, <3>1, <3>2, Zenon DEF Incomplete
  <2>2. CASE m = Len(ws)
    <3>1. buffer = <<>>
      BY <1>4, <1>5, <2>2, NothingAfter
    <3>2. Len(buffer) = 0
      BY <3>1
    <3> DEFINE l == Len(f)
    <3>3. l \in {3, 8}
      BY <1>4
    <3> HIDE DEF l, f
    <3>4. Len(buffer) < l
      BY <3>2, <3>3
    <3>5. Len(buffer) < Len(f) /\ vs[m + 1] = w
      BY <1>7, <2>2, <3>4 DEF l
    <3> QED BY <3>5 DEF Incomplete, f
  <2> QED BY <2>1, <2>2
<1>11. wire \o f \in Seq(Chars)
  BY <1>4, ConcatProperties
<1>12. h[m] = g[m]
  BY <1>5, <1>6
<1>13. written' = vs /\ wire' = wire \o f
  BY <1>2 DEF vs, ws
<1> HIDE DEF f
<1>14. \E z : Read(q, h, m, z)'
  <2> PICK z : z = wire \o f
    OBVIOUS
  <2>a. Remains(q, written') /\ Kept(h, written') /\ m \in 0..Len(written')
    BY <1>6, <1>8, <1>13, Zenon
  <2>b. applied' = h[m]
    BY <1>3, <1>5, <1>12, Zenon
  <2>c. buffer' \o z = q[m] /\ z = wire' /\ z \in Seq(Chars)
    BY <1>3, <1>9, <1>11, <1>13, Zenon
  <2>d. Incomplete(buffer', written', m)
    BY <1>3, <1>10, <1>13, Zenon
  <2>1. /\ Remains(q, written') /\ Kept(h, written') /\ m \in 0..Len(written') /\ z \in Seq(Chars)
        /\ applied' = h[m] /\ buffer' \o z = q[m] /\ Incomplete(buffer', written', m) /\ z = wire'
    BY <2>a, <2>b, <2>c, <2>d, Zenon
  <2>2. Read(q, h, m, z)'
    BY <2>1, Zenon DEF Read
  <2> QED BY <2>2
<1> QED BY <1>3, <1>4, <1>7, <1>11, <1>13, <1>14 DEF FramesInv

LEMMA ChunkKeeps == FramesInv /\ Sse!Chunk => FramesInv'
<1> SUFFICES ASSUME FramesInv, Sse!Chunk PROVE FramesInv'
  OBVIOUS
<1>1. PICK r, g, m, t : Read(r, g, m, t)
  BY DEF FramesInv
<1>2. wire # <<>> /\ state # "done" /\ written' = written /\ state' = state
  BY DEF Sse!Chunk
<1>3. PICK k \in 1..Len(wire) :
        /\ buffer' = Sse!takeFrames(buffer \o SubSeq(wire, 1, k)).rest
        /\ applied' = applied \o Sse!events(Sse!takeFrames(buffer \o SubSeq(wire, 1, k)).frames)
        /\ wire' = SubSeq(wire, k + 1, Len(wire))
  BY Zenon DEF Sse!Chunk, Sse!keep
<1>4. state \in {"open", "ended"} /\ written \in Seq(Writes) /\ wire \in Seq(Chars) /\ buffer \in Seq(Chars)
  BY <1>2 DEF FramesInv
<1>5. /\ Remains(r, written) /\ Kept(g, written) /\ m \in 0..Len(written) /\ applied = g[m]
      /\ buffer \o wire = r[m]
  BY <1>1, <1>2, <1>4 DEF Read
<1> DEFINE x == SubSeq(wire, 1, k)
           z == SubSeq(wire, k + 1, Len(wire))
           text == buffer \o x
           y == Sse!takeFrames(text)
<1>6. x \in Seq(Chars) /\ z \in Seq(Chars) /\ x \o z = wire
  <2>1. x \in Seq(Chars) /\ z \in Seq(Chars)
    BY <1>4
  <2>2. 1 \in 1..(Len(wire) + 1) /\ k \in (1 - 1)..Len(wire) /\ Len(wire) \in k..Len(wire)
    BY <1>4
  <2>3. x \o z = SubSeq(wire, 1, Len(wire))
    BY <1>4, <2>2, ConcatAdjacentSubSeq
  <2>4. SubSeq(wire, 1, Len(wire)) = wire
    BY <1>4
  <2> QED BY <2>1, <2>3, <2>4
<1> HIDE DEF x, z
<1>7. text \in Seq(Chars) /\ text \o z = r[m]
  <2>1. (buffer \o x) \o z = buffer \o (x \o z)
    BY <1>4, <1>6, Regrouped
  <2> QED BY <1>4, <1>5, <1>6, <2>1, ConcatProperties
<1> HIDE DEF text
<1>8. PICK j \in m..Len(written) : Goes(y.frames, y.rest, z, written, r, m, j) /\ Incomplete(y.rest, written, j)
  BY <1>4, <1>5, <1>6, <1>7, FramesTaken
<1>9. buffer' = y.rest /\ applied' = g[m] \o Sse!events(y.frames) /\ wire' = z
  BY <1>3, <1>5 DEF text, x, z
<1> HIDE DEF y
<1>10. /\ Len(y.frames) = j - m /\ \A i \in 1..(j - m) : y.frames[i] = Body(written[m + i])
       /\ y.rest \in Seq(Chars) /\ y.rest \o z = r[j]
  BY <1>8 DEF Goes
<1>11. g[m] \o Sse!events(y.frames) = g[j]
  BY <1>4, <1>5, <1>10, EventsTaken
<1>12. j \in 0..Len(written)
  BY <1>4, <1>5
<1>13. \E c : Read(r, g, j, c)'
  <2> PICK c : c = z
    OBVIOUS
  <2>a. Remains(r, written') /\ Kept(g, written') /\ j \in 0..Len(written')
    BY <1>2, <1>5, <1>12, Zenon
  <2>b. applied' = g[j]
    BY <1>9, <1>11, Zenon
  <2>c. buffer' \o c = r[j] /\ c = wire' /\ c \in Seq(Chars)
    BY <1>6, <1>9, <1>10, Zenon
  <2>d. Incomplete(buffer', written', j)
    BY <1>2, <1>8, <1>9, Zenon
  <2>1. /\ Remains(r, written') /\ Kept(g, written') /\ j \in 0..Len(written') /\ c \in Seq(Chars)
        /\ applied' = g[j] /\ buffer' \o c = r[j] /\ Incomplete(buffer', written', j) /\ c = wire'
    BY <2>a, <2>b, <2>c, <2>d, Zenon
  <2>2. Read(r, g, j, c)'
    BY <2>1, Zenon DEF Read
  <2> QED BY <2>2
<1> QED BY <1>2, <1>4, <1>6, <1>9, <1>10, <1>13 DEF FramesInv

LEMMA FramesKept == FramesInv /\ Sse!Next => FramesInv'
<1> SUFFICES ASSUME FramesInv, Sse!Next PROVE FramesInv'
  OBVIOUS
<1>1. PICK r, g, m, t : Read(r, g, m, t)
  BY DEF FramesInv
<1>2. CASE Sse!Write
  BY <1>2, WriteKeeps
<1>3. CASE Sse!End
  <2>1. state = "open" /\ state' = "ended" /\ UNCHANGED <<written, wire, buffer, applied>>
    BY <1>3 DEF Sse!End
  <2>2. Read(r, g, m, t)'
    BY <1>1, <2>1 DEF Read
  <2> QED BY <2>1, <2>2 DEF FramesInv
<1>4. CASE Sse!Cut
  <2>1. state = "open" /\ state' = "cut" /\ wire' = <<>> /\ UNCHANGED <<written, buffer, applied>>
    BY <1>4 DEF Sse!Cut
  <2>2. Read(r, g, m, t)'
    BY <1>1, <2>1 DEF Read
  <2>3. <<>> \in Seq(Chars)
    OBVIOUS
  <2> QED BY <2>1, <2>2, <2>3 DEF FramesInv
<1>5. CASE Sse!Chunk
  BY <1>5, ChunkKeeps
<1>6. CASE Sse!Done
  <2>1. /\ state \in {"ended", "cut"} /\ wire = <<>> /\ applied' = applied \o Sse!parseFrame(buffer)
        /\ state' = "done" /\ buffer' = <<>> /\ UNCHANGED <<written, wire>>
    BY <1>6 DEF Sse!Done, Sse!tail
  <2>2. /\ written \in Seq(Writes) /\ buffer \in Seq(Chars) /\ t \in Seq(Chars)
        /\ Remains(r, written) /\ Kept(g, written) /\ m \in 0..Len(written) /\ applied = g[m]
        /\ buffer \o t = r[m] /\ Incomplete(buffer, written, m)
    BY <1>1, <2>1 DEF Read, FramesInv
  <2>3. PICK j \in 0..Len(written) : g[m] \o Sse!parseFrame(buffer) = g[j]
    <3>1. OneMoreOrNone(g, m, buffer, written)
      BY <2>2, TailParsed
    <3> QED BY <3>1, Zenon DEF OneMoreOrNone
  <2>4. applied' = g[j]
    BY <2>1, <2>2, <2>3
  <2>5. Read(r, g, j, t)'
    BY <2>1, <2>2, <2>4 DEF Read
  <2>6. <<>> \in Seq(Chars)
    OBVIOUS
  <2> QED BY <2>1, <2>2, <2>5, <2>6 DEF FramesInv
<1> QED BY <1>2, <1>3, <1>4, <1>5, <1>6 DEF Sse!Next

LEMMA FramesAreAsSent == FramesInv => EventsAreRead
<1> SUFFICES ASSUME FramesInv PROVE EventsAreRead
  OBVIOUS
<1>1. PICK r, g, m, t : Read(r, g, m, t)
  BY DEF FramesInv
<1>2. written \in Seq(Writes) /\ wire \in Seq(Chars) /\ buffer \in Seq(Chars)
  BY DEF FramesInv
<1>3. /\ Remains(r, written) /\ Kept(g, written) /\ m \in 0..Len(written) /\ t \in Seq(Chars)
      /\ applied = g[m]
  BY <1>1 DEF Read
<1>4. g[Len(written)] = Sse!sentEvents
  BY <1>2, <1>3, KeptIsSent DEF Sse!sentEvents
<1>5. Sse!EventsInOrder
  BY <1>2, <1>3, <1>4, KeptGrows DEF Sse!EventsInOrder
<1>6. Sse!boundaries(buffer) = {}
  <2>1. CASE state = "done"
    <3>1. buffer = <<>>
      BY <2>1 DEF FramesInv
    <3> QED BY <3>1 DEF Sse!boundaries
  <2>2. CASE state # "done"
    <3>1. buffer \o t = r[m] /\ Incomplete(buffer, written, m)
      BY <1>1, <2>2 DEF Read
    <3> QED BY <1>2, <1>3, <3>1, NoneWhole
  <2> QED BY <2>1, <2>2
<1>7. ASSUME state \in {"open", "ended"}
      PROVE  applied \o Sse!events(Sse!takeFrames(buffer \o wire).frames) = Sse!sentEvents
  <2> DEFINE text == buffer \o wire
             y == Sse!takeFrames(text)
  <2>1. text = r[m]
    BY <1>1, <1>7 DEF Read
  <2>2. text \in Seq(Chars) /\ <<>> \in Seq(Chars) /\ text \o <<>> = text
    BY <1>2, ConcatProperties, ConcatEmptySeq
  <2> HIDE DEF text
  <2>3. text \o <<>> = r[m]
    BY <2>1, <2>2
  <2>4. PICK j \in m..Len(written) : Goes(y.frames, y.rest, <<>>, written, r, m, j) /\ Incomplete(y.rest, written, j)
    BY <1>2, <1>3, <2>2, <2>3, FramesTaken
  <2> HIDE DEF y
  <2>5. /\ Len(y.frames) = j - m /\ \A i \in 1..(j - m) : y.frames[i] = Body(written[m + i])
        /\ y.rest \in Seq(Chars) /\ y.rest \o <<>> = r[j]
    BY <2>4 DEF Goes
  <2>6. y.rest = r[j]
    BY <2>5, ConcatEmptySeq
  <2>7. j \in 0..Len(written) /\ Incomplete(r[j], written, j)
    BY <1>2, <1>3, <2>4, <2>6
  <2>8. j = Len(written)
    BY <1>2, <1>3, <2>7, NoneLeft
  <2>9. g[m] \o Sse!events(y.frames) = g[j]
    BY <1>2, <1>3, <2>5, EventsTaken
  <2> QED BY <1>3, <1>4, <2>8, <2>9 DEF y, text
<1> QED BY <1>5, <1>6, <1>7 DEF EventsAreRead, Sse!NothingHeldBack

\* Wherever the network cuts the chunks, what the browser has applied is what the
\* engine sent, in order and whole, and after a proper end all of it
\* (useGraphRun.ts, takeFrames, parseFrame and start).
THEOREM FramesAreRead == Spec => []EventsAreRead
<1>1. Init => FramesInv
  BY FramesStart DEF Init
<1>2. FramesInv /\ [Next]_<<part, now, served_, shown_, address, lookup>> => FramesInv'
  <2> SUFFICES ASSUME FramesInv, [Next]_<<part, now, served_, shown_, address, lookup>> PROVE FramesInv'
    OBVIOUS
  <2>1. CASE UNCHANGED sseVars
    BY <2>1 DEF FramesInv, Read, sseVars
  <2>2. CASE Sse!Next
    BY <2>2, FramesKept
  <2> QED BY <2>1, <2>2 DEF Next, Server, served_
<1> QED BY <1>1, <1>2, FramesAreAsSent, PTL DEF Spec
=============================================================================
