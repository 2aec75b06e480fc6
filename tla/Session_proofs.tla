--------------------------- MODULE Session_proofs ---------------------------
(***************************************************************************)
(* What is written to files and read back: for conversations, files and    *)
(* histories of any length, what was said is loaded from the session file; *)
(* for any number of tasks and any failing writes, a task that was         *)
(* reported as created stays on the board of its team; for any number of   *)
(* runs and processes, a run that is listed can be resumed and replayed.   *)
(***************************************************************************)
EXTENDS MCSession, SequenceTheorems, WellFoundedInduction, TLAPS

(* The session file.                                                       *)

\* A record holds a message at least.
Record == {r \in [boundary : BOOLEAN, messages : Seq(Message)] : r.messages # <<>>}

\* Every set of indexes that is not empty has a greatest element.
LEMMA Greatest ==
    ASSUME NEW n \in Nat, NEW T, T \subseteq 0..n, T # {}
    PROVE  \E x \in T : \A y \in T : y <= x
<1> DEFINE D == {d \in 0..n : n - d \in T}
<1>1. D \subseteq Nat /\ D # {}
  <2>1. PICK x \in T : TRUE
    OBVIOUS
  <2>2. n - x \in 0..n /\ n - (n - x) = x
    BY <2>1
  <2>3. n - x \in D
    BY <2>1, <2>2
  <2>4. D \subseteq Nat
    OBVIOUS
  <2> QED
    BY <2>3, <2>4
<1>2. PICK d \in D : \A e \in D : <<e, d>> \notin OpToRel(<, Nat)
  BY <1>1, NatLessThanWellFounded, WFMin
<1>3. ASSUME NEW y \in T
      PROVE  y <= n - d
  <2>1. n - y \in D /\ d \in Nat /\ y \in Nat
    BY <1>1
  <2>2. ~(n - y < d)
    BY <1>1, <1>2, <2>1 DEF OpToRel
  <2> QED
    BY <2>1, <2>2
<1> QED
  BY <1>2, <1>3

\* The boundary from which a session is loaded is the last one, if there is one.
LEMMA LastBoundaryIsLast ==
    ASSUME NEW f \in Seq(Record)
    PROVE  /\ LastBoundary(f) \in 0..Len(f)
           /\ LastBoundary(f) = 0 \/ f[LastBoundary(f)].boundary
           /\ \A i \in (LastBoundary(f) + 1)..Len(f) : ~f[i].boundary
<1> DEFINE T == {n \in 0..Len(f) : n = 0 \/ f[n].boundary}
<1>1. T \subseteq 0..Len(f) /\ 0 \in T /\ Len(f) \in Nat
  OBVIOUS
<1>2. PICK n \in T : \A k \in T : k <= n
  BY <1>1, Greatest
<1>3. \A i \in (n + 1)..Len(f) : ~f[i].boundary
  <2>1. SUFFICES ASSUME NEW i \in (n + 1)..Len(f), f[i].boundary
                 PROVE  FALSE
    OBVIOUS
  <2>2. i \in T
    BY <1>1, <2>1
  <2> QED
    BY <1>1, <1>2, <2>1, <2>2
<1> QED
  BY <1>1, <1>2, <1>3 DEF LastBoundary

\* It does not move when messages are written, and moves to a boundary that is.
LEMMA LastBoundaryIsUnique ==
    ASSUME NEW f \in Seq(Record), NEW n \in 0..Len(f),
           n = 0 \/ f[n].boundary,
           \A i \in (n + 1)..Len(f) : ~f[i].boundary
    PROVE  LastBoundary(f) = n
<1> DEFINE k == LastBoundary(f)
<1>1. k \in 0..Len(f) /\ (k = 0 \/ f[k].boundary) /\ \A i \in (k + 1)..Len(f) : ~f[i].boundary
  BY LastBoundaryIsLast
<1> HIDE DEF k
<1>2. ~(k < n)
  <2>1. SUFFICES ASSUME k < n PROVE FALSE
    OBVIOUS
  <2> QED
    BY <1>1, <2>1
<1>3. ~(n < k)
  <2>1. SUFFICES ASSUME n < k PROVE FALSE
    OBVIOUS
  <2> QED
    BY <1>1, <2>1
<1> QED
  BY <1>1, <1>2, <1>3 DEF k

\* Whatever the file holds, loading it gives messages.
LEMMA LoadType ==
    ASSUME NEW f \in Seq(Record)
    PROVE  Load(f) \in Seq(Message)
<1> DEFINE n == LastBoundary(f)
           head == IF n = 0 THEN <<>> ELSE f[n].messages
           rest == [i \in 1..(Len(f) - n) |-> f[n + i].messages[1]]
<1>1. n \in 0..Len(f)
  BY LastBoundaryIsLast
<1> HIDE DEF n
<1>2. head \in Seq(Message)
  BY <1>1 DEF Record
<1>3. ASSUME NEW i \in 1..(Len(f) - n)
      PROVE  f[n + i].messages[1] \in Message
  <2>1. f[n + i] \in Record
    BY <1>1
  <2> QED
    BY <2>1 DEF Record
<1>4. rest \in Seq(Message)
  BY <1>1, <1>3
<1> HIDE DEF head, rest
<1> QED
  BY <1>2, <1>4 DEF Load, head, rest, n

\* What is loaded, as a set: the boundary's messages and those of the lines behind it.
LEMMA LoadedMessages ==
    ASSUME NEW f \in Seq(Record), NEW m
    PROVE  m \in Range(Load(f)) <=>
              \/ /\ LastBoundary(f) # 0
                 /\ m \in Range(f[LastBoundary(f)].messages)
              \/ \E i \in (LastBoundary(f) + 1)..Len(f) : m = f[i].messages[1]
<1> DEFINE n == LastBoundary(f)
           head == IF n = 0 THEN <<>> ELSE f[n].messages
           rest == [i \in 1..(Len(f) - n) |-> f[n + i].messages[1]]
<1>1. n \in 0..Len(f)
  BY LastBoundaryIsLast
<1> HIDE DEF n
<1>2. head \in Seq(Message) /\ Range(head) = IF n = 0 THEN {} ELSE Range(f[n].messages)
  BY <1>1 DEF Record, Range
<1>3. ASSUME NEW i \in 1..(Len(f) - n)
      PROVE  f[n + i].messages[1] \in Message
  <2>1. f[n + i] \in Record
    BY <1>1
  <2> QED
    BY <2>1 DEF Record
<1>4. rest \in Seq(Message)
  BY <1>1, <1>3
<1>5. m \in Range(rest) <=> \E i \in (n + 1)..Len(f) : m = f[i].messages[1]
  <2>1. m \in Range(rest) <=> \E i \in 1..(Len(f) - n) : m = f[n + i].messages[1]
    BY DEF Range
  <2>2. ASSUME NEW i \in (n + 1)..Len(f)
        PROVE  i - n \in 1..(Len(f) - n) /\ n + (i - n) = i
    BY <1>1
  <2>3. ASSUME NEW i \in 1..(Len(f) - n)
        PROVE  n + i \in (n + 1)..Len(f)
    BY <1>1
  <2> HIDE DEF rest
  <2> QED
    BY <2>1, <2>2, <2>3
<1> HIDE DEF head, rest
<1>6. Range(head \o rest) = Range(head) \cup Range(rest)
  BY <1>2, <1>4, RangeConcatenation
<1>7. Load(f) = head \o rest
  BY DEF Load, head, rest, n
<1> QED
  BY <1>2, <1>5, <1>6, <1>7 DEF n

\* A line holds one message and is no boundary.
LEMMA LineIsRecord ==
    ASSUME NEW m \in Message
    PROVE  Line(m) \in Record /\ ~Line(m).boundary /\ Line(m).messages[1] = m
<1>1. <<m>> \in Seq(Message) /\ Len(<<m>>) = 1 /\ <<m>>[1] = m
  OBVIOUS
<1>2. Line(m) = [boundary |-> FALSE, messages |-> <<m>>]
  BY DEF Line
<1> QED
  BY <1>1, <1>2 DEF Record

\* Messages that are written are loaded, with all that was loaded before.
LEMMA LinesLogged ==
    ASSUME NEW f \in Seq(Record), NEW ms \in Seq(Message)
    PROVE  /\ f \o Lines(ms) \in Seq(Record)
           /\ Range(Load(f)) \cup Range(ms) \subseteq Range(Load(f \o Lines(ms)))
<1> DEFINE n == LastBoundary(f)
           g == f \o Lines(ms)
<1>1. n \in 0..Len(f) /\ (n = 0 \/ f[n].boundary) /\ \A i \in (n + 1)..Len(f) : ~f[i].boundary
  BY LastBoundaryIsLast
<1> HIDE DEF n
<1>2. \A i \in 1..Len(ms) : Line(ms[i]) \in Record
  BY LineIsRecord
<1>3. Lines(ms) \in Seq(Record) /\ Len(Lines(ms)) = Len(ms)
                /\ \A i \in 1..Len(ms) : Lines(ms)[i] = Line(ms[i])
  BY <1>2 DEF Lines
<1>4. /\ g \in Seq(Record) /\ Len(g) = Len(f) + Len(ms)
      /\ \A i \in 1..Len(f) : g[i] = f[i]
      /\ \A i \in (Len(f) + 1)..Len(g) : g[i] = Lines(ms)[i - Len(f)]
  <2> DEFINE l == Lines(ms)
  <2>1. l \in Seq(Record) /\ Len(l) = Len(ms)
    BY <1>3
  <2> HIDE DEF l
  <2>2. /\ f \o l \in Seq(Record) /\ Len(f \o l) = Len(f) + Len(l)
        /\ \A i \in 1..(Len(f) + Len(l)) :
              (f \o l)[i] = IF i <= Len(f) THEN f[i] ELSE l[i - Len(f)]
    BY <2>1, ConcatProperties
  <2> QED
    BY <2>1, <2>2 DEF l
<1>5. ASSUME NEW i \in 1..Len(ms)
      PROVE  /\ Len(f) + i \in (n + 1)..Len(g)
             /\ g[Len(f) + i] = Line(ms[i])
  BY <1>1, <1>3, <1>4
<1> HIDE DEF g
<1>6. LastBoundary(g) = n
  <2>1. ASSUME NEW i \in (n + 1)..Len(g)
        PROVE  ~g[i].boundary
    <3>1. CASE i <= Len(f)
      BY <1>1, <1>4, <3>1
    <3>2. CASE i > Len(f)
      <4>1. i - Len(f) \in 1..Len(ms) /\ g[i] = Line(ms[i - Len(f)])
        BY <1>1, <1>3, <1>4, <3>2
      <4> QED
        BY <4>1, LineIsRecord
    <3> QED
      BY <1>1, <3>1, <3>2
  <2>2. n \in 0..Len(g) /\ (n = 0 \/ g[n].boundary)
    BY <1>1, <1>4
  <2> QED
    BY <1>4, <2>1, <2>2, LastBoundaryIsUnique
<1>7. ASSUME NEW m \in Range(ms)
      PROVE  m \in Range(Load(g))
  <2>1. PICK i \in 1..Len(ms) : m = ms[i]
    BY DEF Range
  <2>2. g[Len(f) + i].messages[1] = m
    BY <1>5, <2>1, LineIsRecord
  <2> QED
    BY <1>4, <1>5, <1>6, <2>2, LoadedMessages
<1>8. ASSUME NEW m \in Range(Load(f))
      PROVE  m \in Range(Load(g))
  <2>1. CASE n # 0 /\ m \in Range(f[n].messages)
    BY <1>1, <1>4, <1>6, <2>1, LoadedMessages
  <2>2. CASE \E i \in (n + 1)..Len(f) : m = f[i].messages[1]
    <3>1. PICK i \in (n + 1)..Len(f) : m = f[i].messages[1]
      BY <2>2
    <3>2. i \in (n + 1)..Len(g) /\ g[i] = f[i]
      BY <1>1, <1>4
    <3> QED
      BY <1>4, <1>6, <3>1, <3>2, LoadedMessages
  <2> QED
    BY <2>1, <2>2, LoadedMessages DEF n
<1> QED
  BY <1>4, <1>7, <1>8 DEF g

\* Of a boundary the summary and the kept tail are loaded.
LEMMA BoundaryLogged ==
    ASSUME NEW f \in Seq(Record), NEW tail \in Seq(Message)
    PROVE  /\ Append(f, Boundary(tail)) \in Seq(Record)
           /\ Range(<<Text("summary")>> \o tail)
                 \subseteq Range(Load(Append(f, Boundary(tail))))
<1> DEFINE g == Append(f, Boundary(tail))
           ms == <<Text("summary")>> \o tail
<1>1. <<Text("summary")>> \in Seq(Message) /\ Len(<<Text("summary")>>) = 1
  BY SessionAssumption DEF Text, Message, Role
<1>2. ms \in Seq(Message) /\ ms # <<>>
  BY <1>1
<1>3. Boundary(tail) = [boundary |-> TRUE, messages |-> ms]
  BY DEF Boundary
<1> HIDE DEF ms
<1>4. Boundary(tail) \in Record
  BY <1>2, <1>3 DEF Record
<1>5. g \in Seq(Record) /\ Len(g) = Len(f) + 1 /\ g[Len(f) + 1] = Boundary(tail)
  BY <1>4, AppendProperties
<1> HIDE DEF g
<1>6. LastBoundary(g) = Len(f) + 1
  <2>1. Len(f) + 1 \in 0..Len(g) /\ g[Len(f) + 1].boundary
    BY <1>3, <1>5
  <2>2. \A i \in (Len(f) + 1 + 1)..Len(g) : ~g[i].boundary
    BY <1>5
  <2> QED
    BY <1>5, <2>1, <2>2, LastBoundaryIsUnique
<1>7. g[LastBoundary(g)].messages = ms /\ LastBoundary(g) # 0
  BY <1>3, <1>5, <1>6
<1>8. Range(ms) \subseteq Range(Load(g))
  BY <1>5, <1>7, LoadedMessages
<1> QED
  BY <1>5, <1>8 DEF g, ms
-----------------------------------------------------------------------------

\* The spoken messages among the first n of h are loaded from f.
UpTo(h, n, f) ==
    \A i \in DOMAIN h : i <= n /\ h[i].role \in Spoken => h[i] \in Range(Load(f))

\* To inject the context moves messages back and never forward.
LEMMA InjectMovesBack ==
    ASSUME NEW h \in Seq(Message), NEW env \in BOOLEAN, NEW ltm \in BOOLEAN
    PROVE  /\ Inject(h, env, ltm) \in Seq(Message)
           /\ Len(Inject(h, env, ltm)) >= Len(h)
           /\ \A i \in DOMAIN Inject(h, env, ltm) :
                 \/ Inject(h, env, ltm)[i].role \notin Spoken
                 \/ \E j \in DOMAIN h : j <= i /\ Inject(h, env, ltm)[i] = h[j]
<1> DEFINE head == IF env THEN <<>> ELSE <<Text("env")>>
           memories == IF ltm \/ ~HasMemory THEN <<>> ELSE <<Text("ltm")>>
           g == Inject(h, env, ltm)
<1>1. \A role \in {"env", "ltm"} : Text(role) \in Message /\ Text(role).role \notin Spoken
  BY SessionAssumption DEF Text, Message, Role, Spoken
<1>2. /\ head \in Seq(Message) /\ Len(head) \in {0, 1}
      /\ \A i \in 1..Len(head) : head[i].role \notin Spoken
  BY <1>1
<1>3. /\ memories \in Seq(Message) /\ Len(memories) \in {0, 1}
      /\ \A i \in 1..Len(memories) : memories[i].role \notin Spoken
  BY <1>1
<1>4. g = IF env /\ h # <<>> THEN <<h[1]>> \o memories \o Tail(h)
          ELSE head \o memories \o h
  BY DEF Inject
<1> HIDE DEF head, memories, g
<1>5. CASE env /\ h # <<>>
  <2>1. Len(h) \in Nat /\ Len(h) > 0
    BY <1>5
  <2> DEFINE a == <<h[1]>> \o memories
             t == Tail(h)
  <2>2. a \in Seq(Message) /\ Len(a) = 1 + Len(memories) /\ a[1] = h[1]
        /\ \A i \in 2..Len(a) : a[i] = memories[i - 1]
    BY <1>3, <1>5, <2>1
  <2>3. t \in Seq(Message) /\ Len(t) = Len(h) - 1 /\ \A i \in 1..Len(t) : t[i] = h[i + 1]
    BY <1>5, <2>1
  <2>4. g = a \o t
    BY <1>4, <1>5
  <2> HIDE DEF a, t
  <2>5. g \in Seq(Message) /\ Len(g) = Len(a) + Len(t)
        /\ \A i \in 1..Len(g) : g[i] = IF i <= Len(a) THEN a[i] ELSE t[i - Len(a)]
    <3>1. /\ a \o t \in Seq(Message) /\ Len(a \o t) = Len(a) + Len(t)
          /\ \A i \in 1..(Len(a) + Len(t)) :
                (a \o t)[i] = IF i <= Len(a) THEN a[i] ELSE t[i - Len(a)]
      BY <2>2, <2>3, ConcatProperties
    <3> QED
      BY <2>4, <3>1
  <2>6. ASSUME NEW i \in 1..Len(g), g[i].role \in Spoken
        PROVE  \E j \in 1..Len(h) : j <= i /\ g[i] = h[j]
    <3>1. CASE i = 1
      BY <2>1, <2>2, <2>5, <3>1
    <3>2. CASE i # 1 /\ i <= Len(a)
      BY <1>3, <2>2, <2>5, <2>6, <3>2
    <3>3. CASE i > Len(a)
      <4>1. i - Len(a) \in 1..Len(t) /\ g[i] = h[i - Len(a) + 1]
        <5>1. i \in Nat /\ Len(a) \in Nat /\ Len(t) \in Nat /\ i <= Len(a) + Len(t)
          BY <2>2, <2>3, <2>5
        <5>2. i - Len(a) \in 1..Len(t)
          BY <3>3, <5>1
        <5>3. g[i] = t[i - Len(a)]
          BY <2>5, <3>3, <5>1
        <5> QED
          BY <2>3, <5>2, <5>3
      <4>2. i - Len(a) + 1 \in 1..Len(h) /\ i - Len(a) + 1 <= i
        BY <1>3, <2>2, <2>3, <4>1
      <4> QED
        BY <4>1, <4>2
    <3> QED
      BY <1>3, <2>2, <3>1, <3>2, <3>3
  <2>7. Len(g) >= Len(h) /\ DOMAIN g = 1..Len(g) /\ DOMAIN h = 1..Len(h)
    BY <1>3, <2>1, <2>2, <2>3, <2>5
  <2> QED
    BY <2>5, <2>6, <2>7 DEF g
<1>6. CASE ~(env /\ h # <<>>)
  <2> DEFINE a == head \o memories
  <2>1. a \in Seq(Message) /\ Len(a) \in Nat
        /\ \A i \in 1..Len(a) : a[i].role \notin Spoken
    <3>1. a \in Seq(Message) /\ Len(a) = Len(head) + Len(memories)
          /\ \A i \in 1..Len(a) : a[i] = IF i <= Len(head) THEN head[i]
                                            ELSE memories[i - Len(head)]
      BY <1>2, <1>3, ConcatProperties
    <3> QED
      BY <1>2, <1>3, <3>1
  <2>2. g = a \o h
    BY <1>4, <1>6
  <2> HIDE DEF a
  <2>3. g \in Seq(Message) /\ Len(g) = Len(a) + Len(h)
        /\ \A i \in 1..Len(g) : g[i] = IF i <= Len(a) THEN a[i] ELSE h[i - Len(a)]
    BY <2>1, <2>2, ConcatProperties
  <2>4. ASSUME NEW i \in 1..Len(g), g[i].role \in Spoken
        PROVE  \E j \in 1..Len(h) : j <= i /\ g[i] = h[j]
    <3>1. i > Len(a)
      BY <2>1, <2>3, <2>4
    <3>2. i - Len(a) \in 1..Len(h) /\ i - Len(a) <= i /\ g[i] = h[i - Len(a)]
      BY <2>1, <2>3, <3>1
    <3> QED
      BY <3>2
  <2> QED
    BY <2>1, <2>3, <2>4 DEF g
<1> QED
  BY <1>5, <1>6

\* Injected context is not spoken: what was logged stays logged.
LEMMA InjectKeepsLogged ==
    ASSUME NEW h \in Seq(Message), NEW env \in BOOLEAN, NEW ltm \in BOOLEAN,
           NEW n \in Nat, NEW f, UpTo(h, n, f)
    PROVE  UpTo(Inject(h, env, ltm), n, f)
<1> DEFINE g == Inject(h, env, ltm)
<1>1. /\ g \in Seq(Message)
      /\ \A i \in DOMAIN g : \/ g[i].role \notin Spoken
                            \/ \E j \in DOMAIN h : j <= i /\ g[i] = h[j]
  BY InjectMovesBack
<1> HIDE DEF g
<1>2. ASSUME NEW i \in DOMAIN g, i <= n, g[i].role \in Spoken
      PROVE  g[i] \in Range(Load(f))
  <2>1. PICK j \in DOMAIN h : j <= i /\ g[i] = h[j]
    BY <1>1, <1>2
  <2>2. i \in Nat /\ j \in Nat
    BY <1>1
  <2> QED
    BY <1>2, <2>1, <2>2 DEF UpTo
<1> QED
  BY <1>2 DEF UpTo, g

\* Writing the messages behind n completes the log.
LEMMA UnsavedCompletes ==
    ASSUME NEW h \in Seq(Message), NEW n \in 0..Len(h), NEW f \in Seq(Record),
           UpTo(h, n, f)
    PROVE  LET g == f \o Lines(Unsaved(h, n))
           IN g \in Seq(Record) /\ UpTo(h, Len(h), g)
<1> DEFINE u == Unsaved(h, n)
           g == f \o Lines(u)
<1>1. /\ u \in Seq(Message) /\ Len(u) = Len(h) - n
      /\ \A i \in 1..Len(u) : u[i] = h[n + i]
  <2>1. n + 1 \in 1..(Len(h) + 1) /\ Len(h) \in 0..Len(h)
    OBVIOUS
  <2> QED
    BY <2>1 DEF Unsaved
<1> HIDE DEF u
<1>2. g \in Seq(Record) /\ Range(Load(f)) \cup Range(u) \subseteq Range(Load(g))
  BY <1>1, LinesLogged
<1> HIDE DEF g
<1>3. ASSUME NEW i \in DOMAIN h, h[i].role \in Spoken
      PROVE  h[i] \in Range(Load(g))
  <2>1. i \in 1..Len(h) /\ Len(h) \in Nat
    OBVIOUS
  <2>2. CASE i <= n
    BY <1>2, <1>3, <2>2 DEF UpTo
  <2>3. CASE i > n
    <3>1. i - n \in 1..Len(u) /\ n + (i - n) = i
      BY <1>1, <2>1, <2>3
    <3>2. h[i] \in Range(u)
      BY <1>1, <3>1 DEF Range
    <3> QED
      BY <1>2, <3>2
  <2> QED
    BY <2>1, <2>2, <2>3
<1> QED
  BY <1>2, <1>3 DEF UpTo, g, u
\* A message behind the cursor disturbs nothing before it.
LEMMA AppendKeepsLogged ==
    ASSUME NEW h \in Seq(Message), NEW m \in Message, NEW n \in Nat, n <= Len(h), NEW f,
           UpTo(h, n, f)
    PROVE  /\ Append(h, m) \in Seq(Message) /\ Len(Append(h, m)) = Len(h) + 1
           /\ UpTo(Append(h, m), n, f)
<1>1. /\ Append(h, m) \in Seq(Message) /\ Len(Append(h, m)) = Len(h) + 1
      /\ \A i \in 1..Len(h) : Append(h, m)[i] = h[i]
  OBVIOUS
<1>2. ASSUME NEW i \in DOMAIN Append(h, m), i <= n
      PROVE  i \in DOMAIN h /\ Append(h, m)[i] = h[i]
  BY <1>1, <1>2
<1> QED
  BY <1>1, <1>2 DEF UpTo

\* A compacted history is the summary and messages of the history.
LEMMA TailsAreOfHistory ==
    ASSUME NEW h \in Seq(Message), NEW tail \in KeptTails(h)
    PROVE  /\ tail \in Seq(Message) /\ Range(tail) \subseteq Range(h)
           /\ <<Text("summary")>> \o tail \in Seq(Message)
           /\ \A i \in DOMAIN (<<Text("summary")>> \o tail) :
                 \/ (<<Text("summary")>> \o tail)[i].role \notin Spoken
                 \/ (<<Text("summary")>> \o tail)[i] \in Range(tail)
<1>1. PICK s \in 2..Len(h) \cup 1..(Len(h) - 1) : tail = SubSeq(h, s, Len(h))
  <2> DEFINE aligned(i) == IF h[i].role = "results" /\ h[i - 1].role = "call" THEN i - 1 ELSE i
             starts == {aligned(i) : i \in {j \in 2..Len(h) : Len(h) - j < MaxKeep}}
  <2>1. PICK s \in starts \ {1} : tail = SubSeq(h, s, Len(h))
    BY DEF KeptTails
  <2>2. PICK i \in 2..Len(h) : s = i \/ s = i - 1
    BY <2>1
  <2>3. s \in 2..Len(h) \cup 1..(Len(h) - 1)
    BY <2>2
  <2> QED
    BY <2>1, <2>3
<1>2. s \in 1..Len(h) /\ Len(h) \in Nat
  BY <1>1
<1>3. /\ tail \in Seq(Message) /\ Len(tail) = Len(h) - s + 1
      /\ \A i \in 1..Len(tail) : tail[i] = h[s + i - 1]
  BY <1>1, <1>2
<1>4. Range(tail) \subseteq Range(h)
  <2>1. ASSUME NEW i \in 1..Len(tail)
        PROVE  tail[i] \in Range(h)
    <3>1. s + i - 1 \in 1..Len(h)
      BY <1>2, <1>3
    <3> QED
      BY <1>3, <3>1 DEF Range
  <2> QED
    BY <1>3, <2>1 DEF Range
<1>5. Text("summary") \in Message /\ Text("summary").role \notin Spoken
  BY SessionAssumption DEF Text, Message, Role, Spoken
<1> DEFINE one == <<Text("summary")>>
<1>6. one \in Seq(Message) /\ Len(one) = 1 /\ one[1].role \notin Spoken
  BY <1>5
<1> HIDE DEF one
<1>7. /\ one \o tail \in Seq(Message) /\ Len(one \o tail) = Len(one) + Len(tail)
      /\ \A i \in 1..(Len(one) + Len(tail)) :
            (one \o tail)[i] = IF i <= Len(one) THEN one[i] ELSE tail[i - Len(one)]
  BY <1>3, <1>6, ConcatProperties
<1>8. ASSUME NEW i \in 1..Len(one \o tail), (one \o tail)[i].role \in Spoken
      PROVE  (one \o tail)[i] \in Range(tail)
  <2>1. i \in 1..(1 + Len(tail)) /\ Len(tail) \in Nat
        /\ (one \o tail)[i] = IF i <= 1 THEN one[i] ELSE tail[i - 1]
    BY <1>3, <1>6, <1>7
  <2>2. i # 1
    BY <1>6, <1>8, <2>1
  <2>3. i - 1 \in 1..Len(tail) /\ (one \o tail)[i] = tail[i - 1]
    BY <2>1, <2>2
  <2>4. tail[i - 1] \in Range(tail)
    BY <1>3, <2>3 DEF Range
  <2> QED
    BY <2>3, <2>4
<1> QED
  BY <1>3, <1>4, <1>7, <1>8 DEF one

-----------------------------------------------------------------------------

InRun == pc \in InTry

\* /compact and /rewind wait for the end of a run.
CommandsWait == StreamingCommands \subseteq {"new"}

LogTypes ==
    /\ history \in Seq(Message) /\ envInjected \in BOOLEAN /\ ltmInjected \in BOOLEAN
    /\ file \in Seq(Record)
    /\ saved \in Nat /\ cursor \in Nat
    /\ pc \in Phase /\ cut \in BOOLEAN /\ made \in 0..MaxMessages
    /\ away # <<>> => away[1] \in Seq(Message)

\* Without a cut the count of saved messages is one of the history's, and the
\* messages it counts are logged, though the context that is injected at the head
\* moves them; between runs all are, and in a run those before the cursor.  While
\* the run has a conversation of its own, that of the chat is empty.
LogInv ==
    /\ LogTypes
    /\ away # <<>> => InRun /\ history = <<>> /\ saved = 0
    /\ ~cut => saved <= Len(history) /\ UpTo(history, saved, file)
    /\ pc \in {"idle", "recall"} => UpTo(history, Len(history), file)
    /\ InRun /\ away = <<>> => cursor <= Len(history) /\ UpTo(history, cursor, file)

\* A message is made with a number of its own.
LEMMA NewIsMessage ==
    ASSUME made \in 0..MaxMessages, made < MaxMessages
    PROVE  /\ \A role \in Role : New(role) \in Message
           /\ made + 1 \in 0..MaxMessages
  BY SessionAssumption DEF New, Message

\* Without one of its own, the run's conversation is that of the chat.
LEMMA Attached ==
    ASSUME away = <<>>
    PROVE  Ours = history /\ \A h : Becomes(h) => history' = h /\ away' = <<>>
BY DEF Ours, Becomes

\* A prompt is added to the history of a chat.
LEMMA PromptKeepsLog == LogInv /\ Prompt => LogInv'
<1> SUFFICES ASSUME LogInv, Prompt PROVE LogInv'
  OBVIOUS
<1> USE DEF LogInv, LogTypes
<1> DEFINE m == New("user")
<1>1. m \in Message /\ made' \in 0..MaxMessages
  BY NewIsMessage DEF Prompt, Role, Spoken
<1>2. /\ history' = Append(history, m) /\ history' \in Seq(Message)
      /\ Len(history') = Len(history) + 1 /\ history'[Len(history')] = m
      /\ \A i \in 1..Len(history) : history'[i] = history[i]
  BY <1>1 DEF Prompt
<1>3. <<m>> \in Seq(Message) /\ Range(<<m>>) = {m}
  <2>1. <<m>> \in Seq(Message) /\ DOMAIN <<m>> = {1} /\ <<m>>[1] = m
    BY <1>1
  <2> QED
    BY <2>1 DEF Range
<1>4. file' = file \o Lines(<<m>>)
  BY DEF Prompt, PromptLines
<1>5. file' \in Seq(Record) /\ Range(Load(file)) \cup {m} \subseteq Range(Load(file'))
  BY <1>3, <1>4, LinesLogged
<1>6. pc = "idle" /\ pc' = "recall"
  BY DEF Prompt
<1>7. ASSUME NEW i \in DOMAIN history', history'[i].role \in Spoken
      PROVE  history'[i] \in Range(Load(file'))
  <2>1. CASE i = Len(history')
    BY <1>2, <1>5, <2>1
  <2>2. CASE i # Len(history')
    <3>1. i \in DOMAIN history /\ i <= Len(history) /\ history'[i] = history[i]
      BY <1>2, <2>2
    <3> QED
      BY <1>5, <1>6, <1>7, <3>1 DEF UpTo
  <2> QED
    BY <2>1, <2>2
<1>8. saved' = saved + 1 /\ cut' = cut
  BY DEF Prompt
<1>9. ~cut' => saved' <= Len(history')
  BY <1>2, <1>8
<1> QED
  BY <1>1, <1>2, <1>5, <1>6, <1>7, <1>8, <1>9 DEF Prompt, UpTo, InRun, InTry, Phase

\* The context is injected and the turn begins.
LEMMA StartKeepsLog == LogInv /\ Start => LogInv'
<1> SUFFICES ASSUME LogInv, Start PROVE LogInv'
  OBVIOUS
<1> USE DEF LogInv, LogTypes
<1>1. PICK h \in WithReminder(history) :
          /\ history' = Inject(h, envInjected, ltmInjected)
          /\ cursor' = Len(h)
          /\ made' = IF h = history THEN made ELSE made + 1
  BY DEF Start
<1>2. h = history \/ (made < MaxMessages /\ h = Append(history, New("reminder")))
  BY <1>1 DEF WithReminder
<1>3. pc = "recall" /\ pc' = "top" /\ saved' = saved /\ cut' = cut /\ file' = file
  BY DEF Start
<1>4. /\ h \in Seq(Message) /\ Len(h) >= Len(history)
      /\ UpTo(h, Len(h), file)
      /\ ~cut => UpTo(h, saved, file)
      /\ made' \in 0..MaxMessages
  <2>1. CASE h = history
    BY <1>1, <1>3, <2>1
  <2>2. CASE made < MaxMessages /\ h = Append(history, New("reminder"))
    <3>1. New("reminder") \in Message /\ New("reminder").role \notin Spoken
          /\ made + 1 \in 0..MaxMessages
      BY <2>2, NewIsMessage DEF New, Role, Spoken
    <3>2. /\ h \in Seq(Message) /\ Len(h) = Len(history) + 1
          /\ h[Len(h)] = New("reminder")
          /\ \A i \in 1..Len(history) : h[i] = history[i]
      BY <2>2, <3>1
    <3>3. ASSUME NEW i \in DOMAIN h, h[i].role \in Spoken
          PROVE  h[i] \in Range(Load(file))
      <4>1. i \in DOMAIN history /\ i <= Len(history) /\ h[i] = history[i]
        BY <3>1, <3>2, <3>3
      <4> QED
        BY <1>3, <3>3, <4>1 DEF UpTo
    <3> QED
      BY <1>1, <3>1, <3>2, <3>3 DEF UpTo
  <2> QED
    BY <1>2, <2>1, <2>2
<1>5. history' \in Seq(Message) /\ Len(history') >= Len(h)
  BY <1>1, <1>4, InjectMovesBack
<1>6. UpTo(history', cursor', file')
  BY <1>1, <1>3, <1>4, InjectKeepsLogged
<1>7. ~cut' => saved' <= Len(history') /\ UpTo(history', saved', file')
  <2>1. ~cut => UpTo(history', saved, file)
    BY <1>1, <1>4, InjectKeepsLogged
  <2> QED
    BY <1>3, <1>4, <1>5, <2>1
<1>8. cursor' \in Nat /\ cursor' <= Len(history')
  BY <1>1, <1>4, <1>5
<1>9. envInjected' \in BOOLEAN /\ ltmInjected' \in BOOLEAN
  BY SessionAssumption DEF Start
<1>10. away' = <<>>
  BY <1>3 DEF Start, InRun, InTry
<1> QED
  BY <1>3, <1>4, <1>5, <1>6, <1>7, <1>8, <1>9, <1>10 DEF InRun, InTry, Phase

\* A compaction, in a run or by command: what is kept of the history is logged.
LEMMA CompactedHistory ==
    ASSUME NEW h \in Seq(Message), NEW tail \in KeptTails(h), NEW n \in Nat, NEW f,
           \A i \in DOMAIN tail : tail[i].role \in Spoken => tail[i] \in Range(Load(f))
    PROVE  LET rebuilt == <<Text("summary")>> \o tail
               g == Inject(rebuilt, FALSE, FALSE)
           IN /\ rebuilt \in Seq(Message)
              /\ g \in Seq(Message) /\ Len(g) >= Len(rebuilt) /\ UpTo(g, n, f)
<1> DEFINE rebuilt == <<Text("summary")>> \o tail
<1>1. /\ rebuilt \in Seq(Message)
      /\ \A i \in DOMAIN rebuilt : rebuilt[i].role \notin Spoken \/ rebuilt[i] \in Range(tail)
  BY TailsAreOfHistory
<1> HIDE DEF rebuilt
<1>2. UpTo(rebuilt, n, f)
  BY <1>1 DEF UpTo, Range
<1>3. UpTo(Inject(rebuilt, FALSE, FALSE), n, f)
  BY <1>1, <1>2, InjectKeepsLogged
<1>4. /\ Inject(rebuilt, FALSE, FALSE) \in Seq(Message)
      /\ Len(Inject(rebuilt, FALSE, FALSE)) >= Len(rebuilt)
  BY <1>1, InjectMovesBack
<1> QED
  BY <1>1, <1>3, <1>4 DEF rebuilt

\* An automatic compaction writes a boundary.
LEMMA CompactKeepsLog == LogInv /\ away = <<>> /\ Compact => LogInv'
<1> SUFFICES ASSUME LogInv, away = <<>>, Compact PROVE LogInv'
  OBVIOUS
<1> USE DEF LogInv, LogTypes
<1>1. PICK tail \in KeptTails(history) :
          /\ history' = Inject(<<Text("summary")>> \o tail, FALSE, FALSE)
          /\ cursor' = Len(<<Text("summary")>> \o tail)
          /\ file' = Append(file, Boundary(tail)) /\ away' = <<>>
  BY Attached DEF Compact, CursorAfterCompaction
<1> DEFINE rebuilt == <<Text("summary")>> \o tail
<1>2. tail \in Seq(Message) /\ rebuilt \in Seq(Message)
  BY TailsAreOfHistory
<1>3. file' \in Seq(Record) /\ Range(rebuilt) \subseteq Range(Load(file'))
  BY <1>1, <1>2, BoundaryLogged
<1>4. \A i \in DOMAIN tail : tail[i] \in Range(rebuilt)
  <2> DEFINE one == <<Text("summary")>>
  <2>1. one \in Seq(Message) /\ tail \in Seq(Message)
    BY <1>2, SessionAssumption DEF Text, Message, Role
  <2> HIDE DEF one
  <2>2. Range(one \o tail) = Range(one) \cup Range(tail)
    BY <2>1, RangeConcatenation
  <2> QED
    BY <2>2 DEF Range, one
<1>5. \A i \in DOMAIN tail : tail[i] \in Range(Load(file'))
  BY <1>3, <1>4
<1> HIDE DEF rebuilt
<1>6. cursor' = Len(rebuilt) /\ history' = Inject(rebuilt, FALSE, FALSE)
  BY <1>1 DEF rebuilt
<1>7. cursor' \in Nat
  BY <1>2, <1>6
<1>8. history' \in Seq(Message) /\ Len(history') >= cursor' /\ UpTo(history', cursor', file')
  BY <1>5, <1>6, <1>7, CompactedHistory DEF rebuilt
<1>9. /\ envInjected' \in BOOLEAN /\ ltmInjected' \in BOOLEAN
      /\ pc' = "reply" /\ cut' = TRUE /\ saved' = saved /\ made' = made
  BY SessionAssumption DEF Compact
<1> QED
  BY <1>1, <1>3, <1>7, <1>8, <1>9 DEF InRun, InTry, Phase

\* So does the command.
LEMMA CompactCommandKeepsLog == CommandsWait /\ LogInv /\ CompactCommand => LogInv'
<1> SUFFICES ASSUME CommandsWait, LogInv, CompactCommand PROVE LogInv'
  OBVIOUS
<1> USE DEF LogInv, LogTypes
<1>1. PICK tail \in KeptTails(history) :
          history' = Inject(<<Text("summary")>> \o tail, FALSE, FALSE)
  BY DEF CompactCommand
<1>2. /\ pc = "idle" /\ pc' = "idle" /\ cut' = TRUE
      /\ UNCHANGED <<file, saved, cursor, away, made>>
  BY DEF CompactCommand, UserGives, CommandsWait
<1>3. tail \in Seq(Message) /\ Range(tail) \subseteq Range(history)
  BY TailsAreOfHistory
<1>4. ASSUME NEW i \in DOMAIN tail, tail[i].role \in Spoken
      PROVE  tail[i] \in Range(Load(file))
  <2>1. PICK j \in DOMAIN history : tail[i] = history[j]
    BY <1>3 DEF Range
  <2>2. j <= Len(history)
    OBVIOUS
  <2> QED
    BY <1>2, <1>4, <2>1, <2>2 DEF UpTo
<1>5. history' \in Seq(Message)
  BY <1>1, <1>4, CompactedHistory
<1>6. UpTo(history', Len(history'), file')
  <2>1. Len(history') \in Nat
    BY <1>5
  <2> QED
    BY <1>1, <1>2, <1>4, <2>1, CompactedHistory
<1>7. envInjected' \in BOOLEAN /\ ltmInjected' \in BOOLEAN
  BY SessionAssumption DEF CompactCommand
<1> QED
  BY <1>2, <1>5, <1>6, <1>7 DEF InRun, InTry, Phase

\* The steps of a run that add a message behind the cursor.
LEMMA AddKeepsLog ==
    ASSUME LogInv, NEW m \in Message, away = <<>>, Becomes(Append(Ours, m)),
           InRun, InRun', pc' \in Phase, made' \in 0..MaxMessages,
           UNCHANGED <<envInjected, ltmInjected, file, saved, cut, cursor>>
    PROVE  LogInv'
<1> USE DEF LogInv, LogTypes
<1>0. history' = Append(history, m) /\ away' = <<>>
  BY Attached
<1>1. /\ history' \in Seq(Message) /\ Len(history') = Len(history) + 1
      /\ UpTo(history', cursor, file)
  BY <1>0, AppendKeepsLogged
<1>2. ~cut => UpTo(history', saved, file)
  BY <1>0, AppendKeepsLogged
<1> QED
  BY <1>0, <1>1, <1>2 DEF InRun, InTry

\* Answers, calls and results wait behind the cursor.
LEMMA ReplyKeepsLog ==
    LogInv /\ away = <<>> /\ (Answer \/ CallTools \/ AddResults) => LogInv'
<1> SUFFICES ASSUME LogInv, away = <<>>, Answer \/ CallTools \/ AddResults
             PROVE  LogInv'
  OBVIOUS
<1>1. CASE Answer
  <2>1. New("assistant") \in Message /\ made + 1 \in 0..MaxMessages
    BY <1>1, NewIsMessage DEF LogInv, LogTypes, Answer, Role, Spoken
  <2> QED
    BY <1>1, <2>1, AddKeepsLog DEF Answer, InRun, InTry, Phase
<1>2. CASE CallTools
  <2>1. New("call") \in Message /\ made + 1 \in 0..MaxMessages
    BY <1>2, NewIsMessage DEF LogInv, LogTypes, CallTools, Role, Spoken
  <2> QED
    BY <1>2, <2>1, AddKeepsLog DEF CallTools, InRun, InTry, Phase
<1>3. CASE AddResults
  <2>1. ResultsOfCall \in Message
    BY DEF ResultsOfCall, Message, Role, Spoken, LogInv, LogTypes
  <2> QED
    BY <1>3, <2>1, AddKeepsLog DEF AddResults, InRun, InTry, Phase, LogInv, LogTypes
<1> QED
  BY <1>1, <1>2, <1>3

\* A response cut at its limit waits behind the cursor too.
LEMMA CutOffKeepsLog == LogInv /\ away = <<>> /\ CutOff => LogInv'
<1> SUFFICES ASSUME LogInv, away = <<>>, CutOff PROVE LogInv'
  OBVIOUS
<1> USE DEF LogInv, LogTypes
<1> DEFINE a == New("assistant")
           b == Text("reminder")
<1>1. a \in Message /\ b \in Message /\ made + 1 \in 0..MaxMessages
  BY NewIsMessage, SessionAssumption DEF CutOff, Role, Spoken, Text, Message
<1> HIDE DEF a, b
<1>2. history' = Append(Append(history, a), b) /\ away' = <<>>
  <2>1. history' = history \o <<a, b>> /\ away' = <<>>
    BY Attached DEF CutOff, a, b
  <2>2. history \in Seq(Message) /\ <<a, b>> \in Seq(Message)
    BY <1>1
  <2>3. history \o <<a, b>> = Append(Append(history, a), b)
    BY <1>1, <2>2
  <2> QED
    BY <2>1, <2>3
<1> DEFINE h == Append(history, a)
<1>3. /\ h \in Seq(Message) /\ Len(h) = Len(history) + 1
      /\ UpTo(h, cursor, file) /\ (~cut => UpTo(h, saved, file))
  BY <1>1, AppendKeepsLogged DEF CutOff, InRun, InTry
<1> HIDE DEF h
<1>4. /\ history' \in Seq(Message) /\ Len(history') = Len(history) + 2
      /\ UpTo(history', cursor, file) /\ (~cut => UpTo(history', saved, file))
  <2>1. history' = Append(h, b) /\ cursor <= Len(h) /\ (~cut => saved <= Len(h))
    BY <1>2, <1>3 DEF h, CutOff, InRun, InTry
  <2> QED
    BY <1>1, <1>3, <2>1, AppendKeepsLogged
<1> QED
  BY <1>1, <1>2, <1>4 DEF CutOff, InRun, InTry, Phase

\* The end of a turn writes the messages behind the cursor.
LEMMA EndTurnKeepsLog == LogInv /\ away = <<>> /\ EndTurn => LogInv'
<1> SUFFICES ASSUME LogInv, away = <<>>, EndTurn PROVE LogInv'
  OBVIOUS
<1> USE DEF LogInv, LogTypes
<1>1. /\ cursor \in 0..Len(history) /\ UpTo(history, cursor, file)
      /\ file' = file \o Lines(Unsaved(history, cursor))
      /\ pc' \in {"top", "idle"} /\ history' = history
      /\ saved' = Len(history) /\ cursor' = Len(history)
  BY DEF EndTurn, InRun, InTry, conversation
<1>2. file' \in Seq(Record) /\ UpTo(history, Len(history), file')
  BY <1>1, UnsavedCompletes
<1>3. UpTo(history', Len(history'), file') /\ saved' = Len(history') /\ cursor' = Len(history')
  BY <1>1, <1>2
<1>4. cut' = FALSE /\ cut' \in BOOLEAN
  BY DEF EndTurn
<1>5. UNCHANGED <<envInjected, ltmInjected, made>>
  BY DEF EndTurn, conversation
<1>6. saved' \in Nat /\ cursor' \in Nat
  BY <1>1
<1>7. pc' \in Phase /\ away' = <<>>
  BY <1>1 DEF Phase, InTry, EndTurn
<1> QED
  BY <1>1, <1>2, <1>3, <1>4, <1>5, <1>6, <1>7

\* A run that was cut is not stopped: what saved says is true of the history then.
LEMMA StopKeepsLog == ~StopsWhenCut /\ LogInv /\ Stop => LogInv'
<1> SUFFICES ASSUME ~StopsWhenCut, LogInv, Stop PROVE LogInv'
  OBVIOUS
<1> USE DEF LogInv, LogTypes
<1>1. /\ saved \in 0..Len(history) /\ UpTo(history, saved, file)
      /\ file' = file \o Lines(Unsaved(history, saved))
      /\ pc' = "idle" /\ history' = history /\ saved' = Len(history) /\ away' = <<>>
  BY DEF Stop, conversation
<1>2. file' \in Seq(Record) /\ UpTo(history, Len(history), file')
  BY <1>1, UnsavedCompletes
<1>3. UpTo(history', Len(history'), file') /\ saved' = Len(history')
  BY <1>1, <1>2
<1>4. cut' \in BOOLEAN /\ UNCHANGED <<envInjected, ltmInjected, cursor, made>>
  BY DEF Stop, conversation
<1>5. pc' \in Phase /\ ~InRun'
  BY <1>1 DEF Phase, InRun, InTry
<1> QED
  BY <1>1, <1>2, <1>3, <1>4, <1>5

\* A chat with an empty history has nothing to log.
LEMMA EmptyKeepsLog ==
    ASSUME history' = <<>>, saved' = 0, cursor' \in Nat, cut' \in BOOLEAN,
           envInjected' \in BOOLEAN, ltmInjected' \in BOOLEAN,
           file' \in Seq(Record), pc' \in Phase, made' \in 0..MaxMessages,
           \/ away' = <<>> /\ (pc' \in InTry => cursor' = 0)
           \/ away' # <<>> /\ away'[1] \in Seq(Message) /\ pc' \in InTry
    PROVE  LogInv'
<1>1. history' \in Seq(Message) /\ Len(history') = 0
  OBVIOUS
<1>2. \A n : UpTo(history', n, file')
  BY DEF UpTo
<1>3. LogTypes'
  BY <1>1 DEF LogTypes
<1>4. InRun' <=> pc' \in InTry
  BY DEF InRun
<1>5. saved' <= Len(history')
  BY <1>1
<1>6. InRun' /\ away' = <<>> => cursor' <= Len(history')
  BY <1>1, <1>4
<1> QED
  BY <1>2, <1>3, <1>4, <1>5, <1>6 DEF LogInv

\* A process that ends leaves the file; another session has one of its own.
LEMMA EndKeepsLog == LogInv /\ (Crash \/ Exit \/ NewCommand) => LogInv'
<1> SUFFICES ASSUME LogInv, Crash \/ Exit \/ NewCommand PROVE LogInv'
  OBVIOUS
<1>1. /\ history' = <<>> /\ saved' = 0 /\ cut' = FALSE /\ made' = made
      /\ envInjected' = FALSE /\ ltmInjected' = FALSE
  BY DEF Crash, Exit, NewCommand, Forget
<1>2. /\ cut' \in BOOLEAN /\ envInjected' \in BOOLEAN /\ ltmInjected' \in BOOLEAN
      /\ made' \in 0..MaxMessages
  BY <1>1 DEF LogInv, LogTypes
<1>3. CASE Crash
  <2>1. pc' = "down" /\ cursor' = 0 /\ away' = <<>> /\ file' = file
    BY <1>3 DEF Crash
  <2>2. pc' \in Phase /\ pc' \notin InTry /\ file' \in Seq(Record)
    BY <2>1 DEF Phase, InTry, LogInv, LogTypes
  <2> QED
    BY <1>1, <1>2, <2>1, <2>2, EmptyKeepsLog
<1>4. CASE Exit
  <2>1. Unsaved(history, saved) \in Seq(Message)
    BY DEF LogInv, LogTypes, Unsaved
  <2>2. file' \in Seq(Record)
    BY <1>4, <2>1, LinesLogged DEF Exit, LogInv, LogTypes
  <2>3. pc' = "down" /\ cursor' = 0 /\ away' = <<>>
    BY <1>4 DEF Exit
  <2>4. pc' \in Phase /\ pc' \notin InTry
    BY <2>3 DEF Phase, InTry
  <2> QED
    BY <1>1, <1>2, <2>2, <2>3, <2>4, EmptyKeepsLog
<1>5. CASE NewCommand
  <2>1. file' \in Seq(Record) /\ pc' = pc /\ pc \in Phase
    BY <1>5 DEF NewCommand, LogInv, LogTypes
  <2>2. CASE pc \in InTry
    <3>1. away' = <<Ours>> /\ cursor' = cursor
      BY <1>5, <2>2 DEF NewCommand
    <3>2. Ours \in Seq(Message) /\ cursor' \in Nat
      BY <3>1 DEF Ours, LogInv, LogTypes
    <3>3. away' # <<>> /\ away'[1] \in Seq(Message)
      BY <3>1, <3>2
    <3> QED
      BY <1>1, <1>2, <2>1, <2>2, <3>2, <3>3, EmptyKeepsLog
  <2>3. CASE pc \notin InTry
    <3>1. away' = away /\ cursor' = 0 /\ away = <<>>
      BY <1>5, <2>3 DEF NewCommand, LogInv, InRun
    <3> QED
      BY <1>1, <1>2, <2>1, <2>3, <3>1, EmptyKeepsLog
  <2> QED
    BY <2>2, <2>3
<1> QED
  BY <1>3, <1>4, <1>5

\* A resumed chat has the history that the file gives.
LEMMA ResumeKeepsLog == LogInv /\ Resume => LogInv'
<1> SUFFICES ASSUME LogInv, Resume PROVE LogInv'
  OBVIOUS
<1> USE DEF LogInv, LogTypes
<1>1. Load(file) \in Seq(Message)
  BY LoadType
<1>2. /\ history' = Load(file) /\ saved' = Len(Load(file)) /\ file' = file /\ pc' = "idle"
      /\ cut' = FALSE
  BY DEF Resume
<1>3. UpTo(history', Len(history'), file') /\ saved' = Len(history')
  BY <1>2 DEF UpTo, Range
<1>4. /\ cut' \in BOOLEAN /\ UNCHANGED <<envInjected, ltmInjected, cursor, made>>
      /\ away' = <<>>
  BY DEF Resume, InRun, InTry
<1>5. pc' \in Phase /\ ~InRun'
  BY <1>2 DEF Phase, InRun, InTry
<1>6. saved' \in Nat
  BY <1>1, <1>2
<1> QED
  BY <1>1, <1>2, <1>3, <1>4, <1>5, <1>6

\* A rewind writes the shorter history behind a boundary.
LEMMA RewindKeepsLog == CommandsWait /\ LogInv /\ RewindCommand => LogInv'
<1> SUFFICES ASSUME CommandsWait, LogInv, RewindCommand PROVE LogInv'
  OBVIOUS
<1> USE DEF LogInv, LogTypes
<1>1. PICK n \in 0..Len(history) : history' = SubSeq(history, 1, n)
  BY DEF RewindCommand
<1>2. /\ history' \in Seq(Message) /\ Len(history') = n
      /\ \A i \in 1..n : history'[i] = history[i]
  BY <1>1
<1>3. pc = "idle" /\ cut' = TRUE
      /\ UNCHANGED <<envInjected, ltmInjected, file, saved, cursor, pc, away, made>>
  BY DEF RewindCommand, UserGives, CommandsWait
<1>4. UpTo(history', Len(history'), file')
  <2>1. ASSUME NEW i \in DOMAIN history'
        PROVE  i \in DOMAIN history /\ i <= Len(history) /\ history'[i] = history[i]
    BY <1>1, <1>2
  <2> QED
    BY <1>3, <2>1 DEF UpTo
<1> QED
  BY <1>2, <1>3, <1>4 DEF InRun, InTry, Phase

\* A run with a conversation of its own leaves the empty one of the chat alone.
LEMMA AwayKeepsLog ==
    LogInv /\ away # <<>>
    /\ (Compact \/ NoCompaction \/ Answer \/ CallTools \/ CutOff \/ AddResults
        \/ EndTurn \/ Stop)
    => LogInv'
<1> SUFFICES ASSUME LogInv, away # <<>>,
                    \/ Compact \/ NoCompaction \/ Answer \/ CallTools \/ CutOff
                    \/ AddResults \/ EndTurn \/ Stop
             PROVE  LogInv'
  OBVIOUS
<1> DEFINE mine == away[1]
<1>1. /\ history = <<>> /\ saved = 0 /\ mine \in Seq(Message) /\ Ours = mine
      /\ \A h : Becomes(h) => away' = <<h>> /\ history' = history
  BY DEF LogInv, LogTypes, Ours, Becomes
<1>2. /\ cursor \in Nat /\ cut \in BOOLEAN /\ envInjected \in BOOLEAN
      /\ ltmInjected \in BOOLEAN /\ file \in Seq(Record) /\ made \in 0..MaxMessages
      /\ Len(history) = 0
  BY <1>1 DEF LogInv, LogTypes
<1> HIDE DEF mine
<1>3. CASE Compact
  <2>1. PICK tail \in KeptTails(mine) :
            /\ Becomes(Inject(<<Text("summary")>> \o tail, FALSE, FALSE))
            /\ cursor' = Len(history)
            /\ file' = Append(file, Boundary(tail))
    BY <1>1, <1>3 DEF Compact, CursorAfterCompaction
  <2> DEFINE g == Inject(<<Text("summary")>> \o tail, FALSE, FALSE)
  <2>2. tail \in Seq(Message) /\ <<Text("summary")>> \o tail \in Seq(Message)
    BY <1>1, TailsAreOfHistory
  <2>3. file' \in Seq(Record)
    BY <1>2, <2>1, <2>2, BoundaryLogged
  <2>4. g \in Seq(Message)
    BY <2>2, InjectMovesBack
  <2> HIDE DEF g
  <2>5. away' = <<g>> /\ history' = <<>>
    BY <1>1, <2>1 DEF g
  <2>6. away' # <<>> /\ away'[1] \in Seq(Message)
    BY <2>4, <2>5
  <2>7. /\ pc' = "reply" /\ saved' = 0 /\ made' = made /\ cut' = cut
        /\ envInjected' = envInjected /\ ltmInjected' = ltmInjected
    BY <1>1, <1>2, <1>3 DEF Compact
  <2>8. cursor' \in Nat /\ pc' \in InTry /\ pc' \in Phase
    BY <1>2, <2>1, <2>7 DEF InTry, Phase
  <2> QED
    BY <1>2, <2>3, <2>5, <2>6, <2>7, <2>8, EmptyKeepsLog
<1>4. CASE NoCompaction
  <2>1. /\ UNCHANGED <<history, envInjected, ltmInjected, file, saved, away, cut,
                       cursor, made>>
        /\ pc' \in InTry /\ pc' \in Phase
    BY <1>4 DEF NoCompaction, conversation, InTry, Phase
  <2> QED
    BY <1>1, <1>2, <2>1, EmptyKeepsLog DEF mine
<1>5. CASE Answer \/ CallTools \/ CutOff \/ AddResults
  <2>1. /\ UNCHANGED <<envInjected, ltmInjected, file, saved, cut, cursor>>
        /\ pc' \in InTry /\ pc' \in Phase
        /\ made' \in {made, made + 1} /\ (made' # made => made < MaxMessages)
    BY <1>5 DEF Answer, CallTools, CutOff, AddResults, InTry, Phase
  <2>2. made' \in 0..MaxMessages
    BY <1>2, <2>1, NewIsMessage
  <2>3. \E h \in Seq(Message) : Becomes(h)
    <3>1. /\ made < MaxMessages => New("assistant") \in Message /\ New("call") \in Message
          /\ ResultsOfCall \in Message /\ Text("reminder") \in Message
      BY <1>2, NewIsMessage, SessionAssumption
      DEF Role, Spoken, ResultsOfCall, Message, Text
    <3>2. \A m \in Message : Append(mine, m) \in Seq(Message)
      BY <1>1
    <3>3. CASE Answer
      <4> DEFINE m == New("assistant")
      <4>1. m \in Message /\ Becomes(Append(mine, m))
        BY <1>1, <3>1, <3>3 DEF Answer
      <4> HIDE DEF m
      <4> QED
        BY <3>2, <4>1
    <3>4. CASE CallTools
      <4> DEFINE m == New("call")
      <4>1. m \in Message /\ Becomes(Append(mine, m))
        BY <1>1, <3>1, <3>4 DEF CallTools
      <4> HIDE DEF m
      <4> QED
        BY <3>2, <4>1
    <3>5. CASE AddResults
      <4>1. ResultsOfCall \in Message /\ Becomes(Append(mine, ResultsOfCall))
        BY <1>1, <3>1, <3>5 DEF AddResults
      <4> QED
        BY <3>2, <4>1
    <3>6. CASE CutOff
      <4> DEFINE added == <<New("assistant"), Text("reminder")>>
      <4>1. Becomes(mine \o added) /\ added \in Seq(Message)
        BY <1>1, <3>1, <3>6 DEF CutOff
      <4> HIDE DEF added
      <4>2. mine \o added \in Seq(Message)
        BY <1>1, <4>1
      <4> QED
        BY <4>1, <4>2
    <3> QED
      BY <1>5, <3>3, <3>4, <3>5, <3>6
  <2>4. history' = <<>> /\ away' # <<>> /\ away'[1] \in Seq(Message)
    BY <1>1, <2>3
  <2> QED
    BY <1>1, <1>2, <2>1, <2>2, <2>4, EmptyKeepsLog
<1>6. CASE EndTurn
  <2>1. /\ Unsaved(history, cursor) \in Seq(Message)
        /\ file' = file \o Lines(Unsaved(history, cursor))
    BY <1>1, <1>2, <1>6 DEF EndTurn, Unsaved
  <2>2. file' \in Seq(Record)
    BY <1>2, <2>1, LinesLogged
  <2>3. /\ UNCHANGED <<history, envInjected, ltmInjected, made>>
        /\ saved' = 0 /\ cursor' = 0 /\ cut' = FALSE
        /\ \/ pc' = "idle" /\ away' = <<>>
           \/ pc' = "top" /\ away' = away
    BY <1>2, <1>6 DEF EndTurn, conversation
  <2>4. pc' \in Phase /\ (away' # <<>> => pc' \in InTry)
    BY <2>3 DEF Phase, InTry
  <2> QED
    BY <1>1, <1>2, <2>2, <2>3, <2>4, EmptyKeepsLog DEF mine
<1>7. CASE Stop
  <2>1. /\ Unsaved(history, saved) \in Seq(Message)
        /\ file' = file \o Lines(Unsaved(history, saved))
    BY <1>1, <1>2, <1>7 DEF Stop, Unsaved
  <2>2. file' \in Seq(Record)
    BY <1>2, <2>1, LinesLogged
  <2>3. /\ UNCHANGED <<history, envInjected, ltmInjected, made, cursor>>
        /\ saved' = 0 /\ cut' = FALSE /\ pc' = "idle" /\ away' = <<>>
    BY <1>2, <1>7 DEF Stop, conversation
  <2>4. pc' \in Phase /\ pc' \notin InTry
    BY <2>3 DEF Phase, InTry
  <2> QED
    BY <1>1, <1>2, <2>2, <2>3, <2>4, EmptyKeepsLog
<1> QED
  BY <1>3, <1>4, <1>5, <1>6, <1>7

-----------------------------------------------------------------------------

\* It holds in every reachable state, unless runs stop after the history was cut.
LEMMA LogInvariant == CommandsWait /\ ~StopsWhenCut => (Spec => []LogInv)
<1> SUFFICES ASSUME CommandsWait, ~StopsWhenCut PROVE Spec => []LogInv
  OBVIOUS
<1>1. Init => LogInv
  <2> SUFFICES ASSUME Init PROVE LogInv
    OBVIOUS
  <2>1. history = <<>> /\ file = <<>>
    BY DEF Init
  <2>2. UpTo(history, 0, file) /\ Len(history) = 0
    BY <2>1 DEF UpTo
  <2>3. LogTypes
    <3>1. cut \in BOOLEAN /\ envInjected \in BOOLEAN /\ ltmInjected \in BOOLEAN
      BY DEF Init
    <3>2. pc \in Phase /\ made \in 0..MaxMessages /\ saved \in Nat /\ cursor \in Nat
      BY SessionAssumption DEF Init, Phase, InTry
    <3>3. history \in Seq(Message) /\ file \in Seq(Record)
      BY <2>1
    <3>4. away = <<>>
      BY DEF Init
    <3> QED
      BY <3>1, <3>2, <3>3, <3>4 DEF LogTypes
  <2>4. ~InRun /\ away = <<>>
    BY DEF Init, InRun, InTry
  <2>5. saved = 0 /\ saved <= 0
    BY DEF Init
  <2> QED
    BY <2>2, <2>3, <2>4, <2>5 DEF LogInv
<1>2. LogInv /\ [Next]_vars => LogInv'
  <2> SUFFICES ASSUME LogInv, [Next]_vars PROVE LogInv'
    OBVIOUS
  <2>1. CASE NoCompaction /\ away = <<>>
    BY <2>1 DEF NoCompaction, LogInv, LogTypes, InRun, InTry, Phase, conversation
  <2>2. CASE StopEarly
    BY <2>2 DEF StopEarly, LogInv, LogTypes, InRun, InTry, Phase, conversation
  <2>3. CASE UNCHANGED vars
    BY <2>3 DEF vars, LogInv, LogTypes, InRun, conversation
  <2>4. CASE Prompt \/ Start \/ Crash \/ Exit \/ Resume \/ CompactCommand
             \/ RewindCommand \/ NewCommand
    BY <2>4, PromptKeepsLog, StartKeepsLog, CompactCommandKeepsLog, EndKeepsLog,
       ResumeKeepsLog, RewindKeepsLog
  <2>5. CASE /\ away = <<>>
             /\ Compact \/ Answer \/ CallTools \/ CutOff \/ AddResults \/ EndTurn \/ Stop
    BY <2>5, CompactKeepsLog, ReplyKeepsLog, CutOffKeepsLog, EndTurnKeepsLog, StopKeepsLog
  <2>6. CASE /\ away # <<>>
             /\ \/ Compact \/ NoCompaction \/ Answer \/ CallTools \/ CutOff
                \/ AddResults \/ EndTurn \/ Stop
    BY <2>6, AwayKeepsLog
  <2> QED
    BY <2>1, <2>2, <2>3, <2>4, <2>5, <2>6 DEF Next
<1> QED
  BY <1>1, <1>2, PTL DEF Spec

\* When /compact and /rewind wait for the end of a run, and no run is stopped after
\* its history was cut: between runs everything that the user and the model said
\* is loaded from the file (the finally clause of _send_message and load_messages).
THEOREM SpokenStaysLogged ==
    CommandsWait /\ ~StopsWhenCut => (Spec => []SpokenIsLogged)
<1> SUFFICES ASSUME CommandsWait, ~StopsWhenCut PROVE Spec => []SpokenIsLogged
  OBVIOUS
<1>1. LogInv => SpokenIsLogged
  <2> SUFFICES ASSUME LogInv, pc = "idle", NEW m \in SpokenIn(history)
               PROVE  Logged(m)
    BY DEF SpokenIsLogged
  <2>1. PICK i \in DOMAIN history : m = history[i] /\ m.role \in Spoken
    BY DEF SpokenIn, Range
  <2>2. i <= Len(history)
    BY DEF LogInv, LogTypes
  <2> QED
    BY <2>1, <2>2 DEF LogInv, UpTo, Logged
<1>2. Spec => []LogInv
  BY LogInvariant
<1> QED
  BY <1>1, <1>2, PTL

\* ... and in a run everything before its cursor, so that a crash loses at most what
\* came after it.
THEOREM LoggedBeforeCursor ==
    CommandsWait /\ ~StopsWhenCut => (Spec => []LoggedUpToCursor)
<1> SUFFICES ASSUME CommandsWait, ~StopsWhenCut PROVE Spec => []LoggedUpToCursor
  OBVIOUS
<1>1. LogInv => LoggedUpToCursor
  <2> SUFFICES ASSUME LogInv, InRun, NEW i \in DOMAIN history \cap 1..cursor,
                      history[i].role \in Spoken
               PROVE  Logged(history[i])
    BY DEF LoggedUpToCursor, InRun
  <2>1. away = <<>>
    BY DEF LogInv
  <2>2. i <= cursor
    BY DEF LogInv, LogTypes
  <2> QED
    BY <2>1, <2>2 DEF LogInv, UpTo, Logged
<1>2. Spec => []LogInv
  BY LogInvariant
<1> QED
  BY <1>1, <1>2, PTL

-----------------------------------------------------------------------------
(* The task board.                                                         *)

Task == [made : Nat, status : Statuses]
Entry == [id : Nat, status : Statuses]
TaskMaps(f) == f \in [DOMAIN f -> Task]

\* The empty board is a board.
LEMMA NoTasksTyped == TaskMaps(NoTasks)
<1>1. DOMAIN NoTasks = {}
  BY DEF NoTasks
<1> QED
  BY <1>1 DEF TaskMaps, NoTasks

\* A counter and tasks that hold what was reported: under its id, with the counter
\* past it, so that no later task takes the id.
Holds(reported, next, ts) ==
    \A c \in DOMAIN reported :
        /\ reported[c].id < next
        /\ reported[c].id \in DOMAIN ts /\ ts[reported[c].id].made = c

\* Memory holds it, and so does the file while it can be read: reading the file
\* never takes the counter back before a reported task.
BoardTypes ==
    /\ store \in BOOLEAN /\ creates \in Nat
    /\ nextId \in Nat /\ TaskMaps(tasks)
    /\ disk \in [next : Nat, tasks : {disk.tasks}] /\ TaskMaps(disk.tasks)
    /\ told \in [DOMAIN told -> Entry]
    /\ DOMAIN told \subseteq 1..creates

BoardInv ==
    /\ BoardTypes
    /\ store => Holds(told, nextId, tasks)
    /\ store /\ disk # Torn /\ disk # Absent => Holds(told, disk.next, disk.tasks)

\* What is read from the file, on top of memory, holds what was reported.
LEMMA LoadedHolds ==
    ASSUME BoardInv, store, disk # Torn
    PROVE  LoadedNext \in Nat /\ TaskMaps(LoadedTasks) /\ Holds(told, LoadedNext, LoadedTasks)
<1>1. LoadedNext \in Nat
  BY DEF BoardInv, BoardTypes, LoadedNext
<1>2. TaskMaps(LoadedTasks)
  BY DEF BoardInv, BoardTypes, TaskMaps, LoadedTasks
<1>3. CASE disk = Absent
  <2>1. LoadedNext = nextId /\ \A i \in DOMAIN tasks : i \in DOMAIN LoadedTasks
                                                      /\ LoadedTasks[i] = tasks[i]
    BY <1>3 DEF LoadedNext, LoadedTasks, Absent, NoTasks
  <2> QED
    BY <1>1, <1>2, <2>1 DEF BoardInv, Holds
<1>4. CASE disk # Absent
  <2>1. LoadedNext = disk.next /\ \A i \in DOMAIN disk.tasks :
                                      /\ i \in DOMAIN LoadedTasks
                                      /\ LoadedTasks[i] = disk.tasks[i]
    BY <1>4 DEF LoadedNext, LoadedTasks
  <2> QED
    BY <1>1, <1>2, <1>4, <2>1 DEF BoardInv, Holds
<1> QED
  BY <1>3, <1>4

\* The three outcomes of a save.
LEMMA SavedTypes ==
    ASSUME BoardTypes, NEW next \in Nat, NEW ts, TaskMaps(ts),
           NEW saves \in {"yes", "no", "torn"},
           disk' = CASE saves = "yes" -> Saved(next, ts)
                     [] saves = "no" -> disk
                     [] saves = "torn" -> Torn
    PROVE  disk' \in [next : Nat, tasks : {disk'.tasks}] /\ TaskMaps(disk'.tasks)
<1>1. CASE saves = "yes"
  <2>1. disk' = [next |-> next, tasks |-> ts]
    BY <1>1 DEF Saved, Content
  <2> QED
    BY <2>1
<1>2. CASE saves = "no"
  BY <1>2 DEF BoardTypes
<1>3. CASE saves = "torn"
  <2>1. disk' = [next |-> 0, tasks |-> NoTasks]
    BY <1>3 DEF Torn
  <2> QED
    BY <2>1, NoTasksTyped
<1> QED
  BY <1>1, <1>2, <1>3

\* A save that succeeds leaves what it wrote, and one that fails nothing new.
LEMMA SavedHolds ==
    ASSUME NEW next, NEW ts, NEW saves \in {"yes", "no", "torn"},
           disk' = CASE saves = "yes" -> Saved(next, ts)
                     [] saves = "no" -> disk
                     [] saves = "torn" -> Torn,
           NEW reported, Holds(reported, next, ts),
           saves = "no" /\ disk # Torn /\ disk # Absent
               => Holds(reported, disk.next, disk.tasks),
           disk' # Torn, disk' # Absent
    PROVE  Holds(reported, disk'.next, disk'.tasks)
<1>1. CASE saves = "yes"
  <2>1. disk'.next = next /\ disk'.tasks = ts
    BY <1>1 DEF Saved, Content
  <2> QED
    BY <2>1
<1>2. CASE saves = "no"
  BY <1>2
<1>3. CASE saves = "torn"
  BY <1>3
<1> QED
  BY <1>1, <1>2, <1>3

\* TaskCreate: the new task is reported only if it was saved.
LEMMA CreateStep ==
    ASSUME BoardInv, NEW saves \in {"yes", "no", "torn"}, Create(saves)
    PROVE  BoardInv'
<1> DEFINE task == [made |-> creates + 1, status |-> "pending"]
           ts == Put(tasks, nextId, task)
           entry == [id |-> nextId, status |-> "pending"]
<1>1. /\ store' = store /\ store
      /\ creates' = creates + 1 /\ tasks' = ts /\ nextId' = nextId + 1
      /\ disk' = CASE saves = "yes" -> Saved(nextId + 1, ts)
                   [] saves = "no" -> disk
                   [] saves = "torn" -> Torn
      /\ told' = IF saves = "yes" THEN Put(told, creates + 1, entry) ELSE told
  BY DEF Create
<1>2. TaskMaps(ts)
  <2>1. task \in Task
    BY DEF BoardInv, BoardTypes, Statuses, Task, Entry
  <2>2. tasks \in [DOMAIN tasks -> Task]
    BY DEF BoardInv, BoardTypes, TaskMaps
  <2> HIDE DEF task
  <2>3. /\ ts \in [DOMAIN tasks \cup {nextId} -> Task]
        /\ DOMAIN ts = DOMAIN tasks \cup {nextId}
    BY <2>1, <2>2 DEF Put
  <2> QED
    BY <2>3 DEF TaskMaps
<1>3. /\ nextId \in DOMAIN ts /\ ts[nextId] = task
      /\ \A i \in DOMAIN tasks : i # nextId => i \in DOMAIN ts /\ ts[i] = tasks[i]
  BY DEF Put
<1>4. told' \in [DOMAIN told' -> Entry]
  <2>1. entry \in Entry
    BY DEF BoardInv, BoardTypes, Statuses, Task, Entry
  <2> HIDE DEF entry
  <2>2. CASE saves = "yes"
    <3>1. told \in [DOMAIN told -> Entry]
      BY DEF BoardInv, BoardTypes
    <3>2. /\ Put(told, creates + 1, entry)
                \in [DOMAIN told \cup {creates + 1} -> Entry]
          /\ DOMAIN Put(told, creates + 1, entry) = DOMAIN told \cup {creates + 1}
      BY <3>1, <2>1 DEF Put
    <3> QED
      BY <3>2, <2>2, <1>1
  <2>3. CASE saves # "yes"
    BY <2>3, <1>1 DEF BoardInv, BoardTypes
  <2> QED
    BY <2>2, <2>3
<1>5. DOMAIN told' \subseteq 1..creates'
  BY <1>1 DEF BoardInv, BoardTypes, Put
<1>6. Holds(told', nextId + 1, ts)
  <2>1. ASSUME NEW c \in DOMAIN told
        PROVE  /\ told[c].id < nextId + 1 /\ told[c].id \in DOMAIN ts
               /\ ts[told[c].id].made = c
    <3>1. /\ told[c].id < nextId /\ told[c].id \in Nat
          /\ told[c].id \in DOMAIN tasks /\ tasks[told[c].id].made = c
      BY <1>1 DEF BoardInv, BoardTypes, Holds, Entry
    <3> HIDE DEF ts
    <3> QED
      BY <3>1, <1>3 DEF BoardInv, BoardTypes, Task, Entry
  <2>2. CASE saves = "yes"
    <3>1. \A c \in DOMAIN told' : \/ c \in DOMAIN told /\ told'[c] = told[c]
                                  \/ c = creates + 1 /\ told'[c] = entry
      BY <1>1, <2>2 DEF Put
    <3> HIDE DEF ts
    <3> QED
      BY <2>1, <3>1, <1>3 DEF Holds, BoardInv, BoardTypes
  <2>3. CASE saves # "yes"
    BY <2>1, <2>3, <1>1 DEF Holds
  <2> QED
    BY <2>2, <2>3
<1>7. nextId + 1 \in Nat /\ creates + 1 \in Nat
  BY DEF BoardInv, BoardTypes
<1>8. BoardTypes'
  <2> HIDE DEF ts
  <2>1. disk' \in [next : Nat, tasks : {disk'.tasks}] /\ TaskMaps(disk'.tasks)
    BY <1>1, <1>2, <1>7, SavedTypes DEF BoardInv
  <2> QED
    BY <2>1, <1>1, <1>2, <1>4, <1>5, <1>7 DEF BoardInv, BoardTypes
<1>9. saves = "no" => told' = told
  BY <1>1
<1> HIDE DEF ts
<1>10. disk' # Torn /\ disk' # Absent => Holds(told', disk'.next, disk'.tasks)
  BY <1>1, <1>6, <1>9, SavedHolds DEF BoardInv
<1> QED
  BY <1>1, <1>6, <1>8, <1>10 DEF BoardInv

\* TaskUpdate: the status of a task changes, and the task stays the same.
LEMMA UpdateStep ==
    ASSUME BoardInv, NEW saves \in {"yes", "no", "torn"}, NEW id, NEW status \in Statuses,
           Update(id, status, saves)
    PROVE  BoardInv'
<1> DEFINE ts == [LoadedTasks EXCEPT ![id].status = status]
           call == LoadedTasks[id].made
<1>1. /\ store' = store /\ store /\ disk # Torn /\ id \in DOMAIN LoadedTasks
      /\ creates' = creates /\ tasks' = ts /\ nextId' = LoadedNext
      /\ disk' = CASE saves = "yes" -> Saved(LoadedNext, ts)
                   [] saves = "no" -> disk
                   [] saves = "torn" -> Torn
      /\ told' = IF saves = "yes" /\ call \in DOMAIN told
                 THEN [told EXCEPT ![call].status = status] ELSE told
  BY DEF Update
<1>2. LoadedNext \in Nat /\ TaskMaps(LoadedTasks) /\ Holds(told, LoadedNext, LoadedTasks)
  BY <1>1, LoadedHolds
<1>3. /\ TaskMaps(ts) /\ DOMAIN ts = DOMAIN LoadedTasks
      /\ \A i \in DOMAIN LoadedTasks : ts[i].made = LoadedTasks[i].made
  <2>1. ts = [LoadedTasks EXCEPT ![id] = [LoadedTasks[id] EXCEPT !.status = status]]
    OBVIOUS
  <2>2. [LoadedTasks[id] EXCEPT !.status = status]
            = [made |-> LoadedTasks[id].made, status |-> status]
    BY <1>1, <1>2 DEF TaskMaps, Task
  <2> QED
    BY <2>1, <2>2, <1>1, <1>2 DEF TaskMaps, Task
<1>4. /\ DOMAIN told' = DOMAIN told
      /\ told' \in [DOMAIN told -> Entry]
      /\ \A c \in DOMAIN told : told'[c].id = told[c].id
  <2>1. CASE told' = told
    BY <2>1 DEF BoardInv, BoardTypes
  <2>2. CASE call \in DOMAIN told /\ told' = [told EXCEPT ![call].status = status]
    <3>1. told' = [told EXCEPT ![call] = [told[call] EXCEPT !.status = status]]
      BY <2>2
    <3>2. [told[call] EXCEPT !.status = status] = [id |-> told[call].id, status |-> status]
      BY <2>2 DEF BoardInv, BoardTypes, Entry
    <3> HIDE DEF call
    <3> QED
      BY <2>2, <3>1, <3>2 DEF BoardInv, BoardTypes, Entry
  <2> QED
    BY <2>1, <2>2, <1>1
<1> HIDE DEF ts, call
<1>5. Holds(told', LoadedNext, ts)
  BY <1>2, <1>3, <1>4 DEF Holds
<1>6. BoardTypes'
  <2>1. disk' \in [next : Nat, tasks : {disk'.tasks}] /\ TaskMaps(disk'.tasks)
    BY <1>1, <1>2, <1>3, SavedTypes DEF BoardInv
  <2> QED
    BY <2>1, <1>1, <1>2, <1>3, <1>4 DEF BoardInv, BoardTypes
<1>7. disk # Absent => Holds(told', disk.next, disk.tasks)
  BY <1>1, <1>4 DEF BoardInv, Holds
<1>8. disk' # Torn /\ disk' # Absent => Holds(told', disk'.next, disk'.tasks)
  BY <1>1, <1>5, <1>7, SavedHolds
<1> QED
  BY <1>1, <1>5, <1>6, <1>8 DEF BoardInv

\* Every step keeps what was reported in memory and in the file.
LEMMA BoardStep ==
    ASSUME BoardInv, [SharedNext]_sharedVars
    PROVE  BoardInv'
<1>1. ASSUME NEW s \in {"yes", "no", "torn"}, Create(s)
      PROVE  BoardInv'
  BY <1>1, CreateStep
<1>2. ASSUME NEW s \in {"yes", "no", "torn"}, NEW id \in 1..MaxCreates,
             NEW st \in {"pending", "completed"}, Update(id, st, s)
      PROVE  BoardInv'
  <2>1. st \in Statuses
    BY DEF Statuses
  <2> HIDE DEF BoardInv
  <2> QED
    BY <1>2, <2>1, UpdateStep
<1>3. CASE Look
  <2>1. LoadedNext \in Nat /\ TaskMaps(LoadedTasks) /\ Holds(told, LoadedNext, LoadedTasks)
    BY <1>3, LoadedHolds DEF Look
  <2> QED
    BY <1>3, <2>1 DEF Look, BoardInv, BoardTypes
<1>4. CASE Drop
  <2>1. disk' \in [next : Nat, tasks : {disk'.tasks}] /\ TaskMaps(disk'.tasks)
    <3>1. disk' = [next |-> 1, tasks |-> NoTasks]
      BY <1>4 DEF Drop, Absent
    <3> QED
      BY <3>1, NoTasksTyped
  <2> QED
    BY <1>4, <2>1 DEF Drop, BoardInv, BoardTypes
<1>5. CASE UNCHANGED sharedVars
  BY <1>5 DEF sharedVars, BoardInv, BoardTypes
<1> QED
  BY <1>1, <1>2, <1>3, <1>4, <1>5 DEF SharedNext

\* Whatever writes fail or leave the file torn, a reported task is on the board
\* under the reported id (shared_task.py).
THEOREM ReportedTasksStay == SharedSpec => []ReportedStay
<1>1. SharedInit => BoardInv
  <2> SUFFICES ASSUME SharedInit
               PROVE  BoardInv
    OBVIOUS
  <2>1. DOMAIN told = {} /\ told \in [DOMAIN told -> Entry]
    BY DEF SharedInit, NoTasks
  <2>2. disk = [next |-> 1, tasks |-> NoTasks]
    BY DEF SharedInit, Absent
  <2> QED
    BY <2>1, <2>2, NoTasksTyped DEF SharedInit, BoardInv, BoardTypes, Holds
<1>2. BoardInv /\ [SharedNext]_sharedVars => BoardInv'
  BY BoardStep
<1>3. BoardInv => ReportedStay
  BY LoadedHolds DEF BoardInv, ReportedStay, Board, Holds
<1> QED
  BY <1>1, <1>2, <1>3, PTL DEF SharedSpec

-----------------------------------------------------------------------------
(* Runs from the command line.                                             *)

Outcomes == {"none", "completed", "error"}

\* What a trace is made of.
TraceLine == {[type |-> "run_start"]} \cup {H!ModelTurn(n, final) : n \in Nat, final \in BOOLEAN}
                 \cup {H!ToolCall(n) : n \in Nat} \cup {H!RunEnd(status) : status \in Outcomes}

\* The trace of a run that goes on, after n turns.
Traced(trace, n) ==
    /\ trace \in Seq(TraceLine)
    /\ \A i \in DOMAIN trace : /\ trace[i].type # "run_end"
                               /\ trace[i].type = "model_turn" => trace[i].turn \in 1..n
    /\ n > 0 => \E i \in DOMAIN trace : trace[i].type = "model_turn" /\ trace[i].turn = n

Replays(trace, n) == H!Replay(trace) = [status |-> "completed", turns |-> n]

\* The lines are told apart by their type.
LEMMA TraceLines ==
    /\ [type |-> "run_start"] \in TraceLine /\ [type |-> "run_start"].type = "run_start"
    /\ \A n \in Nat, final \in BOOLEAN :
          /\ H!ModelTurn(n, final) \in TraceLine /\ H!ModelTurn(n, final).type = "model_turn"
          /\ H!ModelTurn(n, final).turn = n
    /\ \A n \in Nat : H!ToolCall(n) \in TraceLine /\ H!ToolCall(n).type = "tool_call"
    /\ \A s \in Outcomes : /\ H!RunEnd(s) \in TraceLine /\ H!RunEnd(s).type = "run_end"
                           /\ H!RunEnd(s).status = s
<1>1. /\ \A n, final : H!ModelTurn(n, final).type = "model_turn" /\ H!ModelTurn(n, final).turn = n
      /\ \A n : H!ToolCall(n).type = "tool_call"
      /\ \A s : H!RunEnd(s).type = "run_end" /\ H!RunEnd(s).status = s
      /\ [type |-> "run_start"].type = "run_start"
  BY DEF H!ModelTurn, H!ToolCall, H!RunEnd
<1> QED
  BY <1>1 DEF TraceLine

\* A run starts with an empty trace but for its start.
LEMMA StartLogs == Traced(<<[type |-> "run_start"]>>, 0)
<1> DEFINE start == [type |-> "run_start"]
<1>1. start \in TraceLine /\ start.type = "run_start"
  BY TraceLines
<1> HIDE DEF start
<1>2. <<start>> \in Seq(TraceLine) /\ DOMAIN <<start>> = 1..1 /\ <<start>>[1] = start
  BY <1>1
<1>3. Traced(<<start>>, 0)
  BY <1>1, <1>2 DEF Traced
<1> QED
  BY <1>3 DEF start

\* A turn leaves its number.
LEMMA TurnLogs ==
    ASSUME NEW n \in Nat, NEW trace, Traced(trace, n), NEW final \in BOOLEAN
    PROVE  Traced(trace \o H!TurnTrace(n + 1, final), n + 1)
<1> DEFINE a == H!ModelTurn(n + 1, final)
           b == H!ToolCall(n + 1)
           t == H!TurnTrace(n + 1, final)
<1>1. /\ a \in TraceLine /\ a.type = "model_turn" /\ a.turn = n + 1
      /\ b \in TraceLine /\ b.type = "tool_call"
  BY TraceLines
<1>2. t = IF final THEN <<a>> ELSE <<a, b>>
  BY DEF H!TurnTrace
<1> HIDE DEF a, b, t
<1>3. t \in Seq(TraceLine) /\ Len(t) \in Nat /\ Len(t) >= 1 /\ t[1] = a
      /\ \A i \in 1..Len(t) : t[i] \in {a, b}
  <2>1. CASE final
    BY <1>1, <1>2, <2>1
  <2>2. CASE ~final
    BY <1>1, <1>2, <2>2
  <2> QED
    BY <2>1, <2>2
<1>4. trace \in Seq(TraceLine) /\ Len(trace) \in Nat /\ DOMAIN trace = 1..Len(trace)
  BY LenProperties DEF Traced
<1> DEFINE new == trace \o t
<1>5. /\ new \in Seq(TraceLine) /\ Len(new) = Len(trace) + Len(t) /\ DOMAIN new = 1..Len(new)
      /\ \A i \in 1..Len(new) : new[i] = IF i <= Len(trace) THEN trace[i] ELSE t[i - Len(trace)]
  BY <1>3, <1>4, ConcatProperties
<1> HIDE DEF new
<1>6. ASSUME NEW i \in 1..Len(new)
      PROVE  new[i].type # "run_end" /\ (new[i].type = "model_turn" => new[i].turn \in 1..(n + 1))
  <2>1. CASE i <= Len(trace)
    <3>1. i \in DOMAIN trace /\ new[i] = trace[i]
      BY <1>3, <1>4, <1>5, <1>6, <2>1
    <3> QED
      BY <3>1 DEF Traced
  <2>2. CASE i > Len(trace)
    <3>1. i - Len(trace) \in 1..Len(t) /\ new[i] = t[i - Len(trace)]
      BY <1>3, <1>4, <1>5, <1>6, <2>2
    <3>2. new[i] \in {a, b}
      BY <1>3, <3>1
    <3> QED
      BY <1>1, <3>2
  <2> QED
    BY <1>3, <1>4, <1>5, <1>6, <2>1, <2>2
<1>7. Len(trace) + 1 \in DOMAIN new /\ new[Len(trace) + 1] = a
  BY <1>3, <1>4, <1>5
<1>8. Traced(new, n + 1)
  BY <1>1, <1>5, <1>6, <1>7 DEF Traced
<1> QED
  BY <1>8 DEF new, t

\* A run that ends as completed replays as that, with the turns it took.
LEMMA FinishReplays ==
    ASSUME NEW n \in Nat \ {0}, NEW trace, Traced(trace, n)
    PROVE  Replays(Append(trace, H!RunEnd("completed")), n)
<1> DEFINE end == H!RunEnd("completed")
           new == Append(trace, end)
<1>1. end \in TraceLine /\ end.type = "run_end" /\ end.status = "completed"
  BY TraceLines DEF Outcomes
<1>2. trace \in Seq(TraceLine) /\ Len(trace) \in Nat /\ DOMAIN trace = 1..Len(trace)
  BY LenProperties DEF Traced
<1> HIDE DEF end
<1>3. /\ DOMAIN new = 1..(Len(trace) + 1) /\ new[Len(trace) + 1] = end
      /\ \A i \in 1..Len(trace) : new[i] = trace[i]
  BY <1>1, <1>2, AppendProperties
<1> HIDE DEF new
<1> DEFINE ends == {i \in DOMAIN new : new[i].type = "run_end"}
           asked == {j \in DOMAIN new : new[j].type = "model_turn"}
           turns == {new[i].turn : i \in asked}
<1>4. ends = {Len(trace) + 1}
  <2>1. \A i \in DOMAIN new : i = Len(trace) + 1 \/ i \in DOMAIN trace
    BY <1>2, <1>3
  <2>2. \A i \in DOMAIN trace : new[i].type # "run_end"
    BY <1>2, <1>3 DEF Traced
  <2>3. Len(trace) + 1 \in DOMAIN new /\ new[Len(trace) + 1].type = "run_end"
    BY <1>1, <1>2, <1>3
  <2> QED
    BY <2>1, <2>2, <2>3
<1>5. n \in turns /\ turns \subseteq 1..n
  <2>1. \A i \in asked : i \in DOMAIN trace /\ new[i] = trace[i]
    BY <1>1, <1>2, <1>3
  <2>2. turns \subseteq 1..n
    BY <2>1 DEF Traced
  <2>3. PICK i \in DOMAIN trace : trace[i].type = "model_turn" /\ trace[i].turn = n
    BY DEF Traced
  <2>4. i \in asked /\ new[i].turn = n
    BY <1>2, <1>3, <2>3
  <2> QED
    BY <2>2, <2>4
<1>6. new[CHOOSE i \in ends : TRUE].status = "completed" /\ ends # {}
  BY <1>1, <1>3, <1>4
<1>7. turns # {} /\ (CHOOSE m \in turns : \A k \in turns : k <= m) = n
  <2> HIDE DEF turns
  <2>1. \A k \in turns : k \in Int /\ k <= n
    BY <1>5
  <2>2. \A m \in turns : (\A k \in turns : k <= m) => m = n
    BY <1>5, <2>1
  <2> QED
    BY <1>5, <2>1, <2>2
<1>8. H!Replay(new) = [status |-> "completed", turns |-> n]
  BY <1>6, <1>7 DEF H!Replay
<1> QED
  BY <1>8 DEF Replays, new, end

\* Compacting what was compacted cuts further in the history.
LEMMA CompactedTwice ==
    ASSUME NEW h \in Seq(H!Message), NEW c \in H!Cuts(h), NEW d \in H!Cuts(H!Compacted(h, c))
    PROVE  /\ H!Compacted(h, c) \in Seq(H!Message)
           /\ c + d - 1 \in H!Cuts(h)
           /\ H!Compacted(H!Compacted(h, c), d) = H!Compacted(h, c + d - 1)
<1> DEFINE user == <<H!Text("user")>>
           rest == SubSeq(h, c + 1, Len(h))
           g == user \o rest
<1>1. user \in Seq(H!Message) /\ Len(user) = 1
  BY DEF H!Text, H!Message, H!Role
<1>2. Len(h) \in Nat /\ KeepRecent \in Nat /\ c \in 1..(Len(h) - KeepRecent)
  BY HeadlessAssumption, LenProperties DEF H!Cuts
<1>3. rest \in Seq(H!Message) /\ Len(rest) = Len(h) - c
      /\ \A i \in 1..(Len(h) - c) : rest[i] = h[c + i]
  BY <1>2, SubSeqProperties
<1> HIDE DEF rest, user
<1>4. g \in Seq(H!Message) /\ Len(g) = 1 + (Len(h) - c)
      /\ \A i \in 2..(1 + (Len(h) - c)) : g[i] = rest[i - 1]
  <2>1. g \in Seq(H!Message) /\ Len(g) = Len(user) + Len(rest)
        /\ \A i \in 1..(Len(user) + Len(rest)) : g[i] = IF i <= Len(user) THEN user[i] ELSE rest[i - Len(user)]
    BY <1>1, <1>3, ConcatProperties
  <2> QED
    BY <1>1, <1>2, <1>3, <2>1
<1>5. H!Compacted(h, c) = g
  BY DEF H!Compacted, rest, user
<1> HIDE DEF g
<1>6. d \in 1..(Len(g) - KeepRecent)
  BY <1>5 DEF H!Cuts
<1>7. c + d - 1 \in 1..(Len(h) - KeepRecent)
  BY <1>2, <1>4, <1>6
<1> DEFINE a == SubSeq(g, d + 1, Len(g))
           b == SubSeq(h, (c + d - 1) + 1, Len(h))
<1>8. a \in Seq(H!Message) /\ Len(a) = Len(g) - d /\ \A i \in 1..(Len(g) - d) : a[i] = g[d + i]
  BY <1>2, <1>4, <1>6, SubSeqProperties
<1>9. b \in Seq(H!Message) /\ Len(b) = Len(h) - (c + d - 1)
      /\ \A i \in 1..(Len(h) - (c + d - 1)) : b[i] = h[(c + d - 1) + i]
  BY <1>2, <1>7, SubSeqProperties
<1> HIDE DEF a, b
<1>10. a = b
  <2>1. Len(a) = Len(b) /\ Len(a) \in Nat
    BY <1>2, <1>4, <1>6, <1>8, <1>9
  <2>2. ASSUME NEW i \in 1..Len(a) PROVE a[i] = b[i]
    <3>1. a[i] = g[d + i] /\ d + i \in 2..(1 + (Len(h) - c))
      BY <1>2, <1>4, <1>6, <1>8, <2>1, <2>2
    <3>2. g[d + i] = rest[(d + i) - 1] /\ (d + i) - 1 \in 1..(Len(h) - c)
      BY <1>2, <1>4, <1>6, <3>1
    <3>3. rest[(d + i) - 1] = h[c + ((d + i) - 1)]
      BY <1>3, <3>2
    <3>4. b[i] = h[(c + d - 1) + i] /\ c + ((d + i) - 1) = (c + d - 1) + i
      BY <1>2, <1>6, <1>9, <2>1, <2>2
    <3> QED
      BY <3>1, <3>2, <3>3, <3>4
  <2> QED
    BY <1>8, <1>9, <2>1, <2>2, SeqEqual
<1> QED
  BY <1>4, <1>5, <1>7, <1>10 DEF H!Compacted, H!Cuts, a, b

Run == [pc : {"idle", "loop", "finish", "record", "filling", "index", "compact", "replacing"},
        run : 0..MaxRuns, records : BOOLEAN, history : Seq(H!Message), status : Outcomes,
        turns : Nat]
Active == {"loop", "finish", "record", "filling", "index"}
IndexLine == [run : H!RunId, status : Outcomes, turns : Nat, transcript : BOOLEAN]

HeadlessTypes ==
    /\ runs \in 0..MaxRuns
    /\ index \in Seq(IndexLine)
    /\ transcripts \in [H!RunId -> Seq(H!Message) \cup {H!Torn}]
    /\ traces \in [H!RunId -> Seq(TraceLine)]
    /\ ended \in [H!RunId -> Seq(H!Message)]
    /\ procs \in [Process -> Run]

\* A transcript that is no older than what it is a compaction of.
Resumable(transcript, talk) ==
    transcript = talk \/ \E c1 \in H!Cuts(talk) : transcript = H!Compacted(talk, c1)

\* How far a run has come, and what its files hold by then.
RunSound(me, transcript, trace, talk) ==
    /\ me.pc \in {"loop", "finish"} => Traced(trace, me.turns)
    /\ me.pc = "finish" => me.turns > 0
    /\ me.pc \in {"record", "filling", "index"} =>
          /\ talk = me.history
          /\ me.status = "completed" => Replays(trace, me.turns)
    /\ me.pc \in {"filling", "index"} => me.history # <<>>
    /\ me.pc = "index" => transcript = me.history

\* A run has its number, and so its files, for itself until its line is in the index.
RunsApart ==
    /\ \A r \in H!RunId : r > runs => ended[r] = <<>>
    /\ \A e \in H!Entries : e.run \in 1..runs
    /\ \A p \in Process : procs[p].pc \in Active =>
          /\ procs[p].run \in 1..runs
          /\ \A e \in H!Entries : e.run # procs[p].run
          /\ \A q \in Process \ {p} : procs[q].pc \in Active => procs[q].run # procs[p].run

RunsSound ==
    \A p \in Process : procs[p].pc \in Active =>
        RunSound(procs[p], transcripts[procs[p].run], traces[procs[p].run], ended[procs[p].run])

\* What has a line can be replayed and resumed; a transcript is torn only while it is
\* replaced by a compaction of what the run ended with, or if that was killed.
LinesSound ==
    /\ \A e \in H!Entries :
          /\ e.status = "completed" => Replays(traces[e.run], e.turns)
          /\ e.transcript =>
                \/ Resumable(transcripts[e.run], ended[e.run])
                \/ /\ transcripts[e.run] = H!Torn
                   /\ \/ CompactDies
                      \/ \E p \in Process : procs[p].run = e.run /\ procs[p].pc = "replacing"
    /\ \A p \in Process : procs[p].pc \in {"compact", "replacing"} =>
          /\ \E e \in H!Entries : e.run = procs[p].run
          /\ Resumable(procs[p].history, ended[procs[p].run])

HeadlessInv == HeadlessTypes /\ RunsApart /\ RunsSound /\ LinesSound

\* The lines of the index are lines.
LEMMA EntriesTyped ==
    ASSUME HeadlessTypes
    PROVE  H!Entries \subseteq IndexLine
<1>1. \A i \in DOMAIN index : index[i] \in IndexLine
  BY DEF HeadlessTypes
<1> QED
  BY <1>1 DEF H!Entries

\* A run that touches nothing but its own files disturbs no other and no line.
LEMMA OwnFiles ==
    ASSUME HeadlessInv, HeadlessTypes', NEW p \in Process, NEW me \in Run,
           procs' = [procs EXCEPT ![p] = me], UNCHANGED index,
           runs' \in {runs, runs + 1}, \A r \in H!RunId : r > runs' => ended'[r] = <<>>,
           procs[p].pc # "replacing" \/ CompactDies, me.pc \in Active \cup {"idle"},
           \A r \in H!RunId :
              \/ transcripts'[r] = transcripts[r] /\ traces'[r] = traces[r] /\ ended'[r] = ended[r]
              \/ r = runs + 1 \/ (procs[p].pc \in Active /\ r = procs[p].run),
           me.pc \in Active =>
              /\ \/ me.run = runs + 1 /\ runs' = runs + 1
                 \/ procs[p].pc \in Active /\ me.run = procs[p].run
              /\ RunSound(me, transcripts'[me.run], traces'[me.run], ended'[me.run])
    PROVE  HeadlessInv'
<1>1. /\ runs \in Nat /\ runs' \in Nat /\ runs <= runs' /\ H!Entries' = H!Entries
      /\ \A q \in Process : procs'[q] = IF q = p THEN me ELSE procs[q]
      /\ \A e \in H!Entries : e.run \in H!RunId /\ e.run \in 1..runs
      /\ MaxRuns \in Nat /\ runs' <= MaxRuns
  <2>1. \A e \in H!Entries : e.run \in H!RunId
    BY EntriesTyped DEF HeadlessInv, IndexLine
  <2>2. runs \in Nat /\ runs' \in Nat /\ MaxRuns \in Nat /\ runs' <= MaxRuns
    BY HeadlessAssumption DEF HeadlessInv, HeadlessTypes
  <2>3. H!Entries' = H!Entries
    BY DEF H!Entries
  <2>4. \A q \in Process : procs'[q] = IF q = p THEN me ELSE procs[q]
    BY DEF HeadlessInv, HeadlessTypes
  <2> QED
    BY <2>1, <2>2, <2>3, <2>4 DEF HeadlessInv, RunsApart
<1>2. ASSUME NEW r \in 1..runs, ~(procs[p].pc \in Active /\ r = procs[p].run)
      PROVE  r \in H!RunId /\ transcripts'[r] = transcripts[r] /\ traces'[r] = traces[r]
             /\ ended'[r] = ended[r]
  BY <1>1, <1>2 DEF H!RunId
<1>3. \A e \in H!Entries : /\ transcripts'[e.run] = transcripts[e.run] /\ traces'[e.run] = traces[e.run]
                           /\ ended'[e.run] = ended[e.run]
  BY <1>1, <1>2 DEF HeadlessInv, RunsApart
<1>4. ASSUME NEW q \in Process \ {p}, procs[q].pc \in Active
      PROVE  /\ procs'[q] = procs[q] /\ procs[q].run \in 1..runs
             /\ transcripts'[procs[q].run] = transcripts[procs[q].run]
             /\ traces'[procs[q].run] = traces[procs[q].run]
             /\ ended'[procs[q].run] = ended[procs[q].run]
  BY <1>1, <1>2, <1>4 DEF HeadlessInv, RunsApart
<1>5. RunsApart'
  <2>1. \A e \in H!Entries' : e.run \in 1..runs'
    BY <1>1
  <2>2. ASSUME me.pc \in Active
        PROVE  /\ me.run \in 1..runs' /\ \A e \in H!Entries : e.run # me.run
               /\ \A q \in Process \ {p} : procs[q].pc \in Active => procs[q].run # me.run
    <3>1. CASE me.run = runs + 1 /\ runs' = runs + 1
      BY <1>1, <1>4, <3>1
    <3>2. CASE procs[p].pc \in Active /\ me.run = procs[p].run
      BY <1>1, <3>2 DEF HeadlessInv, RunsApart
    <3> QED
      BY <2>2, <3>1, <3>2
  <2>3. ASSUME NEW q \in Process \ {p}, procs[q].pc \in Active
        PROVE  /\ procs[q].run \in 1..runs' /\ \A e \in H!Entries : e.run # procs[q].run
               /\ \A s \in Process \ {p, q} : procs[s].pc \in Active => procs[s].run # procs[q].run
    BY <1>1, <2>3 DEF HeadlessInv, RunsApart
  <2> QED
    BY <1>1, <2>1, <2>2, <2>3 DEF RunsApart
<1>6. RunsSound'
  <2>1. me.pc \in Active => RunSound(me, transcripts'[me.run], traces'[me.run], ended'[me.run])
    OBVIOUS
  <2>2. ASSUME NEW q \in Process \ {p}, procs[q].pc \in Active
        PROVE  RunSound(procs[q], transcripts'[procs[q].run], traces'[procs[q].run], ended'[procs[q].run])
    BY <1>4, <2>2 DEF HeadlessInv, RunsSound
  <2> HIDE DEF RunSound
  <2> QED
    BY <1>1, <2>1, <2>2 DEF RunsSound
<1>7. LinesSound'
  <2>2. CompactDies \/ \A q \in Process : procs[q].pc = "replacing" => procs'[q] = procs[q]
    BY <1>1
  <2>3. ASSUME NEW q \in Process, procs'[q].pc \in {"compact", "replacing"}
        PROVE  /\ \E e \in H!Entries : e.run = procs'[q].run
               /\ Resumable(procs'[q].history, ended'[procs'[q].run])
    <3>1. procs'[q] = procs[q]
      BY <1>1, <2>3 DEF Active
    <3>2. PICK e \in H!Entries : e.run = procs[q].run
      BY <2>3, <3>1 DEF HeadlessInv, LinesSound
    <3>3. Resumable(procs[q].history, ended[procs[q].run])
      BY <2>3, <3>1 DEF HeadlessInv, LinesSound
    <3> QED
      BY <1>3, <3>1, <3>2, <3>3
  <2>4. ASSUME NEW e \in H!Entries
        PROVE  /\ e.status = "completed" => Replays(traces'[e.run], e.turns)
               /\ e.transcript =>
                     \/ Resumable(transcripts'[e.run], ended'[e.run])
                     \/ /\ transcripts'[e.run] = H!Torn
                        /\ \/ CompactDies
                           \/ \E q \in Process : procs'[q].run = e.run /\ procs'[q].pc = "replacing"
    BY <1>3, <2>2 DEF HeadlessInv, LinesSound
  <2> QED
    BY <1>1, <2>3, <2>4 DEF LinesSound
<1> QED
  BY <1>5, <1>6, <1>7 DEF HeadlessInv

\* What the messages of a run are made of.
LEMMA HeadlessMessages ==
    /\ \A role \in {"env", "user", "assistant"} : H!Text(role) \in H!Message
    /\ \A ids \in SUBSET CallId : H!CallMsg(ids) \in H!Message /\ H!ResultsMsg(ids) \in H!Message
  BY DEF H!Text, H!CallMsg, H!ResultsMsg, H!Message, H!Role

\* A run starts under a new number, from what an earlier one left or from nothing.
LEMMA StartRunKeeps ==
    ASSUME HeadlessInv, NEW p \in Process, NEW command \in Command, NEW i \in H!Previous,
           H!StartRun(p, command, i)
    PROVE  HeadlessInv'
<1> DEFINE r == runs + 1
           restored == H!Restored(i)
           talk == (IF restored = <<>> THEN <<H!Text("env")>> ELSE restored) \o <<H!Text("user")>>
           recorded == command = "run"
           started == [pc |-> "loop", run |-> r, records |-> recorded, history |-> talk,
                       status |-> "none", turns |-> 0]
           failed == [started EXCEPT !.pc = "record", !.status = "error", !.history = <<>>]
           start == <<[type |-> "run_start"]>>
<1>0. HeadlessTypes
  BY DEF HeadlessInv
<1>1. /\ procs[p].pc = "idle" /\ runs < MaxRuns /\ restored # H!Torn /\ runs' = r
      /\ UNCHANGED <<index, transcripts, ended>>
      /\ \/ procs' = [procs EXCEPT ![p] = started] /\ traces' = [traces EXCEPT ![r] = start]
         \/ procs' = [procs EXCEPT ![p] = failed] /\ traces' = traces
  BY DEF H!StartRun
<1>2. r \in H!RunId /\ r \in 0..MaxRuns /\ runs \in Nat
  BY <1>0, <1>1, HeadlessAssumption DEF HeadlessTypes, H!RunId
<1>3. restored \in Seq(H!Message)
  <2>1. CASE i = 0 \/ ~index[i].transcript
    BY <2>1 DEF H!Restored
  <2>2. CASE ~(i = 0 \/ ~index[i].transcript)
    <3>1. i \in DOMAIN index
      BY <2>2 DEF H!Previous
    <3>2. index[i] \in IndexLine
      BY <1>0, <3>1 DEF HeadlessTypes
    <3>3. index[i].run \in H!RunId
      BY <3>2 DEF IndexLine
    <3>4. restored = transcripts[index[i].run]
      BY <2>2 DEF H!Restored
    <3>5. transcripts[index[i].run] \in Seq(H!Message) \cup {H!Torn}
      BY <1>0, <3>3 DEF HeadlessTypes
    <3> QED
      BY <1>1, <3>4, <3>5
  <2> QED
    BY <2>1, <2>2
<1>4. talk \in Seq(H!Message)
  <2>1. <<H!Text("env")>> \in Seq(H!Message) /\ <<H!Text("user")>> \in Seq(H!Message)
    BY HeadlessMessages
  <2>2. (IF restored = <<>> THEN <<H!Text("env")>> ELSE restored) \in Seq(H!Message)
    BY <1>3, <2>1
  <2> QED
    BY <2>1, <2>2, ConcatProperties
<1> HIDE DEF restored, talk
<1>5. /\ started \in Run /\ started.pc = "loop" /\ started.run = r /\ started.turns = 0
      /\ failed \in Run /\ failed.pc = "record" /\ failed.run = r /\ failed.status = "error"
      /\ failed.history = <<>>
  <2>1. recorded \in BOOLEAN /\ <<>> \in Seq(H!Message)
    OBVIOUS
  <2> HIDE DEF recorded
  <2>2. started \in Run /\ started.pc = "loop" /\ started.run = r /\ started.turns = 0
    BY <1>2, <1>4, <2>1 DEF Run, Outcomes
  <2> HIDE DEF started
  <2> QED
    BY <2>1, <2>2 DEF Run, Outcomes
<1>6. start \in Seq(TraceLine) /\ Traced(start, 0)
  BY StartLogs DEF Traced
<1> HIDE DEF started, failed, start
<1>7. HeadlessTypes' /\ \A q \in H!RunId : transcripts'[q] = transcripts[q] /\ ended'[q] = ended[q]
                                          /\ (q # r => traces'[q] = traces[q])
  <2>1. procs' \in [Process -> Run]
    BY <1>0, <1>1, <1>5 DEF HeadlessTypes
  <2>2. traces' \in [H!RunId -> Seq(TraceLine)] /\ \A q \in H!RunId : q # r => traces'[q] = traces[q]
    BY <1>0, <1>1, <1>2, <1>6 DEF HeadlessTypes
  <2> QED
    BY <1>0, <1>1, <1>2, <2>1, <2>2 DEF HeadlessTypes
<1>8. \A q \in H!RunId : q > runs => ended'[q] = <<>>
  BY <1>1 DEF HeadlessInv, RunsApart
<1>9. \A q \in H!RunId : q > runs' => ended'[q] = <<>>
  BY <1>1, <1>2, <1>8 DEF H!RunId
<1>10. CASE procs' = [procs EXCEPT ![p] = started] /\ traces' = [traces EXCEPT ![r] = start]
  <2>1. traces'[r] = start
    BY <1>0, <1>2, <1>10 DEF HeadlessTypes
  <2>2. RunSound(started, transcripts'[r], traces'[r], ended'[r])
    BY <1>5, <1>6, <2>1 DEF RunSound
  <2>3. started.pc \in Active
    BY <1>5 DEF Active
  <2> QED
    BY <1>1, <1>5, <1>7, <1>9, <1>10, <2>2, <2>3, OwnFiles
<1>11. CASE procs' = [procs EXCEPT ![p] = failed] /\ traces' = traces
  <2>1. ended'[r] = <<>>
    BY <1>2, <1>8
  <2>2. RunSound(failed, transcripts'[r], traces'[r], ended'[r])
    BY <1>5, <2>1 DEF RunSound
  <2>3. failed.pc \in Active
    BY <1>5 DEF Active
  <2> QED
    BY <1>1, <1>5, <1>7, <1>9, <1>11, <2>2, <2>3, OwnFiles
<1> QED
  BY <1>1, <1>10, <1>11

\* A turn is added to the history and to the trace.
LEMMA TurnKeeps ==
    ASSUME HeadlessInv, NEW p \in Process, NEW final \in BOOLEAN, NEW calls \in SUBSET CallId,
           H!Turn(p, final, calls)
    PROVE  HeadlessInv'
<1> DEFINE me == procs[p]
           r == me.run
           n == me.turns + 1
           said == IF final THEN <<H!Text("assistant")>> ELSE <<H!CallMsg(calls), H!ResultsMsg(calls)>>
           talk == me.history \o said
           phase == IF final \/ n = MaxTurns THEN "finish" ELSE "loop"
           new == [me EXCEPT !.turns = n, !.pc = phase, !.history = talk]
           trace == traces[r] \o H!TurnTrace(n, final)
<1>0. HeadlessTypes /\ me \in Run
  BY DEF HeadlessInv, HeadlessTypes
<1>1. /\ me.pc = "loop" /\ UNCHANGED <<index, transcripts, ended, runs>>
      /\ procs' = [procs EXCEPT ![p] = new]
      /\ traces' = [traces EXCEPT ![r] = trace]
  BY DEF H!Turn
<1>2. /\ me.turns \in Nat /\ me.history \in Seq(H!Message) /\ r \in 0..MaxRuns
  BY <1>0 DEF Run
<1>3. r \in 1..runs /\ RunSound(me, transcripts[r], traces[r], ended[r]) /\ me.pc \in Active
  BY <1>1 DEF HeadlessInv, RunsApart, RunsSound, Active
<1>4. r \in H!RunId
  BY <1>0, <1>2, <1>3, HeadlessAssumption DEF HeadlessTypes, H!RunId
<1>5. Traced(trace, n) /\ trace \in Seq(TraceLine)
  <2>1. Traced(traces[r], me.turns)
    BY <1>1, <1>3 DEF RunSound
  <2>2. Traced(trace, n)
    BY <1>2, <2>1, TurnLogs
  <2> QED
    BY <2>2 DEF Traced
<1>6. talk \in Seq(H!Message)
  <2>1. said \in Seq(H!Message)
    BY HeadlessMessages
  <2> QED
    BY <1>2, <2>1, ConcatProperties
<1>p. phase \in {"finish", "loop"}
  OBVIOUS
<1> HIDE DEF talk, trace, phase
<1>7. new \in Run /\ new.pc \in {"finish", "loop"} /\ new.run = r /\ new.turns = n
  <2>1. n \in Nat
    BY <1>2
  <2> HIDE DEF n
  <2> QED
    BY <1>0, <1>6, <1>p, <2>1 DEF Run
<1> HIDE DEF new
<1>8. HeadlessTypes' /\ traces'[r] = trace /\ \A q \in H!RunId : q # r => traces'[q] = traces[q]
  <2>1. procs' \in [Process -> Run]
    BY <1>0, <1>1, <1>7 DEF HeadlessTypes
  <2>2. traces' \in [H!RunId -> Seq(TraceLine)] /\ traces'[r] = trace
        /\ \A q \in H!RunId : q # r => traces'[q] = traces[q]
    BY <1>0, <1>1, <1>4, <1>5 DEF HeadlessTypes
  <2> QED
    BY <1>0, <1>1, <2>1, <2>2 DEF HeadlessTypes
<1>9. RunSound(new, transcripts'[r], traces'[r], ended'[r])
  BY <1>2, <1>5, <1>7, <1>8 DEF RunSound
<1>10. new.pc \in Active /\ \A q \in H!RunId : q > runs' => ended'[q] = <<>>
  BY <1>1, <1>7 DEF Active, HeadlessInv, RunsApart
<1> QED
  BY <1>1, <1>3, <1>7, <1>8, <1>9, <1>10, OwnFiles

\* The history a run ends with is what its caller records.
LEMMA FinishKeeps ==
    ASSUME HeadlessInv, NEW p \in Process, NEW status \in {"completed", "error"}, H!Finish(p, status)
    PROVE  HeadlessInv'
<1> DEFINE me == procs[p]
           r == me.run
           turns == IF status = "completed" THEN me.turns ELSE 0
           over == [me EXCEPT !.status = status, !.turns = turns]
           new == H!Returned(over)
           trace == Append(traces[r], H!RunEnd(status))
<1>0. HeadlessTypes /\ me \in Run
  BY DEF HeadlessInv, HeadlessTypes
<1>1. /\ me.pc \in {"loop", "finish"} /\ (status = "completed" => me.pc = "finish")
      /\ UNCHANGED <<index, transcripts, runs>>
      /\ procs' = [procs EXCEPT ![p] = new]
      /\ traces' = [traces EXCEPT ![r] = trace] /\ ended' = [ended EXCEPT ![r] = me.history]
  BY DEF H!Finish
<1>2. /\ me.turns \in Nat /\ me.history \in Seq(H!Message) /\ r \in 0..MaxRuns
  BY <1>0 DEF Run
<1>3. r \in 1..runs /\ RunSound(me, transcripts[r], traces[r], ended[r]) /\ me.pc \in Active
  BY <1>1 DEF HeadlessInv, RunsApart, RunsSound, Active
<1>4. r \in H!RunId
  BY <1>0, <1>2, <1>3, HeadlessAssumption DEF HeadlessTypes, H!RunId
<1>5. trace \in Seq(TraceLine) /\ (status = "completed" => Replays(trace, me.turns))
  <2>1. Traced(traces[r], me.turns)
    BY <1>1, <1>3 DEF RunSound
  <2>2. traces[r] \in Seq(TraceLine) /\ H!RunEnd(status) \in TraceLine
    BY <2>1, TraceLines DEF Traced, Outcomes
  <2>3. status = "completed" => me.turns \in Nat \ {0}
    BY <1>1, <1>2, <1>3 DEF RunSound
  <2> QED
    BY <2>1, <2>2, <2>3, AppendProperties, FinishReplays
<1> HIDE DEF trace
<1>6. over \in Run /\ over.pc = me.pc /\ over.run = r /\ over.status = status /\ over.turns = turns
      /\ over.history = me.history
  BY <1>0, <1>2 DEF Run, Outcomes
<1> HIDE DEF over
<1>7. \/ new = H!Idle /\ new \in Run /\ new.pc = "idle"
      \/ /\ new \in Run /\ new.pc = "record" /\ new.run = r /\ new.status = status
         /\ new.turns = turns /\ new.history = me.history
  <2>1. CASE over.records
    BY <1>6, <2>1 DEF H!Returned, Run
  <2>2. CASE ~over.records
    <3>1. new = H!Idle
      BY <2>2 DEF H!Returned
    <3>2. H!Idle \in Run /\ H!Idle.pc = "idle"
      BY HeadlessAssumption DEF H!Idle, Run, Outcomes
    <3> QED
      BY <3>1, <3>2
  <2> QED
    BY <2>1, <2>2
<1> HIDE DEF new
<1>8. /\ HeadlessTypes' /\ traces'[r] = trace /\ ended'[r] = me.history
      /\ \A q \in H!RunId : q # r => traces'[q] = traces[q] /\ ended'[q] = ended[q]
  <2>1. procs' \in [Process -> Run]
    BY <1>0, <1>1, <1>7 DEF HeadlessTypes
  <2>2. traces' \in [H!RunId -> Seq(TraceLine)] /\ traces'[r] = trace
        /\ \A q \in H!RunId : q # r => traces'[q] = traces[q]
    BY <1>0, <1>1, <1>4, <1>5 DEF HeadlessTypes
  <2>3. ended' \in [H!RunId -> Seq(H!Message)] /\ ended'[r] = me.history
        /\ \A q \in H!RunId : q # r => ended'[q] = ended[q]
    BY <1>0, <1>1, <1>2, <1>4 DEF HeadlessTypes
  <2> QED
    BY <1>0, <1>1, <2>1, <2>2, <2>3 DEF HeadlessTypes
<1>9. new.pc \in Active => new.run = r /\ RunSound(new, transcripts'[r], traces'[r], ended'[r])
  BY <1>5, <1>7, <1>8 DEF RunSound, Active
<1>10. new \in Run /\ new.pc \in Active \cup {"idle"}
       /\ \A q \in H!RunId : q > runs' => ended'[q] = <<>>
  <2>1. runs \in Nat
    BY <1>0, HeadlessAssumption DEF HeadlessTypes
  <2>2. \A q \in H!RunId : q > runs => q # r
    BY <1>3, <2>1 DEF H!RunId
  <2> QED
    BY <1>1, <1>7, <1>8, <2>2 DEF Active, HeadlessInv, RunsApart
<1> QED
  BY <1>1, <1>3, <1>8, <1>9, <1>10, OwnFiles

\* The transcript is emptied, then filled, before the line is written.
LEMMA TranscriptKeeps ==
    ASSUME HeadlessInv, NEW p \in Process, H!SaveTranscript(p) \/ H!FillTranscript(p)
    PROVE  HeadlessInv'
<1> DEFINE me == procs[p]
           r == me.run
<1>0. HeadlessTypes /\ me \in Run
  BY DEF HeadlessInv, HeadlessTypes
<1>1. PICK phase \in {"filling", "index"}, t \in {H!Torn, me.history} :
         /\ me.pc \in {"record", "filling"} /\ me.history # <<>>
         /\ procs' = [procs EXCEPT ![p] = [me EXCEPT !.pc = phase]]
         /\ transcripts' = [transcripts EXCEPT ![r] = t] /\ (phase = "index" => t = me.history)
         /\ UNCHANGED <<index, traces, ended, runs>>
  BY DEF H!SaveTranscript, H!FillTranscript, HeadlessInv, RunsSound, RunSound, Active
<1> DEFINE new == [me EXCEPT !.pc = phase]
<1>2. /\ me.history \in Seq(H!Message) /\ r \in 0..MaxRuns
  BY <1>0 DEF Run
<1>3. r \in 1..runs /\ RunSound(me, transcripts[r], traces[r], ended[r]) /\ me.pc \in Active
  BY <1>1 DEF HeadlessInv, RunsApart, RunsSound, Active
<1>4. r \in H!RunId
  BY <1>0, <1>2, <1>3, HeadlessAssumption DEF HeadlessTypes, H!RunId
<1>5. new \in Run /\ new.pc = phase /\ new.run = r /\ new.status = me.status /\ new.turns = me.turns
      /\ new.history = me.history /\ procs' = [procs EXCEPT ![p] = new]
  BY <1>0, <1>1 DEF Run
<1> HIDE DEF new
<1>6. HeadlessTypes' /\ transcripts'[r] = t
      /\ \A q \in H!RunId : q # r => transcripts'[q] = transcripts[q]
  <2>1. procs' \in [Process -> Run]
    BY <1>0, <1>5 DEF HeadlessTypes
  <2>2. transcripts' \in [H!RunId -> Seq(H!Message) \cup {H!Torn}] /\ transcripts'[r] = t
        /\ \A q \in H!RunId : q # r => transcripts'[q] = transcripts[q]
    BY <1>0, <1>1, <1>2, <1>4 DEF HeadlessTypes
  <2> QED
    BY <1>0, <1>1, <2>1, <2>2 DEF HeadlessTypes
<1>7. RunSound(new, transcripts'[r], traces'[r], ended'[r])
  BY <1>1, <1>3, <1>5, <1>6 DEF RunSound
<1>8. new.pc \in Active /\ \A q \in H!RunId : q > runs' => ended'[q] = <<>>
  BY <1>1, <1>5 DEF Active, HeadlessInv, RunsApart
<1> QED
  BY <1>1, <1>3, <1>5, <1>6, <1>7, <1>8, OwnFiles

\* A run that is killed has no line, and its files are nobody else's.
LEMMA KillKeeps ==
    ASSUME HeadlessInv, NEW p \in Process, H!Kill(p)
    PROVE  HeadlessInv'
<1>1. /\ procs[p].pc # "replacing" \/ CompactDies
      /\ procs' = [procs EXCEPT ![p] = H!Idle]
      /\ UNCHANGED <<index, transcripts, traces, ended, runs>>
  BY DEF H!Kill
<1>2. H!Idle \in Run /\ H!Idle.pc = "idle"
  BY HeadlessAssumption DEF H!Idle, Run, Outcomes
<1>3. HeadlessTypes'
  BY <1>1, <1>2 DEF HeadlessInv, HeadlessTypes
<1>4. H!Idle.pc \notin Active /\ \A q \in H!RunId : q > runs' => ended'[q] = <<>>
  BY <1>1, <1>2 DEF Active, HeadlessInv, RunsApart
<1> QED
  BY <1>1, <1>2, <1>3, <1>4, OwnFiles

\* The line of a run is written when its files are.
LEMMA AppendIndexKeeps ==
    ASSUME HeadlessInv, NEW p \in Process, H!AppendIndex(p)
    PROVE  HeadlessInv'
<1> DEFINE me == procs[p]
           r == me.run
           spoke == me.history # <<>>
           line == [run |-> r, status |-> me.status, turns |-> me.turns, transcript |-> spoke]
<1>0. HeadlessTypes /\ me \in Run
  BY DEF HeadlessInv, HeadlessTypes
<1>1. /\ me.pc \in {"record", "index"} /\ (spoke => me.pc = "index")
      /\ index' = Append(index, line) /\ procs' = [procs EXCEPT ![p] = H!Idle]
      /\ UNCHANGED <<transcripts, traces, ended, runs>>
  BY DEF H!AppendIndex, H!IndexedAt
<1>2. r \in 1..runs /\ RunSound(me, transcripts[r], traces[r], ended[r])
      /\ \A q \in Process \ {p} : procs[q].pc \in Active => procs[q].run # r
  BY <1>1 DEF HeadlessInv, RunsApart, RunsSound, Active
<1>3. r \in H!RunId /\ me.status \in Outcomes /\ me.turns \in Nat
  BY <1>0, <1>2, HeadlessAssumption DEF HeadlessTypes, H!RunId, Run
<1>4. spoke \in BOOLEAN
  OBVIOUS
<1>5. spoke => transcripts[r] = ended[r]
  BY <1>1, <1>2 DEF RunSound
<1>6. me.status = "completed" => Replays(traces[r], me.turns)
  BY <1>1, <1>2 DEF RunSound
<1> HIDE DEF spoke
<1>7. line \in IndexLine /\ line.run = r /\ line.status = me.status /\ line.turns = me.turns
      /\ line.transcript = spoke
  BY <1>3, <1>4 DEF IndexLine
<1> HIDE DEF line
<1>8. H!Entries' = H!Entries \cup {line}
  <2>1. index \in Seq(IndexLine) /\ Len(index) \in Nat /\ DOMAIN index = 1..Len(index)
    BY <1>0, LenProperties DEF HeadlessTypes
  <2>2. /\ DOMAIN index' = 1..(Len(index) + 1) /\ index'[Len(index) + 1] = line
        /\ \A i \in 1..Len(index) : index'[i] = index[i]
    BY <1>1, <1>7, <2>1, AppendProperties
  <2>3. H!Entries' = {index'[i] : i \in DOMAIN index'}
    BY DEF H!Entries
  <2>4. ASSUME NEW x PROVE x \in H!Entries' <=> x \in H!Entries \cup {line}
    <3>1. ASSUME x \in H!Entries' PROVE x \in H!Entries \cup {line}
      <4>1. PICK i \in DOMAIN index' : x = index'[i]
        BY <2>3, <3>1
      <4>2. CASE i = Len(index) + 1
        BY <2>2, <4>1, <4>2
      <4>3. CASE i \in 1..Len(index)
        BY <2>1, <2>2, <4>1, <4>3 DEF H!Entries
      <4> QED
        BY <2>1, <2>2, <4>1, <4>2, <4>3
    <3>2. ASSUME x \in H!Entries \cup {line} PROVE x \in H!Entries'
      <4>1. CASE x = line
        BY <2>1, <2>2, <2>3, <4>1
      <4>2. CASE x \in H!Entries
        <5>1. PICK i \in DOMAIN index : x = index[i]
          BY <4>2 DEF H!Entries
        <5>2. i \in DOMAIN index' /\ x = index'[i]
          BY <2>1, <2>2, <5>1
        <5> QED
          BY <2>3, <5>2
      <4> QED
        BY <3>2, <4>1, <4>2
    <3> QED
      BY <3>1, <3>2
  <2> QED
    BY <2>4
<1>9. H!Idle \in Run /\ H!Idle.pc = "idle"
  BY HeadlessAssumption DEF H!Idle, Run, Outcomes
<1>10. /\ \A q \in Process : procs'[q] = IF q = p THEN H!Idle ELSE procs[q]
       /\ procs' \in [Process -> Run]
  BY <1>0, <1>1, <1>9 DEF HeadlessTypes
<1>11. HeadlessTypes'
  <2>1. index' \in Seq(IndexLine)
    BY <1>0, <1>1, <1>7, AppendProperties DEF HeadlessTypes
  <2> QED
    BY <1>0, <1>1, <1>10, <2>1 DEF HeadlessTypes
<1>12. \A q \in Process : procs'[q].pc # "idle" => q # p /\ procs'[q] = procs[q]
  BY <1>9, <1>10
<1>13. RunsApart'
  BY <1>1, <1>2, <1>7, <1>8, <1>12 DEF HeadlessInv, RunsApart, Active
<1>14. RunsSound'
  BY <1>1, <1>12 DEF HeadlessInv, RunsSound, Active
<1>15. LinesSound'
  <2>1. \A q \in Process : procs'[q].pc \in {"compact", "replacing"} => procs'[q] = procs[q]
    BY <1>12
  <2>2. \A q \in Process : procs[q].pc = "replacing" => procs'[q] = procs[q]
    BY <1>1, <1>10
  <2>3. line.transcript => Resumable(transcripts'[r], ended'[r])
    BY <1>1, <1>5, <1>7 DEF Resumable
  <2>4. line.status = "completed" => Replays(traces'[r], line.turns)
    BY <1>1, <1>6, <1>7
  <2>5. ASSUME NEW e \in H!Entries'
        PROVE  /\ e.status = "completed" => Replays(traces'[e.run], e.turns)
               /\ e.transcript =>
                     \/ Resumable(transcripts'[e.run], ended'[e.run])
                     \/ /\ transcripts'[e.run] = H!Torn
                        /\ \/ CompactDies
                           \/ \E q \in Process : procs'[q].run = e.run /\ procs'[q].pc = "replacing"
    <3>1. CASE e = line
      BY <1>7, <2>3, <2>4, <3>1
    <3>2. CASE e \in H!Entries
      BY <1>1, <2>2, <3>2 DEF HeadlessInv, LinesSound
    <3> QED
      BY <1>8, <3>1, <3>2
  <2>6. ASSUME NEW q \in Process, procs'[q].pc \in {"compact", "replacing"}
        PROVE  /\ \E e \in H!Entries' : e.run = procs'[q].run
               /\ Resumable(procs'[q].history, ended'[procs'[q].run])
    BY <1>1, <1>8, <2>1, <2>6 DEF HeadlessInv, LinesSound
  <2> QED
    BY <2>5, <2>6 DEF LinesSound
<1> QED
  BY <1>11, <1>13, <1>14, <1>15 DEF HeadlessInv

\* `xhx compact` starts from a transcript that is whole.
LEMMA StartCompactKeeps ==
    ASSUME HeadlessInv, NEW p \in Process, H!StartCompact(p)
    PROVE  HeadlessInv'
<1> DEFINE last == index[Len(index)]
           r == last.run
           t == transcripts[r]
<1>0. HeadlessTypes
  BY DEF HeadlessInv
<1>1. PICK c1 \in H!Cuts(t) :
         /\ procs[p].pc = "idle" /\ index # <<>> /\ last.transcript /\ t # H!Torn
         /\ procs' = [procs EXCEPT ![p] = [H!Idle EXCEPT !.pc = "compact", !.run = r,
                                                       !.history = H!Compacted(t, c1)]]
         /\ UNCHANGED <<index, transcripts, traces, ended, runs>>
  BY DEF H!StartCompact
<1>2. last \in H!Entries
  <2>1. Len(index) \in DOMAIN index
    BY <1>0, <1>1, EmptySeq, LenProperties DEF HeadlessTypes
  <2> QED
    BY <2>1 DEF H!Entries
<1>3. r \in 1..runs /\ r \in H!RunId
  <2>1. last \in IndexLine
    BY <1>0, <1>2, EntriesTyped
  <2> QED
    BY <1>2, <2>1 DEF IndexLine, HeadlessInv, RunsApart
<1>4. Resumable(t, ended[r]) /\ ended[r] \in Seq(H!Message) /\ t \in Seq(H!Message)
  BY <1>0, <1>1, <1>2, <1>3 DEF HeadlessInv, LinesSound, HeadlessTypes
<1> DEFINE talk == H!Compacted(t, c1)
           new == [H!Idle EXCEPT !.pc = "compact", !.run = r, !.history = talk]
<1>5. Resumable(talk, ended[r]) /\ talk \in Seq(H!Message)
  <2>0. talk \in Seq(H!Message)
    <3>1. <<H!Text("user")>> \in Seq(H!Message)
      BY HeadlessMessages
    <3>2. SubSeq(t, c1 + 1, Len(t)) \in Seq(H!Message)
      <4>1. Len(t) \in Nat /\ c1 \in 1..(Len(t) - KeepRecent) /\ KeepRecent \in Nat
        BY <1>4, HeadlessAssumption, LenProperties DEF H!Cuts
      <4> QED
        BY <1>4, <4>1, SubSeqProperties
    <3> QED
      BY <3>1, <3>2, ConcatProperties DEF H!Compacted
  <2>1. CASE t = ended[r]
    BY <2>0, <2>1 DEF Resumable
  <2>2. CASE t # ended[r]
    <3>1. PICK c \in H!Cuts(ended[r]) : t = H!Compacted(ended[r], c)
      BY <1>4, <2>2 DEF Resumable
    <3>2. c + c1 - 1 \in H!Cuts(ended[r]) /\ talk = H!Compacted(ended[r], c + c1 - 1)
      BY <1>4, <3>1, CompactedTwice
    <3> QED
      BY <2>0, <3>2 DEF Resumable
  <2> QED
    BY <2>1, <2>2
<1> HIDE DEF talk
<1>6. new \in Run /\ new.pc = "compact" /\ new.run = r /\ new.history = talk
  <2>1. H!Idle \in Run
    BY HeadlessAssumption DEF H!Idle, Run, Outcomes
  <2>2. r \in 0..MaxRuns
    BY <1>3, HeadlessAssumption DEF H!RunId
  <2> QED
    BY <1>5, <2>1, <2>2 DEF Run
<1>7. procs' = [procs EXCEPT ![p] = new]
  BY <1>1 DEF talk
<1> HIDE DEF new
<1>8. procs' \in [Process -> Run] /\ \A q \in Process : procs'[q] = IF q = p THEN new ELSE procs[q]
  BY <1>0, <1>6, <1>7 DEF HeadlessTypes
<1>9. HeadlessTypes' /\ H!Entries' = H!Entries
  BY <1>0, <1>1, <1>8 DEF HeadlessTypes, H!Entries
<1>10. \A q \in Process : procs'[q].pc \in Active => q # p /\ procs'[q] = procs[q]
  BY <1>6, <1>8 DEF Active
<1>11. RunsApart' /\ RunsSound'
  BY <1>1, <1>9, <1>10 DEF HeadlessInv, RunsApart, RunsSound
<1>12. LinesSound'
  <2>1. \A q \in Process : procs[q].pc = "replacing" => procs'[q] = procs[q]
    BY <1>1, <1>8
  <2>2. \A q \in Process \ {p} : procs'[q] = procs[q]
    BY <1>8
  <2>3. Resumable(procs'[p].history, ended'[procs'[p].run]) /\ procs'[p].run = last.run
    BY <1>1, <1>5, <1>6, <1>8
  <2>4. ASSUME NEW e \in H!Entries
        PROVE  /\ e.status = "completed" => Replays(traces'[e.run], e.turns)
               /\ e.transcript =>
                     \/ Resumable(transcripts'[e.run], ended'[e.run])
                     \/ /\ transcripts'[e.run] = H!Torn
                        /\ \/ CompactDies
                           \/ \E q \in Process : procs'[q].run = e.run /\ procs'[q].pc = "replacing"
    BY <1>1, <2>1 DEF HeadlessInv, LinesSound
  <2>5. ASSUME NEW q \in Process \ {p}, procs'[q].pc \in {"compact", "replacing"}
        PROVE  /\ \E e \in H!Entries : e.run = procs'[q].run
               /\ Resumable(procs'[q].history, ended'[procs'[q].run])
    BY <1>1, <2>2, <2>5 DEF HeadlessInv, LinesSound
  <2> QED
    BY <1>2, <1>9, <2>3, <2>4, <2>5 DEF LinesSound
<1> QED
  BY <1>9, <1>11, <1>12 DEF HeadlessInv

\* The transcript is emptied and filled, by one process or by several at once.
LEMMA ReplaceKeeps ==
    ASSUME HeadlessInv, NEW p \in Process, H!ReplaceTranscript(p)
    PROVE  HeadlessInv'
<1> DEFINE me == procs[p]
           r == me.run
           t == IF me.pc = "compact" THEN H!Torn ELSE me.history
           new == IF me.pc = "compact" THEN [me EXCEPT !.pc = "replacing"] ELSE H!Idle
<1>0. HeadlessTypes /\ me \in Run
  BY DEF HeadlessInv, HeadlessTypes
<1>1. /\ me.pc \in {"compact", "replacing"} /\ procs' = [procs EXCEPT ![p] = new]
      /\ transcripts' = [transcripts EXCEPT ![r] = t]
      /\ UNCHANGED <<index, traces, ended, runs>>
  BY DEF H!ReplaceTranscript
<1>2. PICK line \in H!Entries : line.run = r /\ Resumable(me.history, ended[r])
  BY <1>1 DEF HeadlessInv, LinesSound
<1>3. r \in 1..runs /\ r \in H!RunId /\ me.history \in Seq(H!Message)
  <2>1. line \in IndexLine
    BY <1>0, <1>2, EntriesTyped
  <2> QED
    BY <1>0, <1>2, <2>1 DEF IndexLine, HeadlessInv, RunsApart, Run
<1>4. \/ me.pc = "compact" /\ t = H!Torn /\ new \in Run /\ new.pc = "replacing" /\ new.run = r
         /\ new.history = me.history
      \/ me.pc = "replacing" /\ t = me.history /\ new \in Run /\ new.pc = "idle"
  <2>1. H!Idle \in Run /\ H!Idle.pc = "idle"
    BY HeadlessAssumption DEF H!Idle, Run, Outcomes
  <2> QED
    BY <1>0, <1>1, <2>1 DEF Run
<1> HIDE DEF t, new
<1>5. procs' \in [Process -> Run] /\ \A q \in Process : procs'[q] = IF q = p THEN new ELSE procs[q]
  BY <1>0, <1>1, <1>4 DEF HeadlessTypes
<1>6. /\ transcripts' \in [H!RunId -> Seq(H!Message) \cup {H!Torn}] /\ transcripts'[r] = t
      /\ \A q \in H!RunId : q # r => transcripts'[q] = transcripts[q]
  BY <1>0, <1>1, <1>3, <1>4 DEF HeadlessTypes
<1>7. HeadlessTypes' /\ H!Entries' = H!Entries
  BY <1>0, <1>1, <1>5, <1>6 DEF HeadlessTypes, H!Entries
<1>8. \A q \in Process : procs'[q].pc \in Active =>
         /\ q # p /\ procs'[q] = procs[q] /\ procs[q].run # r /\ procs[q].run \in H!RunId
  <2>1. \A q \in Process : procs'[q].pc \in Active => q # p /\ procs'[q] = procs[q]
    BY <1>4, <1>5 DEF Active
  <2>2. \A q \in Process : procs[q].pc \in Active => procs[q].run # r /\ procs[q].run \in 1..runs
    BY <1>2 DEF HeadlessInv, RunsApart
  <2>3. 1..runs \subseteq H!RunId
    BY <1>0, HeadlessAssumption DEF HeadlessTypes, H!RunId
  <2> QED
    BY <2>1, <2>2, <2>3
<1>9. RunsApart'
  BY <1>1, <1>7, <1>8 DEF HeadlessInv, RunsApart
<1>10. RunsSound'
  BY <1>1, <1>6, <1>8 DEF HeadlessInv, RunsSound
<1>11. LinesSound'
  <2>1. \A q \in Process \ {p} : procs'[q] = procs[q]
    BY <1>5
  <2>2. Resumable(t, ended[r]) \/ (t = H!Torn /\ procs'[p].run = r /\ procs'[p].pc = "replacing")
    BY <1>2, <1>4, <1>5
  <2>3. ASSUME NEW e \in H!Entries
        PROVE  /\ e.status = "completed" => Replays(traces'[e.run], e.turns)
               /\ e.transcript =>
                     \/ Resumable(transcripts'[e.run], ended'[e.run])
                     \/ /\ transcripts'[e.run] = H!Torn
                        /\ \/ CompactDies
                           \/ \E q \in Process : procs'[q].run = e.run /\ procs'[q].pc = "replacing"
    <3>0. e.run \in H!RunId
      BY <1>0, <2>3, EntriesTyped DEF IndexLine
    <3>1. e.status = "completed" => Replays(traces'[e.run], e.turns)
      BY <1>1, <2>3 DEF HeadlessInv, LinesSound
    <3>2. CASE e.run = r
      BY <1>1, <1>6, <2>2, <3>1, <3>2
    <3>3. CASE e.run # r
      <4>1. transcripts'[e.run] = transcripts[e.run] /\ ended'[e.run] = ended[e.run]
        BY <1>1, <1>6, <3>0, <3>3
      <4>2. \A q \in Process : procs[q].run = e.run => procs'[q] = procs[q]
        BY <2>1, <3>3
      <4> QED
        BY <2>3, <3>1, <4>1, <4>2 DEF HeadlessInv, LinesSound
    <3> QED
      BY <3>2, <3>3
  <2>4. ASSUME NEW q \in Process, procs'[q].pc \in {"compact", "replacing"}
        PROVE  /\ \E e \in H!Entries : e.run = procs'[q].run
               /\ Resumable(procs'[q].history, ended'[procs'[q].run])
    <3>1. CASE q = p
      BY <1>1, <1>2, <1>4, <1>5, <2>4, <3>1
    <3>2. CASE q # p
      BY <1>1, <2>1, <2>4, <3>2 DEF HeadlessInv, LinesSound
    <3> QED
      BY <3>1, <3>2
  <2> QED
    BY <1>7, <2>3, <2>4 DEF LinesSound
<1> QED
  BY <1>7, <1>9, <1>10, <1>11 DEF HeadlessInv

\* Every step of any process keeps it.
LEMMA HeadlessInvariant == H!HeadlessSpec => []HeadlessInv
<1>1. H!HeadlessInit => HeadlessInv
  <2> SUFFICES ASSUME H!HeadlessInit PROVE HeadlessInv
    OBVIOUS
  <2>1. H!Idle \in Run /\ H!Idle.pc = "idle"
    BY HeadlessAssumption DEF H!Idle, Run, Outcomes
  <2>2. /\ runs = 0 /\ index = <<>> /\ transcripts = [r \in H!RunId |-> <<>>]
        /\ traces = [r \in H!RunId |-> <<>>] /\ ended = [r \in H!RunId |-> <<>>]
        /\ procs = [p \in Process |-> H!Idle]
    BY DEF H!HeadlessInit, H!Missing
  <2>3. HeadlessTypes /\ H!Entries = {} /\ \A p \in Process : procs[p].pc = "idle"
    <3>1. <<>> \in Seq(IndexLine) /\ <<>> \in Seq(H!Message) /\ <<>> \in Seq(TraceLine)
          /\ DOMAIN <<>> = {}
      OBVIOUS
    <3>2. 0 \in 0..MaxRuns
      BY HeadlessAssumption
    <3> QED
      BY <2>1, <2>2, <3>1, <3>2 DEF HeadlessTypes, H!Entries
  <2>4. RunsApart /\ RunsSound /\ LinesSound
    BY <2>2, <2>3 DEF RunsApart, RunsSound, LinesSound, Active
  <2> QED
    BY <2>3, <2>4 DEF HeadlessInv
<1>2. HeadlessInv /\ [H!HeadlessNext]_(H!vars) => HeadlessInv'
  <2> SUFFICES ASSUME HeadlessInv, [H!HeadlessNext]_(H!vars) PROVE HeadlessInv'
    OBVIOUS
  <2>1. CASE UNCHANGED H!vars
    <3>1. UNCHANGED <<index, transcripts, traces, procs, ended, runs>>
      BY <2>1 DEF H!vars
    <3> QED
      BY <3>1 DEF HeadlessInv, HeadlessTypes, RunsApart, RunsSound, LinesSound, H!Entries
  <2>2. CASE H!HeadlessNext
    BY <2>2, StartRunKeeps, TurnKeeps, FinishKeeps, TranscriptKeeps, AppendIndexKeeps,
       StartCompactKeeps, ReplaceKeeps, KillKeeps DEF H!HeadlessNext
  <2> QED
    BY <2>1, <2>2
<1> QED
  BY <1>1, <1>2, PTL DEF H!HeadlessSpec

\* A run that `xhx sessions` lists can be resumed with all it said, whichever runs are
\* killed at whichever point, and however many compactions overlap, if none is killed.
THEOREM IndexedStaysResumable == ~CompactDies => (H!HeadlessSpec => []IndexedIsResumable)
<1> SUFFICES ASSUME ~CompactDies PROVE H!HeadlessSpec => []IndexedIsResumable
  OBVIOUS
<1>1. HeadlessInv => IndexedIsResumable
  BY DEF HeadlessInv, LinesSound, Resumable, IndexedIsResumable, H!IndexedIsResumable
<1> QED
  BY <1>1, HeadlessInvariant, PTL

\* Index, trace and result of a completed run tell of the same number of turns.
THEOREM IndexStaysInAgreement == H!HeadlessSpec => []IndexAgreesWithTrace
<1>1. HeadlessInv => IndexAgreesWithTrace
  BY DEF HeadlessInv, LinesSound, Replays, IndexAgreesWithTrace, H!IndexAgreesWithTrace
<1> QED
  BY <1>1, HeadlessInvariant, PTL

=============================================================================
