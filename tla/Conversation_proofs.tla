------------------------- MODULE Conversation_proofs -------------------------
(***************************************************************************)
(* What the history operators preserve: every tool-results message stands  *)
(* right behind the message that made its calls.                           *)
(***************************************************************************)
EXTENDS Conversation, SequenceTheorems, WellFoundedInduction, TLAPS

-----------------------------------------------------------------------------

\* add_user_message and add_assistant_message: a message that is no result can
\* be appended to any history.
LEMMA AppendKeepsPaired ==
    ASSUME NEW h \in Seq(Message), NEW m \in Message,
           Paired(h), m.role # "results"
    PROVE  /\ Append(h, m) \in Seq(Message)
           /\ Paired(Append(h, m))
  BY AppendProperties DEF Paired

\* add_tool_results_message: results can be appended right behind their call.
LEMMA AppendResultsKeepsPaired ==
    ASSUME NEW h \in Seq(Message), NEW ids \in SUBSET CallId,
           Paired(h), h # <<>>, h[Len(h)] = CallMsg(ids)
    PROVE  /\ Append(h, ResultsMsg(ids)) \in Seq(Message)
           /\ Paired(Append(h, ResultsMsg(ids)))
<1>1. ResultsMsg(ids) \in Message
  BY DEF ResultsMsg, Message, Role
<1> DEFINE m == ResultsMsg(ids)
           a == Append(h, m)
<1>2. /\ a \in Seq(Message)
      /\ Len(a) = Len(h) + 1
      /\ \A i \in 1..Len(h) : a[i] = h[i]
      /\ a[Len(h) + 1] = m
  BY <1>1, AppendProperties
<1>3. m.ids = ids /\ m.role = "results"
  BY DEF ResultsMsg
<1>4. Len(h) \in Nat /\ Len(h) > 0 /\ DOMAIN h = 1..Len(h)
  BY LenProperties, EmptySeq
<1>5. DOMAIN a = 1..(Len(h) + 1)
  BY <1>2, LenProperties
<1> HIDE DEF m, a
<1>6. ASSUME NEW i \in DOMAIN a, a[i].role = "results"
      PROVE  i > 1 /\ a[i - 1] = CallMsg(a[i].ids)
  <2>1. CASE i = Len(h) + 1
    BY <2>1, <1>2, <1>3, <1>4
  <2>2. CASE i \in 1..Len(h)
    BY <2>2, <1>2, <1>4, <1>6 DEF Paired
  <2>3. QED BY <2>1, <2>2, <1>4, <1>5
<1>7. QED BY <1>2, <1>6 DEF Paired, a, m

\* inject_environment, and the summary put before the kept tail.
LEMMA PrependKeepsPaired ==
    ASSUME NEW h \in Seq(Message), NEW m \in Message,
           Paired(h), m.role # "results"
    PROVE  /\ <<m>> \o h \in Seq(Message)
           /\ <<m>> \o h # <<>>
           /\ (<<m>> \o h)[1] = m
           /\ Paired(<<m>> \o h)
<1> DEFINE p == <<m>> \o h
<1>1. <<m>> \in Seq(Message) /\ Len(<<m>>) = 1
  OBVIOUS
<1>2. /\ p \in Seq(Message)
      /\ Len(p) = Len(h) + 1
      /\ \A i \in 1..Len(p) : p[i] = IF i = 1 THEN m ELSE h[i - 1]
  BY <1>1, ConcatProperties, LenProperties
<1>3. Len(h) \in Nat /\ DOMAIN h = 1..Len(h) /\ DOMAIN p = 1..(Len(h) + 1)
  BY <1>2, LenProperties
<1> HIDE DEF p
<1>4. ASSUME NEW i \in DOMAIN p, p[i].role = "results"
      PROVE  i > 1 /\ p[i - 1] = CallMsg(p[i].ids)
  <2>1. i \in 2..(Len(h) + 1) /\ p[i] = h[i - 1]
    BY <1>2, <1>3, <1>4
  <2>2. i - 1 \in DOMAIN h /\ h[i - 1].role = "results"
    BY <2>1, <1>3, <1>4
  <2>3. i - 1 > 1 /\ h[(i - 1) - 1] = CallMsg(h[i - 1].ids)
    BY <2>2 DEF Paired
  <2>4. p[i - 1] = h[(i - 1) - 1]
    BY <2>1, <2>3, <1>2, <1>3
  <2>5. QED BY <2>1, <2>3, <2>4
<1>5. p # <<>> /\ p[1] = m
  BY <1>2, <1>3, EmptySeq
<1>6. QED BY <1>2, <1>4, <1>5 DEF Paired, p

\* Cutting messages off the end (rewind, the prefix that is summarised).
LEMMA PrefixKeepsPaired ==
    ASSUME NEW h \in Seq(Message), NEW n \in 0..Len(h), Paired(h)
    PROVE  /\ SubSeq(h, 1, n) \in Seq(Message)
           /\ Len(SubSeq(h, 1, n)) = n
           /\ \A i \in 1..n : SubSeq(h, 1, n)[i] = h[i]
           /\ Paired(SubSeq(h, 1, n))
<1> DEFINE p == SubSeq(h, 1, n)
<1>1. Len(h) \in Nat /\ DOMAIN h = 1..Len(h)
  BY LenProperties
<1>2. \A i \in 1..n : h[i] \in Message
  BY <1>1, ElementOfSeq
<1>3. /\ p \in Seq(Message)
      /\ Len(p) = n
      /\ \A i \in 1..n : p[i] = h[i]
  BY <1>1, <1>2, SubSeqProperties
<1>4. DOMAIN p = 1..n
  BY <1>3, LenProperties
<1> HIDE DEF p
<1>5. ASSUME NEW i \in DOMAIN p, p[i].role = "results"
      PROVE  i > 1 /\ p[i - 1] = CallMsg(p[i].ids)
  BY <1>1, <1>3, <1>4, <1>5 DEF Paired
<1>6. QED BY <1>3, <1>5 DEF Paired, p

\* Keeping a tail that does not start with results.
LEMMA SuffixKeepsPaired ==
    ASSUME NEW h \in Seq(Message), NEW s \in 1..Len(h),
           Paired(h), h[s].role # "results"
    PROVE  /\ KeptTail(h, s) \in Seq(Message)
           /\ Len(KeptTail(h, s)) = Len(h) - s + 1
           /\ Paired(KeptTail(h, s))
<1> DEFINE t == SubSeq(h, s, Len(h))
           n == Len(h) - s + 1
<1>1. Len(h) \in Nat /\ DOMAIN h = 1..Len(h)
  BY LenProperties
<1>2. \A i \in s..Len(h) : h[i] \in Message
  BY <1>1, ElementOfSeq
<1>3. /\ t \in Seq(Message)
      /\ Len(t) = n
      /\ \A i \in 1..n : t[i] = h[s + i - 1]
  BY <1>1, <1>2, SubSeqProperties
<1>4. DOMAIN t = 1..n /\ n \in Nat
  BY <1>1, <1>3, LenProperties
<1>5. ASSUME NEW i \in DOMAIN t, t[i].role = "results"
      PROVE  i > 1 /\ t[i - 1] = CallMsg(t[i].ids)
  <2> HIDE DEF t
  <2>1. t[i] = h[s + i - 1] /\ s + i - 1 \in DOMAIN h
    BY <1>1, <1>3, <1>4
  <2>2. i # 1
    BY <2>1, <1>5
  <2>3. h[(s + i - 1) - 1] = CallMsg(t[i].ids)
    BY <2>1, <1>5 DEF Paired
  <2>4. i - 1 \in 1..n /\ t[i - 1] = h[s + (i - 1) - 1]
    BY <2>2, <1>3, <1>4
  <2>5. s + (i - 1) - 1 = (s + i - 1) - 1
    BY <1>1, <1>4
  <2>6. QED BY <2>2, <2>3, <2>4, <2>5, <1>4
<1>6. QED BY <1>3, <1>5 DEF Paired, KeptTail

\* Where the messages stand after an insert behind the first one.
LEMMA InsertSecond ==
    ASSUME NEW h \in Seq(Message), NEW m \in Message, h # <<>>
    PROVE  /\ InsertAt(h, 2, m) \in Seq(Message)
           /\ Len(InsertAt(h, 2, m)) = Len(h) + 1
           /\ InsertAt(h, 2, m)[1] = h[1] /\ InsertAt(h, 2, m)[2] = m
           /\ \A i \in 3..(Len(h) + 1) : InsertAt(h, 2, m)[i] = h[i - 1]
<1> DEFINE a == SubSeq(h, 1, 1)
           b == SubSeq(h, 2, Len(h))
           c == a \o <<m>>
           p == c \o b
           n == Len(h)
<1>1. n \in Nat /\ n >= 1 /\ DOMAIN h = 1..n
  BY LenProperties, EmptySeq
<1>2. \A i \in 1..n : h[i] \in Message
  BY <1>1, ElementOfSeq
<1>3. a \in Seq(Message) /\ Len(a) = 1 /\ a[1] = h[1]
  BY <1>1, <1>2, SubSeqProperties
<1>4. /\ b \in Seq(Message)
      /\ Len(b) = n - 1
      /\ \A i \in 1..(n - 1) : b[i] = h[i + 1]
  <2>1. /\ b \in Seq(Message)
        /\ Len(b) = IF 2 <= n THEN n - 2 + 1 ELSE 0
        /\ \A i \in 1..(n - 2 + 1) : b[i] = h[2 + i - 1]
    BY <1>1, <1>2, SubSeqProperties
  <2>2. \A i \in 1..(n - 1) : 2 + i - 1 = i + 1
    BY <1>1
  <2>3. n - 2 + 1 = n - 1 /\ (2 <= n \/ n - 1 = 0)
    BY <1>1
  <2>4. \A i \in 1..(n - 1) : b[i] = h[i + 1]
    BY <2>1, <2>2, <2>3
  <2>5. QED BY <2>1, <2>3, <2>4
<1> HIDE DEF a, b
<1>5. c \in Seq(Message) /\ Len(c) = 2 /\ c[1] = h[1] /\ c[2] = m
  <2>1. <<m>> \in Seq(Message) /\ Len(<<m>>) = 1 /\ <<m>>[1] = m
    OBVIOUS
  <2>2. /\ a \o <<m>> \in Seq(Message)
        /\ Len(a \o <<m>>) = Len(a) + Len(<<m>>)
        /\ \A i \in 1..(Len(a) + Len(<<m>>)) :
              (a \o <<m>>)[i] = IF i <= Len(a) THEN a[i] ELSE <<m>>[i - Len(a)]
    BY <1>3, <2>1, ConcatProperties
  <2>3. QED BY <1>3, <2>1, <2>2
<1> HIDE DEF c
<1>6. /\ p \in Seq(Message)
      /\ Len(p) = n + 1
      /\ \A i \in 1..(n + 1) : p[i] = IF i <= 2 THEN c[i] ELSE b[i - 2]
  <2>1. /\ c \o b \in Seq(Message)
        /\ Len(c \o b) = Len(c) + Len(b)
        /\ \A i \in 1..(Len(c) + Len(b)) :
              (c \o b)[i] = IF i <= Len(c) THEN c[i] ELSE b[i - Len(c)]
    BY <1>4, <1>5, ConcatProperties
  <2>2. Len(c) + Len(b) = n + 1 /\ Len(c) = 2
    BY <1>1, <1>4, <1>5
  <2>3. QED BY <2>1, <2>2
<1>7. DOMAIN p = 1..(n + 1)
  BY <1>6, LenProperties
<1>8. InsertAt(h, 2, m) = p
  BY DEF InsertAt, c, a, b
<1> HIDE DEF p
<1>9. \A i \in 3..(n + 1) : p[i] = h[i - 1]
  <2> TAKE i \in 3..(n + 1)
  <2>1. p[i] = b[i - 2] /\ i - 2 \in 1..(n - 1) /\ (i - 2) + 1 = i - 1
    BY <1>1, <1>6
  <2>2. QED BY <2>1, <1>4
<1>10. p[1] = h[1] /\ p[2] = m
  BY <1>1, <1>5, <1>6
<1> QED
  BY <1>6, <1>8, <1>9, <1>10

\* inject_long_term_memory: an insert behind the first message, when that one
\* makes no call.
LEMMA InsertSecondKeepsPaired ==
    ASSUME NEW h \in Seq(Message), NEW m \in Message,
           Paired(h), h # <<>>, h[1].role # "call", m.role # "results"
    PROVE  /\ InsertAt(h, 2, m) \in Seq(Message)
           /\ InsertAt(h, 2, m) # <<>>
           /\ InsertAt(h, 2, m)[1] = h[1]
           /\ Paired(InsertAt(h, 2, m))
<1> DEFINE p == InsertAt(h, 2, m)
           n == Len(h)
<1>1. n \in Nat /\ n >= 1 /\ DOMAIN h = 1..n
  BY LenProperties, EmptySeq
<1>2. p \in Seq(Message) /\ Len(p) = n + 1
  BY InsertSecond
<1>3. DOMAIN p = 1..(n + 1)
  BY <1>2, LenProperties
<1>4. \A i \in 3..(n + 1) : p[i] = h[i - 1]
  BY InsertSecond
<1>5. p[1] = h[1] /\ p[2] = m
  BY InsertSecond
<1> HIDE DEF p
<1>6. ASSUME NEW i \in DOMAIN p, p[i].role = "results"
      PROVE  i > 1 /\ p[i - 1] = CallMsg(p[i].ids)
  <2>1. i # 1
    BY <1>1, <1>5, <1>6 DEF Paired
  <2>2. i # 2
    BY <1>5, <1>6
  <2>3. i \in 3..(n + 1) /\ p[i] = h[i - 1] /\ i - 1 \in DOMAIN h
    BY <2>1, <2>2, <1>1, <1>3, <1>4
  <2>4. i - 1 > 1 /\ h[(i - 1) - 1] = CallMsg(p[i].ids)
    BY <2>3, <1>6 DEF Paired
  <2>5. CASE i = 3
    <3>1. h[1] = CallMsg(p[i].ids)
      BY <2>4, <2>5
    <3>2. QED BY <3>1 DEF CallMsg
  <2>6. CASE i > 3
    <3>1. p[i - 1] = h[(i - 1) - 1]
      BY <2>6, <2>3, <1>4, <1>1
    <3>2. QED BY <3>1, <2>4, <2>3
  <2>7. QED BY <2>3, <2>5, <2>6, <1>1
<1>7. p # <<>>
  BY <1>1, <1>2, EmptySeq
<1>8. QED BY <1>2, <1>5, <1>6, <1>7 DEF Paired, p

-----------------------------------------------------------------------------

\* A history that starts with a message that calls no tool.
HeadIsNoCall(h) == h # <<>> => h[1].role # "call"

\* A text is a message that has no ids.
LEMMA TextIsMessage ==
    ASSUME NEW role \in Role
    PROVE  Text(role) \in Message /\ Text(role).role = role
  BY DEF Text, Message

\* Injecting the environment keeps pairing and leaves a history with a head.
LEMMA InjectEnvKeepsPaired ==
    ASSUME NEW h \in Seq(Message), NEW injected \in BOOLEAN,
           Paired(h), HeadIsNoCall(h)
    PROVE  /\ InjectEnv(h, injected) \in Seq(Message)
           /\ Paired(InjectEnv(h, injected))
           /\ HeadIsNoCall(InjectEnv(h, injected))
<1>1. Text("env") \in Message /\ Text("env").role = "env"
  BY TextIsMessage DEF Role
<1>2. CASE injected
  BY <1>2 DEF InjectEnv
<1>3. CASE ~injected
  BY <1>1, <1>3, PrependKeepsPaired DEF InjectEnv, HeadIsNoCall
<1>4. QED BY <1>2, <1>3

\* Injecting instructions and memories keeps pairing, at either position.
LEMMA InjectLtmKeepsPaired ==
    ASSUME NEW h \in Seq(Message), NEW envInjected \in BOOLEAN,
           NEW injected \in BOOLEAN, NEW hasMemory \in BOOLEAN,
           Paired(h), HeadIsNoCall(h)
    PROVE  LET r == InjectLtm(h, envInjected, injected, hasMemory)
           IN r \in Seq(Message) /\ Paired(r) /\ HeadIsNoCall(r)
<1>1. Text("ltm") \in Message /\ Text("ltm").role = "ltm"
  BY TextIsMessage DEF Role
<1>2. CASE injected \/ ~hasMemory
  BY <1>2 DEF InjectLtm
<1>3. CASE ~(injected \/ ~hasMemory) /\ envInjected /\ h # <<>>
  BY <1>1, <1>3, InsertSecondKeepsPaired DEF InjectLtm, HeadIsNoCall
<1>4. CASE ~(injected \/ ~hasMemory) /\ ~(envInjected /\ h # <<>>)
  BY <1>1, <1>4, PrependKeepsPaired DEF InjectLtm, HeadIsNoCall
<1>5. QED BY <1>2, <1>3, <1>4

\* The aligned start of the kept tail is a message of the history that carries
\* no results.
LEMMA KeepStartsAtNoResult ==
    ASSUME NEW h \in Seq(Message), NEW minKeep \in Nat,
           NEW s \in KeepStarts(h, minKeep), Paired(h)
    PROVE  s \in 1..Len(h) /\ h[s].role # "results"
<1>1. PICK raw \in DOMAIN h : s = AlignKeepStart(h, raw)
  BY DEF KeepStarts, RawKeepStarts
<1>2. DOMAIN h = 1..Len(h) /\ Len(h) \in Nat
  BY LenProperties
<1>3. CASE h[raw].role = "results"
  <2>1. raw > 1 /\ h[raw - 1] = CallMsg(h[raw].ids)
    BY <1>3 DEF Paired
  <2>2. h[raw - 1].role = "call"
    BY <2>1 DEF CallMsg
  <2>3. s = raw - 1
    BY <1>1, <1>3, <2>1, <2>2 DEF AlignKeepStart
  <2>4. QED BY <2>1, <2>2, <2>3, <1>2
<1>4. CASE h[raw].role # "results"
  BY <1>1, <1>2, <1>4 DEF AlignKeepStart
<1>5. QED BY <1>3, <1>4

-----------------------------------------------------------------------------
(* The operators return histories, whatever the pairing.                   *)

\* A part of a history is a history.
LEMMA SubSeqType ==
    ASSUME NEW h \in Seq(Message), NEW m \in 1..(Len(h) + 1), NEW n \in 0..Len(h)
    PROVE  SubSeq(h, m, n) \in Seq(Message)
<1>1. Len(h) \in Nat
  BY LenProperties
<1>2. \A i \in m..n : h[i] \in Message
  BY <1>1, ElementOfSeq
<1>3. QED BY <1>1, <1>2, SubSeqProperties

\* Injecting the environment leaves a history.
LEMMA InjectEnvType ==
    ASSUME NEW h \in Seq(Message), NEW injected \in BOOLEAN
    PROVE  InjectEnv(h, injected) \in Seq(Message)
<1>1. <<Text("env")>> \in Seq(Message)
  BY TextIsMessage DEF Role
<1>2. QED BY <1>1, ConcatProperties DEF InjectEnv

\* Injecting the memory leaves a history.
LEMMA InjectLtmType ==
    ASSUME NEW h \in Seq(Message), NEW envInjected \in BOOLEAN,
           NEW injected \in BOOLEAN, NEW hasMemory \in BOOLEAN
    PROVE  InjectLtm(h, envInjected, injected, hasMemory) \in Seq(Message)
<1>1. <<Text("ltm")>> \in Seq(Message)
  BY TextIsMessage DEF Role
<1>2. <<Text("ltm")>> \o h \in Seq(Message)
  BY <1>1, ConcatProperties
<1>3. ASSUME h # <<>>
      PROVE  InsertAt(h, 2, Text("ltm")) \in Seq(Message)
  <2>1. Len(h) \in Nat /\ Len(h) >= 1
    BY <1>3, LenProperties, EmptySeq
  <2>2. SubSeq(h, 1, 1) \in Seq(Message) /\ SubSeq(h, 2, Len(h)) \in Seq(Message)
    BY <2>1, SubSeqType
  <2>3. QED BY <1>1, <2>2, ConcatProperties DEF InsertAt
<1>4. QED BY <1>2, <1>3 DEF InjectLtm

\* The tail a compaction keeps starts within the history.
LEMMA KeepStartsType ==
    ASSUME NEW h \in Seq(Message), NEW minKeep \in Nat,
           NEW s \in KeepStarts(h, minKeep)
    PROVE  s \in 1..Len(h)
<1>1. DOMAIN h = 1..Len(h) /\ Len(h) \in Nat
  BY LenProperties
<1>2. PICK raw \in DOMAIN h : s = AlignKeepStart(h, raw)
  BY DEF KeepStarts, RawKeepStarts
<1>3. QED BY <1>1, <1>2 DEF AlignKeepStart

\* Dropping the oldest round of a prompt leaves a history.
LEMMA WithoutOldestGroupType ==
    ASSUME NEW p \in Seq(Message), NEW q \in WithoutOldestGroup(p)
    PROVE  q \in Seq(Message)
<1>1. CASE p = <<>>
  BY <1>1 DEF WithoutOldestGroup
<1>2. CASE p # <<>>
  <2>1. DOMAIN p = 1..Len(p) /\ Len(p) \in Nat
    BY LenProperties
  <2>2. PICK i \in DOMAIN p : q = SubSeq(p, i + 1, Len(p))
    BY <1>2 DEF WithoutOldestGroup
  <2>3. QED BY <2>1, <2>2, SubSeqType
<1>3. QED BY <1>1, <1>2

-----------------------------------------------------------------------------
(* What is sent to the model.  A history can be made a request when each   *)
(* call message has calls of its own.                                      *)

CallsDiffer(h) ==
    \A i \in DOMAIN h : h[i].role = "call" =>
        /\ h[i].ids # {}
        /\ \A j \in DOMAIN h \ {i} : h[j].role = "call" => h[i].ids \cap h[j].ids = {}

\* The call messages of g all come from different places of h.
LEMMA PartDiffers ==
    ASSUME NEW h, CallsDiffer(h), NEW g, NEW from,
           \A i \in DOMAIN g : g[i].role = "call" =>
               /\ from[i] \in DOMAIN h /\ g[i] = h[from[i]]
               /\ \A j \in DOMAIN g : from[j] = from[i] => i = j
    PROVE  CallsDiffer(g)
<1> SUFFICES ASSUME NEW i \in DOMAIN g, g[i].role = "call"
             PROVE  /\ g[i].ids # {}
                    /\ \A j \in DOMAIN g \ {i} :
                          g[j].role = "call" => g[i].ids \cap g[j].ids = {}
  BY DEF CallsDiffer
<1>1. from[i] \in DOMAIN h /\ g[i] = h[from[i]]
  OBVIOUS
<1>2. h[from[i]].role = "call"
  BY <1>1
<1>3. ASSUME NEW j \in DOMAIN g \ {i}, g[j].role = "call"
      PROVE  g[i].ids \cap g[j].ids = {}
  <2>1. from[j] \in DOMAIN h \ {from[i]} /\ g[j] = h[from[j]]
    BY <1>3
  <2> QED
    BY <1>1, <1>2, <1>3, <2>1 DEF CallsDiffer
<1> QED
  BY <1>1, <1>2, <1>3 DEF CallsDiffer

\* A message that makes no call, or calls nothing before refers to, is appended.
LEMMA AppendDiffers ==
    ASSUME NEW h \in Seq(Message), CallsDiffer(h), NEW m \in Message,
           m.role = "call" => /\ m.ids # {}
                              /\ \A i \in DOMAIN h : m.ids \cap h[i].ids = {}
    PROVE  CallsDiffer(Append(h, m))
<1> DEFINE a == Append(h, m)
           n == Len(h)
<1>1. n \in Nat /\ DOMAIN h = 1..n
  BY LenProperties
<1>2. DOMAIN a = 1..(n + 1) /\ a[n + 1] = m /\ \A i \in 1..n : a[i] = h[i]
  BY AppendProperties, LenProperties
<1> HIDE DEF a
<1>3. \A i \in DOMAIN a : i \in 1..n \/ i = n + 1
  BY <1>1, <1>2
<1> SUFFICES ASSUME NEW i \in DOMAIN a, a[i].role = "call"
             PROVE  /\ a[i].ids # {}
                    /\ \A j \in DOMAIN a \ {i} :
                          a[j].role = "call" => a[i].ids \cap a[j].ids = {}
  BY DEF CallsDiffer, a
<1>4. CASE i = n + 1
  <2>1. a[i].ids # {} /\ \A j \in 1..n : a[i].ids \cap h[j].ids = {}
    BY <1>1, <1>2, <1>4
  <2> QED
    BY <1>2, <1>3, <1>4, <2>1
<1>5. CASE i \in 1..n
  <2>1. h[i].role = "call" /\ h[i].ids # {} /\ a[i] = h[i]
    BY <1>1, <1>2, <1>5 DEF CallsDiffer
  <2>2. ASSUME NEW j \in 1..n, j # i, h[j].role = "call"
        PROVE  h[i].ids \cap h[j].ids = {}
    BY <1>1, <1>5, <2>1, <2>2 DEF CallsDiffer
  <2>3. m.role = "call" => h[i].ids \cap m.ids = {}
    BY <1>1, <1>5
  <2> QED
    BY <1>2, <1>3, <2>1, <2>2, <2>3
<1> QED
  BY <1>3, <1>4, <1>5

\* Cutting a part out of a history, prepending to it and inserting a message.
LEMMA SubSeqDiffers ==
    ASSUME NEW h \in Seq(Message), CallsDiffer(h),
           NEW m \in 1..(Len(h) + 1), NEW n \in 0..Len(h)
    PROVE  CallsDiffer(SubSeq(h, m, n))
<1> DEFINE g == SubSeq(h, m, n)
           from == [i \in DOMAIN g |-> m + i - 1]
<1>1. Len(h) \in Nat /\ DOMAIN h = 1..Len(h) /\ \A i \in m..n : h[i] \in Message
  BY LenProperties, ElementOfSeq
<1>2. /\ g \in Seq(Message) /\ Len(g) = IF m <= n THEN n - m + 1 ELSE 0
      /\ \A i \in 1..(n - m + 1) : g[i] = h[m + i - 1]
  BY <1>1, SubSeqProperties
<1>3. DOMAIN g = 1..Len(g)
  BY <1>2, LenProperties
<1> HIDE DEF g
<1>4. \A i \in DOMAIN g : i \in 1..(n - m + 1) /\ m + i - 1 \in 1..Len(h) /\ i \in Nat
  BY <1>1, <1>2, <1>3
<1>5. \A i \in DOMAIN g : from[i] \in DOMAIN h /\ g[i] = h[from[i]]
  BY <1>1, <1>2, <1>4
<1>6. \A i, j \in DOMAIN g : from[j] = from[i] => i = j
  BY <1>4
<1> HIDE DEF from
<1>7. CallsDiffer(g)
  BY <1>5, <1>6, PartDiffers
<1> QED
  BY <1>7 DEF g

\* A text in front repeats no call.
LEMMA PrependDiffers ==
    ASSUME NEW h \in Seq(Message), CallsDiffer(h), NEW m \in Message, m.role # "call"
    PROVE  CallsDiffer(<<m>> \o h)
<1> DEFINE g == <<m>> \o h
           from == [i \in DOMAIN g |-> i - 1]
<1>1. <<m>> \in Seq(Message) /\ Len(<<m>>) = 1
  OBVIOUS
<1>2. /\ g \in Seq(Message) /\ Len(g) = Len(h) + 1
      /\ \A i \in 1..Len(g) : g[i] = IF i = 1 THEN m ELSE h[i - 1]
  BY <1>1, ConcatProperties, LenProperties
<1>3. Len(h) \in Nat /\ DOMAIN h = 1..Len(h) /\ DOMAIN g = 1..(Len(h) + 1)
  BY <1>2, LenProperties
<1> HIDE DEF g
<1>4. \A i \in DOMAIN g : g[i].role = "call" => i # 1
  BY <1>2, <1>3
<1>5. \A i \in DOMAIN g : g[i].role = "call" => from[i] \in DOMAIN h /\ g[i] = h[from[i]]
  BY <1>2, <1>3, <1>4
<1>6. \A i, j \in DOMAIN g : from[j] = from[i] => i = j
  BY <1>3
<1> HIDE DEF from
<1>7. CallsDiffer(g)
  BY <1>5, <1>6, PartDiffers
<1> QED
  BY <1>7 DEF g

\* A text behind the first message repeats no call.
LEMMA InsertDiffers ==
    ASSUME NEW h \in Seq(Message), CallsDiffer(h), h # <<>>,
           NEW m \in Message, m.role # "call"
    PROVE  CallsDiffer(InsertAt(h, 2, m))
<1> DEFINE g == InsertAt(h, 2, m)
           from == [i \in DOMAIN g |-> IF i = 1 THEN 1 ELSE IF i = 2 THEN 0 ELSE i - 1]
<1>1. /\ g \in Seq(Message) /\ Len(g) = Len(h) + 1 /\ g[1] = h[1] /\ g[2] = m
      /\ \A i \in 3..(Len(h) + 1) : g[i] = h[i - 1]
  BY InsertSecond
<1>2. /\ Len(h) \in Nat /\ Len(h) >= 1 /\ DOMAIN h = 1..Len(h)
      /\ DOMAIN g = 1..(Len(h) + 1)
  BY <1>1, LenProperties, EmptySeq
<1> HIDE DEF g
<1>3. \A i \in DOMAIN g : g[i].role = "call" => i = 1 \/ i \in 3..(Len(h) + 1)
  BY <1>1, <1>2
<1>4. \A i \in DOMAIN g : g[i].role = "call" => from[i] \in DOMAIN h /\ g[i] = h[from[i]]
  BY <1>1, <1>2, <1>3
<1>5. \A i, j \in DOMAIN g : from[j] = from[i] => i = j
  BY <1>2
<1> HIDE DEF from
<1>6. CallsDiffer(g)
  BY <1>4, <1>5, PartDiffers
<1> QED
  BY <1>6 DEF g

\* A text in front of a history is a history.
LEMMA PrependIsHistory ==
    ASSUME NEW h \in Seq(Message), NEW m \in Message
    PROVE  <<m>> \o h \in Seq(Message)
<1>1. <<m>> \in Seq(Message)
  OBVIOUS
<1> QED
  BY <1>1, ConcatProperties

\* Injecting the context, in both forms.
LEMMA InjectionDiffers ==
    ASSUME NEW h \in Seq(Message), CallsDiffer(h), NEW env \in BOOLEAN,
           NEW ltm \in BOOLEAN, NEW memory \in BOOLEAN
    PROVE  /\ CallsDiffer(InjectEnv(h, env))
           /\ CallsDiffer(InjectLtm(InjectEnv(h, env), TRUE, ltm, memory))
<1>1. /\ Text("env") \in Message /\ Text("env").role # "call"
      /\ Text("ltm") \in Message /\ Text("ltm").role # "call"
  BY TextIsMessage DEF Role
<1>2. CallsDiffer(InjectEnv(h, env)) /\ InjectEnv(h, env) \in Seq(Message)
  BY <1>1, PrependDiffers, InjectEnvType DEF InjectEnv
<1> HIDE DEF InjectEnv
<1>3. CallsDiffer(InjectLtm(InjectEnv(h, env), TRUE, ltm, memory))
  BY <1>1, <1>2, PrependDiffers, InsertDiffers DEF InjectLtm
<1> QED
  BY <1>2, <1>3

\* Dropping the oldest turns of a summary request cuts no pair: a turn ends with a
\* message that makes no call.
LEMMA OldestGroupCutsNoPair ==
    ASSUME NEW p \in Seq(Message), Paired(p), CallsDiffer(p), NEW q \in WithoutOldestGroup(p)
    PROVE  Paired(q) /\ CallsDiffer(q)
<1>1. CASE p = <<>>
  BY <1>1 DEF WithoutOldestGroup
<1>2. CASE p # <<>>
  <2>1. DOMAIN p = 1..Len(p) /\ Len(p) \in Nat
    BY LenProperties
  <2>2. PICK i \in DOMAIN p :
           q = SubSeq(p, i + 1, Len(p)) /\ (p[i].role = "assistant" \/ i = Len(p))
    BY <1>2 DEF WithoutOldestGroup
  <2>3. CallsDiffer(q)
    BY <2>1, <2>2, SubSeqDiffers
  <2>4. CASE i = Len(p)
    <3>1. q = <<>>
      BY <2>1, <2>2, <2>4
    <3> QED
      BY <2>3, <3>1 DEF Paired
  <2>5. CASE i # Len(p)
    <3>1. i + 1 \in 1..Len(p) /\ (i + 1) - 1 = i /\ p[i].role = "assistant"
      BY <2>1, <2>2, <2>5
    <3>2. p[i + 1].role # "results"
      <4>1. \A x : CallMsg(x).role = "call"
        BY DEF CallMsg
      <4> QED
        BY <2>1, <3>1, <4>1 DEF Paired
    <3> QED
      BY <2>2, <2>3, <3>1, <3>2, SuffixKeepsPaired DEF KeptTail
  <2> QED
    BY <2>4, <2>5
<1> QED
  BY <1>1, <1>2

\* A non-empty set of numbers has a least one.
LEMMA Least ==
    ASSUME NEW T, T \subseteq Nat, T # {}
    PROVE  \E x \in T : \A y \in T : x <= y
<1>1. PICK x \in T : \A y \in T : <<y, x>> \notin OpToRel(<, Nat)
  BY NatLessThanWellFounded, WFMin
<1>2. \A y \in T : ~(y < x)
  BY <1>1 DEF OpToRel
<1> QED
  BY <1>2

\* A function that is given by its first value and a step for each argument.
LEMMA Recursion ==
    ASSUME NEW S, NEW first \in S, NEW n \in Nat, NEW step \in [1..n -> [S -> S]]
    PROVE  \E g \in [0..n -> S] :
              g[0] = first /\ \A i \in 1..n : g[i] = step[i][g[i - 1]]
<1> DEFINE Upto(k) == \E g \in [0..k -> S] :
                         g[0] = first /\ \A i \in 1..k : g[i] = step[i][g[i - 1]]
           Wrong == {k \in 0..n : ~Upto(k)}
<1>1. SUFFICES ASSUME Wrong # {} PROVE FALSE
  <2>1. n \in 0..n
    OBVIOUS
  <2> QED
    BY <2>1
<1>2. Wrong \subseteq Nat
  OBVIOUS
<1> HIDE DEF Wrong
<1>3. PICK k \in Wrong : \A j \in Wrong : k <= j
  BY <1>1, <1>2, Least
<1>4. k \in 0..n /\ ~Upto(k)
  BY <1>3 DEF Wrong
<1>5. k # 0
  <2> DEFINE g == [i \in 0..0 |-> first]
  <2>1. g \in [0..0 -> S] /\ g[0] = first /\ \A i \in 1..0 : g[i] = step[i][g[i - 1]]
    OBVIOUS
  <2>2. Upto(0)
    BY <2>1
  <2> QED
    BY <1>4, <2>2
<1>6. Upto(k - 1)
  <2>1. k - 1 \in 0..n /\ ~(k <= k - 1)
    BY <1>4, <1>5
  <2>2. k - 1 \notin Wrong
    BY <1>3, <2>1
  <2> QED
    BY <2>1, <2>2 DEF Wrong
<1>7. PICK g \in [0..(k - 1) -> S] :
          g[0] = first /\ \A i \in 1..(k - 1) : g[i] = step[i][g[i - 1]]
  BY <1>6
<1>8. k \in 1..n /\ k - 1 \in 0..(k - 1)
  BY <1>4, <1>5
<1> DEFINE next == step[k][g[k - 1]]
           h == [i \in 0..k |-> IF i = k THEN next ELSE g[i]]
<1>9. next \in S
  BY <1>7, <1>8
<1>10. h[k] = next /\ h[k - 1] = g[k - 1] /\ h[0] = first
  BY <1>7, <1>8
<1>11. h \in [0..k -> S]
  <2>1. ASSUME NEW i \in 0..k
        PROVE  (IF i = k THEN next ELSE g[i]) \in S
    <3>1. CASE i = k
      BY <1>9, <3>1
    <3>2. CASE i # k
      BY <1>7, <1>8, <3>2
    <3> QED
      BY <3>1, <3>2
  <2> QED
    BY <2>1
<1>12. ASSUME NEW i \in 1..k
       PROVE  h[i] = step[i][h[i - 1]]
  <2>1. CASE i = k
    BY <1>10, <2>1
  <2>2. CASE i # k
    <3>1. i \in 1..(k - 1) /\ i - 1 \in 0..(k - 1) /\ i - 1 # k /\ i \in 0..k /\ i - 1 \in 0..k
      BY <1>8, <2>2
    <3> QED
      BY <1>7, <2>2, <3>1
  <2> QED
    BY <2>1, <2>2
<1> HIDE DEF h
<1>13. Upto(k)
  BY <1>10, <1>11, <1>12
<1> QED
  BY <1>4, <1>13

\* FilterUnresolved goes through the history message by message.
Stripped(h, m) == IF m.role = "call" THEN CallMsg(m.ids \cap AnsweredIds(h)) ELSE m

\* A message without its unanswered calls is a message.
LEMMA StrippedType ==
    ASSUME NEW h, NEW m \in Message
    PROVE  /\ Stripped(h, m) \in Message /\ Stripped(h, m).role = m.role
           /\ m.role # "call" => Stripped(h, m) = m /\ Stripped(h, m) # CallMsg({})
  BY DEF Stripped, Message, CallMsg, Role

\* FilterUnresolved takes the history message by message.
LEMMA FilterSteps ==
    ASSUME NEW h \in Seq(Message)
    PROVE  \E f \in [0..Len(h) -> Seq(Message)] :
              /\ f[0] = <<>> /\ FilterUnresolved(h) = f[Len(h)]
              /\ \A n \in 1..Len(h) :
                    f[n] = IF Stripped(h, h[n]) = CallMsg({}) THEN f[n - 1]
                           ELSE Append(f[n - 1], Stripped(h, h[n]))
<1> DEFINE S == Seq(Message)
           N == Len(h)
           Step(r, n) == IF Stripped(h, h[n]) = CallMsg({}) THEN r
                         ELSE Append(r, Stripped(h, h[n]))
           Body(f) == [n \in 0..N |-> IF n = 0 THEN <<>> ELSE Step(f[n - 1], n)]
           step == [n \in 1..N |-> [r \in S |-> Step(r, n)]]
<1>1. N \in Nat /\ \A n \in 1..N : h[n] \in Message
  BY LenProperties, ElementOfSeq
<1>2. \A n \in 1..N : \A r \in S : Step(r, n) \in S
  BY <1>1, StrippedType, AppendProperties
<1> HIDE DEF Step
<1>3. step \in [1..N -> [S -> S]]
  BY <1>2
<1>4. PICK g \in [0..N -> S] : g[0] = <<>> /\ \A n \in 1..N : g[n] = step[n][g[n - 1]]
  <2> HIDE DEF step
  <2>1. <<>> \in S /\ N \in Nat
    BY <1>1
  <2> HIDE DEF S, N
  <2> QED
    BY <1>3, <2>1, Recursion
<1>5. \A n \in 1..N : g[n] = Step(g[n - 1], n)
  <2> TAKE n \in 1..N
  <2>1. n - 1 \in 0..N
    BY <1>1
  <2>2. g[n - 1] \in S
    BY <1>4, <2>1
  <2> QED
    BY <1>4, <2>2
<1>6. g = Body(g)
  <2>1. ASSUME NEW n \in 0..N
        PROVE  g[n] = IF n = 0 THEN <<>> ELSE Step(g[n - 1], n)
    BY <1>1, <1>4, <1>5
  <2> QED
    BY <1>4, <2>1
<1> DEFINE filtered == CHOOSE f : f = Body(f)
<1>7. filtered = Body(filtered)
  <2>1. \E f : f = Body(f)
    BY <1>6
  <2> HIDE DEF Body
  <2> QED
    BY <2>1
<1>8. FilterUnresolved(h) = filtered[N]
  BY DEF FilterUnresolved, Stripped, Step
<1> HIDE DEF filtered
<1>9. filtered[0] = <<>> /\ \A n \in 1..N : filtered[n] = Step(filtered[n - 1], n)
  BY <1>1, <1>7
<1> DEFINE Wrong == {n \in 0..N : filtered[n] \notin S}
<1>10. Wrong = {}
  <2> SUFFICES ASSUME Wrong # {} PROVE FALSE
    OBVIOUS
  <2>1. PICK k \in Wrong : \A j \in Wrong : k <= j
    <3>1. Wrong \subseteq Nat /\ Wrong # {}
      BY <1>1
    <3> HIDE DEF Wrong
    <3> QED
      BY <3>1, Least
  <2>2. k \in 0..N /\ filtered[k] \notin S /\ k # 0
    <3>1. k \in 0..N /\ filtered[k] \notin S
      OBVIOUS
    <3>2. filtered[0] \in S
      BY <1>9
    <3> QED
      BY <3>1, <3>2
  <2>3. k \in 1..N /\ k - 1 \in 0..N /\ ~(k <= k - 1)
    BY <1>1, <2>2
  <2>4. filtered[k - 1] \in S
    BY <2>1, <2>3
  <2> QED
    BY <1>2, <1>9, <2>2, <2>3, <2>4
<1>11. filtered \in [0..N -> S]
  BY <1>7, <1>10
<1> QED
  BY <1>8, <1>9, <1>11 DEF Step

\* A call message of which something is left has its results behind it, and is sent
\* as it is.
LEMMA KeptCallIsAnswered ==
    ASSUME NEW h \in Seq(Message), Paired(h), CallsDiffer(h),
           NEW i \in 1..Len(h), h[i].role = "call", Stripped(h, h[i]) # CallMsg({})
    PROVE  /\ i + 1 \in 1..Len(h) /\ h[i + 1] = ResultsMsg(h[i].ids)
           /\ Stripped(h, h[i]) = h[i]
<1>1. DOMAIN h = 1..Len(h) /\ Len(h) \in Nat
  BY LenProperties
<1>2. PICK id \in h[i].ids : id \in AnsweredIds(h)
  BY DEF Stripped
<1>3. PICK j \in DOMAIN h : h[j].role = "results" /\ id \in h[j].ids
  BY <1>2 DEF AnsweredIds
<1>4. j > 1 /\ h[j - 1] = CallMsg(h[j].ids)
  BY <1>3 DEF Paired
<1>5. j - 1 \in DOMAIN h /\ h[j - 1].role = "call" /\ id \in h[j - 1].ids
  BY <1>1, <1>3, <1>4 DEF CallMsg
<1>6. j - 1 = i
  BY <1>1, <1>2, <1>5 DEF CallsDiffer
<1>7. h[i].ids = h[j].ids /\ h[i] = CallMsg(h[i].ids)
  BY <1>4, <1>6 DEF CallMsg
<1>8. h[j] = ResultsMsg(h[j].ids)
  <2>1. h[j] \in Message
    BY <1>1, ElementOfSeq
  <2> QED
    BY <1>3, <2>1 DEF Message, ResultsMsg
<1>9. h[i].ids \cap AnsweredIds(h) = h[i].ids
  BY <1>3, <1>7 DEF AnsweredIds
<1>10. Stripped(h, h[i]) = h[i]
  BY <1>7, <1>9 DEF Stripped
<1>11. i + 1 = j /\ j \in 1..Len(h)
  BY <1>1, <1>3, <1>6
<1> QED
  BY <1>7, <1>8, <1>10, <1>11

\* The call message before results is sent as it is.
LEMMA CallOfResultsIsKept ==
    ASSUME NEW h \in Seq(Message), Paired(h), CallsDiffer(h),
           NEW i \in 1..Len(h), h[i].role = "results"
    PROVE  /\ i - 1 \in 1..Len(h) /\ h[i - 1] = CallMsg(h[i].ids)
           /\ Stripped(h, h[i - 1]) = h[i - 1] /\ h[i - 1] # CallMsg({})
<1>1. DOMAIN h = 1..Len(h) /\ Len(h) \in Nat
  BY LenProperties
<1>2. i > 1 /\ h[i - 1] = CallMsg(h[i].ids)
  BY <1>1 DEF Paired
<1>3. i - 1 \in 1..Len(h)
  BY <1>1, <1>2
<1>4. h[i - 1].role = "call" /\ h[i - 1].ids = h[i].ids
  BY <1>2 DEF CallMsg
<1>5. h[i].ids # {}
  BY <1>1, <1>3, <1>4 DEF CallsDiffer
<1>6. h[i].ids \cap AnsweredIds(h) = h[i].ids
  BY <1>1 DEF AnsweredIds
<1>7. CallMsg(h[i].ids) # CallMsg({})
  <2>1. CallMsg(h[i].ids).ids = h[i].ids /\ CallMsg({}).ids = {}
    BY DEF CallMsg
  <2> QED
    BY <1>5, <2>1
<1> QED
  BY <1>2, <1>3, <1>4, <1>6, <1>7 DEF Stripped

\* A beginning of a well-formed request: only its last message may lack results.
Begins(r) ==
    \A i \in 1..Len(r) :
        /\ r[i].role = "call" => i = Len(r) \/ r[i + 1] = ResultsMsg(r[i].ids)
        /\ r[i].role = "results" => i > 1 /\ r[i - 1] = CallMsg(r[i].ids)

\* A beginning is still one after a message is appended.
LEMMA AppendBegins ==
    ASSUME NEW r \in Seq(Message), Begins(r), NEW m \in Message,
           r # <<>> /\ r[Len(r)].role = "call" => m = ResultsMsg(r[Len(r)].ids),
           m.role = "results" => r # <<>> /\ r[Len(r)] = CallMsg(m.ids)
    PROVE  Begins(Append(r, m))
<1> DEFINE a == Append(r, m)
           n == Len(r)
<1>1. n \in Nat /\ (r # <<>> => n >= 1) /\ (n >= 1 => r # <<>>)
  BY LenProperties, EmptySeq
<1>2. Len(a) = n + 1 /\ a[n + 1] = m /\ \A i \in 1..n : a[i] = r[i]
  BY AppendProperties, LenProperties
<1> HIDE DEF a
<1> SUFFICES ASSUME NEW i \in 1..(n + 1)
             PROVE  /\ a[i].role = "call" => i = n + 1 \/ a[i + 1] = ResultsMsg(a[i].ids)
                    /\ a[i].role = "results" => i > 1 /\ a[i - 1] = CallMsg(a[i].ids)
  BY <1>2 DEF Begins, a
<1>3. CASE i = n + 1
  <2>1. m.role = "results" => i > 1 /\ a[i - 1] = CallMsg(m.ids)
    <3> SUFFICES ASSUME m.role = "results" PROVE i > 1 /\ a[i - 1] = CallMsg(m.ids)
      OBVIOUS
    <3>1. n \in 1..n /\ i - 1 = n /\ r[n] = CallMsg(m.ids)
      BY <1>1, <1>3
    <3> QED
      BY <1>2, <1>3, <3>1
  <2> QED
    BY <1>2, <1>3, <2>1
<1>4. CASE i = n
  <2>1. i \in 1..n /\ a[i] = r[i] /\ a[i + 1] = m /\ r # <<>>
    BY <1>1, <1>2, <1>4
  <2>2. a[i].role = "results" => i > 1 /\ a[i - 1] = CallMsg(a[i].ids)
    BY <1>1, <1>2, <2>1 DEF Begins
  <2> QED
    BY <1>4, <2>1, <2>2
<1>5. CASE i \in 1..(n - 1)
  <2>1. i \in 1..n /\ i + 1 \in 1..n /\ i # n
    BY <1>1, <1>5
  <2>2. a[i] = r[i] /\ a[i + 1] = r[i + 1] /\ (i > 1 => a[i - 1] = r[i - 1])
    BY <1>1, <1>2, <2>1
  <2> QED
    BY <2>1, <2>2 DEF Begins
<1> QED
  BY <1>1, <1>3, <1>4, <1>5

\* What FilterUnresolved leaves of a history is a request that a provider accepts.
LEMMA FilteredIsWellFormed ==
    ASSUME NEW h \in Seq(Message), Paired(h), CallsDiffer(h)
    PROVE  WellFormedRequest(FilterUnresolved(h))
<1> DEFINE N == Len(h)
           Kept(n) == Stripped(h, h[n]) # CallMsg({})
<1>1. N \in Nat /\ \A n \in 1..N : h[n] \in Message
  BY LenProperties, ElementOfSeq
<1>2. PICK f \in [0..N -> Seq(Message)] :
         /\ f[0] = <<>> /\ FilterUnresolved(h) = f[N]
         /\ \A n \in 1..N : f[n] = IF ~Kept(n) THEN f[n - 1]
                                   ELSE Append(f[n - 1], Stripped(h, h[n]))
  BY FilterSteps
<1> DEFINE EndsWithCall(n) == f[n] # <<>> /\ f[n][Len(f[n])].role = "call"
           Right(n) == /\ Begins(f[n])
                       /\ EndsWithCall(n) => /\ n >= 1 /\ Kept(n) /\ h[n].role = "call"
                                             /\ f[n][Len(f[n])] = h[n]
           Wrong == {n \in 0..N : ~Right(n)}
<1>3. ASSUME NEW n \in 1..N, Kept(n)
      PROVE  /\ f[n - 1] \in Seq(Message) /\ f[n] = Append(f[n - 1], Stripped(h, h[n]))
             /\ Stripped(h, h[n]) \in Message /\ f[n] # <<>>
             /\ f[n][Len(f[n])] = Stripped(h, h[n])
  <2>1. n - 1 \in 0..N
    BY <1>1
  <2>2. /\ f[n - 1] \in Seq(Message) /\ f[n] = Append(f[n - 1], Stripped(h, h[n]))
        /\ Stripped(h, h[n]) \in Message
    BY <1>1, <1>2, <1>3, <2>1, StrippedType
  <2> QED
    BY <2>2, AppendProperties, LenProperties, EmptySeq
<1>4. Right(0)
  <2>1. Len(<<>>) = 0 /\ 1..0 = {}
    OBVIOUS
  <2> QED
    BY <1>2, <2>1 DEF Begins
<1>5. ASSUME NEW n \in 1..N, Right(n - 1)
      PROVE  Right(n)
  <2>1. n - 1 \in 0..N /\ (n - 1 >= 1 => n - 1 \in 1..N) /\ (n - 1) + 1 = n
    BY <1>1
  <2>2. EndsWithCall(n - 1) =>
           /\ h[n] = ResultsMsg(h[n - 1].ids) /\ h[n].role = "results"
           /\ f[n - 1][Len(f[n - 1])] = h[n - 1]
    <3> SUFFICES ASSUME EndsWithCall(n - 1)
                 PROVE  /\ h[n] = ResultsMsg(h[n - 1].ids) /\ h[n].role = "results"
                        /\ f[n - 1][Len(f[n - 1])] = h[n - 1]
      OBVIOUS
    <3>1. /\ n - 1 \in 1..N /\ Kept(n - 1) /\ h[n - 1].role = "call"
          /\ f[n - 1][Len(f[n - 1])] = h[n - 1]
      BY <1>5, <2>1
    <3>2. h[(n - 1) + 1] = ResultsMsg(h[n - 1].ids)
      BY <3>1, KeptCallIsAnswered
    <3>3. h[n] = ResultsMsg(h[n - 1].ids)
      BY <2>1, <3>2
    <3> QED
      BY <3>1, <3>3 DEF ResultsMsg
  <2>3. h[n].role # "call" => Stripped(h, h[n]) = h[n] /\ Kept(n)
    BY <1>1, StrippedType
  <2>4. Stripped(h, h[n]).role = h[n].role
    BY <1>1, StrippedType
  <2>5. CASE ~Kept(n)
    <3>1. f[n] = f[n - 1] /\ h[n].role = "call"
      BY <1>2, <2>3, <2>5
    <3>2. ~EndsWithCall(n - 1)
      BY <2>2, <3>1
    <3> QED
      BY <1>5, <3>1, <3>2
  <2>6. CASE Kept(n)
    <3> DEFINE m == Stripped(h, h[n])
    <3>1. /\ f[n - 1] \in Seq(Message) /\ f[n] = Append(f[n - 1], m) /\ m \in Message
          /\ f[n][Len(f[n])] = m
      BY <1>3, <2>6
    <3>2. m.role = "call" => m = h[n]
      BY <2>4, <2>6, KeptCallIsAnswered
    <3>3. m.role = "results" => f[n - 1] # <<>> /\ f[n - 1][Len(f[n - 1])] = CallMsg(m.ids)
      <4> SUFFICES ASSUME m.role = "results"
                   PROVE  f[n - 1] # <<>> /\ f[n - 1][Len(f[n - 1])] = CallMsg(m.ids)
        OBVIOUS
      <4>1. h[n].role = "results" /\ m = h[n]
        BY <2>3, <2>4
      <4>2. /\ n - 1 \in 1..N /\ h[n - 1] = CallMsg(m.ids)
            /\ Stripped(h, h[n - 1]) = h[n - 1] /\ Kept(n - 1)
        BY <4>1, CallOfResultsIsKept
      <4> QED
        BY <1>3, <4>2
    <3>4. EndsWithCall(n - 1) => m = ResultsMsg(f[n - 1][Len(f[n - 1])].ids)
      BY <2>2, <2>3
    <3>5. Begins(f[n])
      <4> HIDE DEF m
      <4> QED
        BY <1>5, <3>1, <3>3, <3>4, AppendBegins
    <3> QED
      BY <2>1, <2>4, <2>6, <3>1, <3>2, <3>5
  <2> QED
    BY <2>5, <2>6
<1>6. Wrong = {}
  <2> SUFFICES ASSUME Wrong # {} PROVE FALSE
    OBVIOUS
  <2>1. PICK k \in Wrong : \A j \in Wrong : k <= j
    <3>1. Wrong \subseteq Nat /\ Wrong # {}
      BY <1>1
    <3> HIDE DEF Wrong
    <3> QED
      BY <3>1, Least
  <2> HIDE DEF Right
  <2>2. k \in 0..N /\ ~Right(k) /\ k # 0
    BY <1>4
  <2>3. k \in 1..N /\ k - 1 \in 0..N /\ ~(k <= k - 1)
    BY <1>1, <2>2
  <2>4. Right(k - 1)
    BY <2>1, <2>3
  <2> QED
    BY <1>5, <2>2, <2>3, <2>4
<1>7. N \in 0..N /\ f[N] \in Seq(Message)
  BY <1>1
<1>8. Begins(f[N]) /\ ~EndsWithCall(N)
  <2>1. Right(N)
    <3> HIDE DEF Right
    <3> QED
      BY <1>6, <1>7
  <2>2. ~EndsWithCall(N)
    <3> SUFFICES ASSUME EndsWithCall(N) PROVE FALSE
      OBVIOUS
    <3>1. N \in 1..N /\ Kept(N) /\ h[N].role = "call"
      BY <1>1, <2>1
    <3>2. N + 1 \in 1..N
      BY <3>1, KeptCallIsAnswered
    <3> QED
      BY <1>1, <3>2
  <2> QED
    BY <2>1, <2>2
<1> DEFINE r == f[N]
<1>9. DOMAIN r = 1..Len(r) /\ Len(r) \in Nat /\ (Len(r) >= 1 => r # <<>>)
  BY <1>7, LenProperties, EmptySeq
<1>10. Begins(r) /\ ~(r # <<>> /\ r[Len(r)].role = "call")
  BY <1>8
<1> HIDE DEF r
<1>11. ASSUME NEW i \in DOMAIN r, r[i].role = "call"
       PROVE  i + 1 \in DOMAIN r /\ r[i + 1] = ResultsMsg(r[i].ids)
  <2>1. i \in 1..Len(r) /\ r # <<>>
    BY <1>9
  <2>2. i # Len(r)
    BY <1>10, <1>11, <2>1
  <2>3. r[i + 1] = ResultsMsg(r[i].ids)
    BY <1>10, <1>11, <2>1, <2>2 DEF Begins
  <2> QED
    BY <1>9, <2>1, <2>2, <2>3
<1>12. ASSUME NEW i \in DOMAIN r, r[i].role = "results"
       PROVE  i - 1 \in DOMAIN r /\ r[i - 1] = CallMsg(r[i].ids)
  <2>1. i \in 1..Len(r)
    BY <1>9
  <2>2. i > 1 /\ r[i - 1] = CallMsg(r[i].ids)
    BY <1>10, <1>12, <2>1 DEF Begins
  <2> QED
    BY <1>9, <2>1, <2>2
<1>13. WellFormedRequest(r)
  BY <1>11, <1>12 DEF WellFormedRequest
<1> QED
  BY <1>2, <1>13 DEF r

\* The messages a history starts with, as far as they make no call, are those its
\* request starts with.
LEMMA FilterKeepsHead ==
    ASSUME NEW h \in Seq(Message), NEW n \in 1..Len(h),
           \A i \in 1..n : h[i].role # "call"
    PROVE  /\ Len(FilterUnresolved(h)) \in Nat /\ Len(FilterUnresolved(h)) >= n
           /\ \A i \in 1..n : FilterUnresolved(h)[i] = h[i]
<1> DEFINE N == Len(h)
           Kept(k) == Stripped(h, h[k]) # CallMsg({})
<1>1. N \in Nat /\ (\A k \in 1..N : h[k] \in Message) /\ n \in Nat /\ n <= N
  BY LenProperties, ElementOfSeq
<1>2. PICK f \in [0..N -> Seq(Message)] :
         /\ f[0] = <<>> /\ FilterUnresolved(h) = f[N]
         /\ \A k \in 1..N : f[k] = IF ~Kept(k) THEN f[k - 1]
                                   ELSE Append(f[k - 1], Stripped(h, h[k]))
  BY FilterSteps
<1> DEFINE Right(k) == /\ k <= n => Len(f[k]) = k
                       /\ \A i \in 1..n : i <= k => i <= Len(f[k]) /\ f[k][i] = h[i]
           Wrong == {k \in 0..N : ~Right(k)}
<1>3. Right(0)
  <2>1. Len(<<>>) = 0 /\ \A i \in 1..n : ~(i <= 0)
    OBVIOUS
  <2> QED
    BY <1>2, <2>1
<1>4. ASSUME NEW k \in 1..N, Right(k - 1)
      PROVE  Right(k)
  <2>1. k - 1 \in 0..N /\ f[k - 1] \in Seq(Message) /\ Len(f[k - 1]) \in Nat
    <3>1. k - 1 \in 0..N
      BY <1>1
    <3>2. f[k - 1] \in Seq(Message)
      BY <1>2, <3>1
    <3> QED
      BY <3>1, <3>2, LenProperties
  <2>2. Stripped(h, h[k]) \in Message
    BY <1>1, StrippedType
  <2> DEFINE s == f[k - 1]
             m == Stripped(h, h[k])
             a == Append(s, m)
  <2>3. Len(a) = Len(s) + 1 /\ a[Len(s) + 1] = m /\ \A i \in 1..Len(s) : a[i] = s[i]
    <3> HIDE DEF s, m
    <3> QED
      BY <2>1, <2>2, AppendProperties, LenProperties DEF s, m
  <2>4. f[k] \in {s, a}
    BY <1>2
  <2>5. CASE k <= n
    <3>1. k \in 1..n /\ k - 1 <= n /\ Len(s) = k - 1
      BY <1>1, <1>4, <2>5
    <3>2. h[k].role # "call"
      BY <3>1
    <3>3. m = h[k] /\ f[k] = a
      BY <1>1, <1>2, <3>2, StrippedType
    <3>4. Len(f[k]) = k /\ f[k][k] = h[k] /\ \A i \in 1..(k - 1) : f[k][i] = s[i]
      <4> HIDE DEF s, m, a
      <4> QED
        BY <2>3, <3>1, <3>3
    <3>5. ASSUME NEW i \in 1..n, i <= k
          PROVE  i <= Len(f[k]) /\ f[k][i] = h[i]
      <4>1. CASE i = k
        BY <3>4, <4>1
      <4>2. CASE i # k
        <5>1. i \in 1..(k - 1) /\ i <= k - 1
          BY <3>1, <3>5, <4>2
        <5>2. s[i] = h[i]
          BY <1>4, <5>1
        <5> HIDE DEF s
        <5> QED
          BY <3>1, <3>4, <5>1, <5>2
      <4> QED
        BY <4>1, <4>2
    <3> QED
      BY <3>4, <3>5
  <2>6. CASE ~(k <= n)
    <3>1. \A i \in 1..n : i <= k - 1
      BY <1>1, <2>6
    <3>2. \A i \in 1..n : i <= Len(s) /\ s[i] = h[i]
      BY <1>4, <3>1
    <3>3. \A i \in 1..n : i <= Len(a) /\ a[i] = h[i]
      <4> HIDE DEF s, m, a
      <4>1. Len(s) \in Nat
        BY <2>1 DEF s
      <4>2. \A i \in 1..n : i \in 1..Len(s)
        BY <1>1, <3>2, <4>1
      <4> QED
        BY <2>3, <3>2, <4>1, <4>2
    <3> HIDE DEF s, a
    <3> QED
      BY <2>4, <2>6, <3>2, <3>3
  <2> QED
    BY <2>5, <2>6
<1>5. Wrong = {}
  <2> SUFFICES ASSUME Wrong # {} PROVE FALSE
    OBVIOUS
  <2>1. PICK k \in Wrong : \A j \in Wrong : k <= j
    <3> HIDE DEF Right
    <3>1. Wrong \subseteq Nat /\ Wrong # {}
      BY <1>1
    <3> HIDE DEF Wrong
    <3> QED
      BY <3>1, Least
  <2> HIDE DEF Right
  <2>2. k \in 0..N /\ ~Right(k) /\ k # 0
    BY <1>3
  <2>3. k \in 1..N /\ k - 1 \in 0..N /\ ~(k <= k - 1)
    BY <1>1, <2>2
  <2>4. Right(k - 1)
    BY <2>1, <2>3
  <2> QED
    BY <1>4, <2>2, <2>3, <2>4
<1>6. Right(N)
  <2> HIDE DEF Right
  <2>1. N \in 0..N
    BY <1>1
  <2> QED
    BY <1>5, <2>1
<1>7. f[N] \in Seq(Message) /\ Len(f[N]) \in Nat
  BY <1>1, <1>2, LenProperties
<1>8. \A i \in 1..n : i <= N /\ i <= Len(f[N]) /\ f[N][i] = h[i]
  BY <1>1, <1>6
<1>9. n \in 1..n
  BY <1>1
<1> QED
  BY <1>2, <1>7, <1>8, <1>9

=============================================================================
