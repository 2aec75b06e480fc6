----------------------------- MODULE Files_proofs -----------------------------
(***************************************************************************)
(* Proofs about the files of the project: what a rewind restores           *)
(* (FileHistory), what becomes of worktrees (Worktrees) and what an index  *)
(* of the repository says (RepoIndex).  The first two rest on functions    *)
(* that are defined from one argument to the next (TurnsLess, Without);    *)
(* what holds of all their values is proved by the least argument of which *)
(* it would not.                                                           *)
(***************************************************************************)
EXTENDS FileHistory, Worktrees, RepoIndex, SequenceTheorems, FiniteSetTheorems,
        WellFoundedInduction, TLAPS

\* A set of naturals has a least element.
LEMMA Least ==
    ASSUME NEW T, T \subseteq Nat, T # {}
    PROVE  \E x \in T : \A y \in T : x <= y
<1>1. PICK x \in T : \A y \in T : <<y, x>> \notin OpToRel(<, Nat)
  BY NatLessThanWellFounded, WFMin
<1>2. \A y \in T : ~(y < x)
  BY <1>1 DEF OpToRel
<1> QED
  BY <1>2

\* A function that is given by its first value and a step for each argument.
LEMMA Recursion ==
    ASSUME NEW S, NEW first \in S, NEW n \in Nat, NEW step \in [1..n -> [S -> S]]
    PROVE  \E g \in [0..n -> S] :
              g[0] = first /\ \A i \in 1..n : g[i] = step[i][g[i - 1]]
<1> DEFINE Upto(k) == \E g \in [0..k -> S] :
                         g[0] = first /\ \A i \in 1..k : g[i] = step[i][g[i - 1]]
           Fails == {k \in 0..n : ~Upto(k)}
<1>1. SUFFICES ASSUME Fails # {} PROVE FALSE
  <2>1. n \in 0..n
    OBVIOUS
  <2> QED
    BY <2>1
<1>2. Fails \subseteq Nat
  OBVIOUS
<1> HIDE DEF Fails
<1>3. PICK k \in Fails : \A j \in Fails : k <= j
  BY <1>1, <1>2, Least
<1>4. k \in 0..n /\ ~Upto(k)
  BY <1>3 DEF Fails
<1>5. k # 0
  <2> DEFINE g == [i \in 0..0 |-> first]
  <2>1. g \in [0..0 -> S] /\ g[0] = first /\ \A i \in 1..0 : g[i] = step[i][g[i - 1]]
    OBVIOUS
  <2>2. Upto(0)
    BY <2>1
  <2> QED
    BY <1>4, <2>2
<1>6. Upto(k - 1)
  <2>1. k - 1 \in 0..n /\ ~(k <= k - 1)
    BY <1>4, <1>5
  <2>2. k - 1 \notin Fails
    BY <1>3, <2>1
  <2> QED
    BY <2>1, <2>2 DEF Fails
<1>7. PICK g \in [0..(k - 1) -> S] :
          g[0] = first /\ \A i \in 1..(k - 1) : g[i] = step[i][g[i - 1]]
  BY <1>6
<1>8. k \in 1..n /\ k - 1 \in 0..(k - 1)
  BY <1>4, <1>5
<1> DEFINE next == step[k][g[k - 1]]
           h == [i \in 0..k |-> IF i = k THEN next ELSE g[i]]
<1>9. next \in S
  BY <1>7, <1>8
<1>10. h[k] = next /\ h[k - 1] = g[k - 1] /\ h[0] = first
  BY <1>7, <1>8
<1>11. h \in [0..k -> S]
  <2>1. ASSUME NEW i \in 0..k
        PROVE  (IF i = k THEN next ELSE g[i]) \in S
    <3>1. CASE i = k
      BY <1>9, <3>1
    <3>2. CASE i # k
      BY <1>7, <1>8, <3>2
    <3> QED
      BY <3>1, <3>2
  <2> QED
    BY <2>1
<1>12. ASSUME NEW i \in 1..k
       PROVE  h[i] = step[i][h[i - 1]]
  <2>1. CASE i = k
    BY <1>10, <2>1
  <2>2. CASE i # k
    <3>1. i \in 1..(k - 1) /\ i - 1 \in 0..(k - 1) /\ i - 1 # k /\ i \in 0..k /\ i - 1 \in 0..k
      BY <1>8, <2>2
    <3> QED
      BY <1>7, <2>2, <3>1
  <2> QED
    BY <2>1, <2>2
<1> HIDE DEF h
<1>13. Upto(k)
  BY <1>10, <1>11, <1>12
<1> QED
  BY <1>4, <1>13

\* A bounded set of naturals has a greatest element.
LEMMA Greatest ==
    ASSUME NEW n \in Nat, NEW T, T \subseteq 0..n, T # {}
    PROVE  \E x \in T : \A y \in T : y <= x
<1> DEFINE D == {d \in 0..n : n - d \in T}
<1>1. D \subseteq Nat /\ D # {}
  <2>1. PICK x \in T : TRUE
    OBVIOUS
  <2>2. n - x \in 0..n /\ n - (n - x) = x
    BY <2>1
  <2>3. n - x \in D
    BY <2>1, <2>2
  <2>4. D \subseteq Nat
    OBVIOUS
  <2> QED
    BY <2>3, <2>4
<1>2. PICK d \in D : \A e \in D : d <= e
  BY <1>1, Least
<1>3. ASSUME NEW y \in T
      PROVE  y <= n - d
  <2>1. n - y \in D /\ d \in 0..n /\ y \in 0..n
    BY <1>1
  <2> HIDE DEF D
  <2>2. d <= n - y
    BY <1>2, <2>1
  <2> QED
    BY <2>1, <2>2
<1> QED
  BY <1>2, <1>3

Roles == {"user", "assistant"}

\* Dropping the last turn leaves a history.
LEMMA OneTurnLessIsPrefix ==
    ASSUME NEW h \in Seq(Roles)
    PROVE  OneTurnLess(h) \in Seq(Roles)
<1>1. ASSUME NEW s \in Seq(Roles), NEW role
      PROVE  EndingWith(s, role) \in 0..Len(s)
  <2> DEFINE T == {n \in 0..Len(s) : n = 0 \/ s[n] = role}
  <2>1. T \subseteq 0..Len(s) /\ 0 \in T /\ Len(s) \in Nat
    OBVIOUS
  <2>2. PICK n \in T : \A k \in T : k <= n
    BY <2>1, Greatest
  <2>3. \A i \in (n + 1)..Len(s) : s[i] # role
    <3>1. SUFFICES ASSUME NEW i \in (n + 1)..Len(s), s[i] = role
                   PROVE  FALSE
      OBVIOUS
    <3>2. i \in T
      BY <2>1, <3>1
    <3> QED
      BY <2>1, <2>2, <3>1, <3>2
  <2> QED
    BY <2>1, <2>2, <2>3 DEF EndingWith
<1> DEFINE users == SubSeq(h, 1, EndingWith(h, "user"))
<1>2. users \in Seq(Roles)
  BY <1>1
<1> HIDE DEF users
<1>3. SubSeq(users, 1, EndingWith(users, "assistant")) \in Seq(Roles)
  BY <1>1, <1>2
<1> QED
  BY <1>3 DEF OneTurnLess, users

\* Whatever the number of rounds, a rewind leaves a history.
LEMMA TurnsLessIsHistory ==
    ASSUME NEW h \in Seq(Roles), NEW n \in Nat
    PROVE  TurnsLess(h, n) \in Seq(Roles)
<1> DEFINE S == Seq(Roles)
           Body(f) == [i \in 0..n |-> IF i = 0 THEN h ELSE OneTurnLess(f[i - 1])]
           step == [i \in 1..n |-> [x \in S |-> OneTurnLess(x)]]
<1>1. step \in [1..n -> [S -> S]]
  BY OneTurnLessIsPrefix
<1>2. PICK g \in [0..n -> S] : g[0] = h /\ \A i \in 1..n : g[i] = step[i][g[i - 1]]
  <2> HIDE DEF S, step
  <2>1. h \in S
    BY DEF S
  <2> QED
    BY <1>1, <2>1, Recursion
<1>3. g = Body(g)
  <2>1. ASSUME NEW i \in 0..n
        PROVE  g[i] = IF i = 0 THEN h ELSE OneTurnLess(g[i - 1])
    <3>1. CASE i = 0
      BY <1>2, <3>1
    <3>2. CASE i # 0
      <4>1. i \in 1..n /\ i - 1 \in 0..n /\ g[i - 1] \in S
        BY <1>2, <3>2
      <4> QED
        BY <1>2, <3>2, <4>1
    <3> QED
      BY <3>1, <3>2
  <2> QED
    BY <1>2, <2>1
<1> DEFINE after == CHOOSE f : f = Body(f)
<1>4. after = Body(after)
  <2>1. \E f : f = Body(f)
    BY <1>3
  <2> HIDE DEF Body
  <2> QED
    BY <2>1
<1>5. TurnsLess(h, n) = after[n]
  BY DEF TurnsLess
<1> DEFINE Bad == {i \in 0..n : after[i] \notin S}
<1> HIDE DEF after
<1>6. after[0] = h /\ \A i \in 1..n : after[i] = OneTurnLess(after[i - 1])
  BY <1>4
<1>7. Bad = {}
  <2>1. SUFFICES ASSUME Bad # {} PROVE FALSE
    OBVIOUS
  <2>2. PICK k \in Bad : \A j \in Bad : k <= j
    <3>1. Bad \subseteq Nat
      OBVIOUS
    <3> HIDE DEF Bad
    <3> QED
      BY <2>1, <3>1, Least
  <2>3. k \in 0..n /\ after[k] \notin S
    BY <2>2
  <2>4. k # 0
    BY <1>6, <2>3
  <2>5. k \in 1..n /\ k - 1 \in 0..n /\ ~(k <= k - 1)
    BY <2>3, <2>4
  <2>6. after[k - 1] \in S
    BY <2>2, <2>5
  <2> QED
    BY <1>6, <2>3, <2>5, <2>6, OneTurnLessIsPrefix
<1>8. n \in 0..n
  OBVIOUS
<1> QED
  BY <1>5, <1>7, <1>8

-----------------------------------------------------------------------------

Kept == [at : Nat, version : [File -> 0..MaxVersion], held : [File -> Content]]

HistoryTypes ==
    /\ disk \in [File -> Content] /\ changes \in Content /\ rewinds \in Nat
    /\ tracked \in [File -> 0..MaxVersion]
    /\ backup \in [File -> [Version -> Content]]
    /\ snapshots \in Seq(Kept) /\ Len(snapshots) <= MAX_SNAPSHOTS
    /\ history \in Seq(Roles)

\* The snapshot a rewind goes back to, if any, is one of those later than len.
LEMMA SnapshotIndexIsLater ==
    ASSUME snapshots \in Seq(Kept), NEW len
    PROVE  \/ /\ SnapshotIndex(len) = 0
              /\ \A i \in DOMAIN snapshots : ~(snapshots[i].at > len)
           \/ /\ SnapshotIndex(len) \in DOMAIN snapshots
              /\ snapshots[SnapshotIndex(len)].at > len
<1> DEFINE later == {i \in DOMAIN snapshots : snapshots[i].at > len}
<1>1. CASE later = {}
  BY <1>1 DEF SnapshotIndex
<1>2. CASE later # {}
  <2>1. ASSUME NEW i \in later
        PROVE  i \in Nat /\ snapshots[i].at \in Nat
    <3>1. i \in 1..Len(snapshots) /\ snapshots[i] \in Kept
      OBVIOUS
    <3> QED
      BY <3>1 DEF Kept
  <2> DEFINE ats == {snapshots[i].at : i \in later}
  <2>2. ats \subseteq Nat /\ ats # {}
    BY <1>2, <2>1
  <2>3. PICK a \in ats : \A b \in ats : a <= b
    <3> HIDE DEF ats
    <3> QED
      BY <2>2, Least
  <2> DEFINE first == {i \in later : snapshots[i].at = a}
  <2>4. first \subseteq Nat /\ first # {}
    BY <2>1
  <2>5. PICK i \in first : \A j \in first : i <= j
    <3> HIDE DEF first
    <3> QED
      BY <2>4, Least
  <2>6. \A j \in later : snapshots[i].at < snapshots[j].at
                            \/ (snapshots[i].at = snapshots[j].at /\ i <= j)
    <3>1. ASSUME NEW j \in later
          PROVE  snapshots[i].at < snapshots[j].at
                            \/ (snapshots[i].at = snapshots[j].at /\ i <= j)
      <4>1. snapshots[j].at \in ats /\ snapshots[i].at = a /\ a <= snapshots[j].at
        BY <2>3, <2>5
      <4>2. CASE snapshots[j].at = a
        BY <2>5, <4>1, <4>2
      <4>3. CASE snapshots[j].at # a
        BY <2>1, <4>1, <4>3, <2>2
      <4> QED
        BY <4>2, <4>3
    <3> QED
      BY <3>1
  <2>7. SnapshotIndex(len) \in later
    <3> HIDE DEF first
    <3>1. i \in later
      BY <2>5 DEF first
    <3> QED
      BY <1>2, <2>6, <3>1 DEF SnapshotIndex
  <2> QED
    BY <2>7
<1> QED
  BY <1>1, <1>2

-----------------------------------------------------------------------------

\* A version that a snapshot refers to was given out, and its backup holds what the
\* snapshot saw.
SnapshotsAgree ==
    \A i \in DOMAIN snapshots : \A f \in File :
        /\ snapshots[i].version[f] <= tracked[f]
        /\ snapshots[i].held[f] # Absent =>
              /\ snapshots[i].version[f] # 0
              /\ backup[f][snapshots[i].version[f]] = snapshots[i].held[f]

\* Later snapshots refer to later versions.
SnapshotsGrow ==
    \A i, j \in DOMAIN snapshots : i <= j =>
        \A f \in File : snapshots[i].version[f] <= snapshots[j].version[f]

\* Since the last rewind no version was given out twice.
AttemptsAgree ==
    \A e \in attempts :
        /\ e.file \in File /\ e.since \in 0..rewinds
        /\ e.since = rewinds =>
              /\ e.version \in Version /\ e.version <= tracked[e.file]
              /\ e.before # Absent => backup[e.file][e.version] = e.before

HistoryInv == HistoryTypes /\ SnapshotsAgree /\ SnapshotsGrow /\ AttemptsAgree

\* An edit is tracked under a version that is not in use.
LEMMA TrackKeepsBackups ==
    ASSUME HistoryInv, NEW f \in File, TrackEdit(f), UNCHANGED <<history, rewinds>>
    PROVE  /\ SnapshotsAgree' /\ SnapshotsGrow' /\ AttemptsAgree'
           /\ tracked' \in [File -> 0..MaxVersion]
           /\ backup' \in [File -> [Version -> Content]] /\ snapshots' = snapshots
<1> USE DEF HistoryInv, HistoryTypes
<1> DEFINE v == tracked[f] + 1
<1>1. v \in Version /\ snapshots' = snapshots /\ rewinds' = rewinds
  BY DEF TrackEdit
<1>2. tracked' = [tracked EXCEPT ![f] = v] /\ attempts' = attempts \cup {Attempt(f, v)}
  BY DEF TrackEdit
<1>3. \A w \in Version : w \in 0..MaxVersion /\ w # 0
  BY FileAssumption DEF Version
<1>4. \A g \in File : tracked[g] \in 0..MaxVersion /\ tracked[g] \in Nat
  OBVIOUS
<1>5. /\ tracked' \in [File -> 0..MaxVersion]
      /\ tracked'[f] = v
      /\ \A g \in File : tracked[g] <= tracked'[g]
  <2>1. tracked' \in [File -> 0..MaxVersion]
    BY <1>1, <1>2, <1>3
  <2>2. \A g \in File : tracked'[g] = IF g = f THEN v ELSE tracked[g]
    BY <1>2
  <2>3. tracked[f] <= v
    BY <1>4
  <2> HIDE DEF v
  <2>4. ASSUME NEW g \in File
        PROVE  tracked[g] <= tracked'[g]
    <3>1. tracked[g] <= tracked[g]
      BY <1>4
    <3> QED
      BY <2>2, <2>3, <3>1
  <2> QED
    BY <2>1, <2>2, <2>4
<1>6. disk[f] \in Content /\ backup[f] \in [Version -> Content]
  OBVIOUS
<1> DEFINE b == [backup[f] EXCEPT ![v] = disk[f]]
<1>7. /\ backup' \in [File -> [Version -> Content]]
      /\ \A g \in File : \A w \in Version :
            g # f \/ w # v => backup'[g][w] = backup[g][w]
      /\ disk[f] # Absent => backup'[f][v] = disk[f]
  <2>1. CASE disk[f] = Absent
    <3>1. backup' = backup
      BY <2>1 DEF TrackEdit
    <3> QED
      BY <2>1, <3>1
  <2>2. CASE disk[f] # Absent
    <3>1. b \in [Version -> Content] /\ b[v] = disk[f] /\ \A w \in Version : w # v => b[w] = backup[f][w]
      BY <1>1, <1>6
    <3>2. backup' = [backup EXCEPT ![f] = b]
      BY <2>2 DEF TrackEdit
    <3> HIDE DEF b, v
    <3>3. backup' \in [File -> [Version -> Content]]
      BY <3>1, <3>2
    <3>4. \A g \in File : backup'[g] = IF g = f THEN b ELSE backup[g]
      BY <3>2
    <3> QED
      BY <3>1, <3>3, <3>4
  <2> QED
    BY <2>1, <2>2
<1> HIDE DEF v
<1>8. SnapshotsAgree'
  <2>1. ASSUME NEW i \in DOMAIN snapshots, NEW g \in File
        PROVE  /\ snapshots[i].version[g] <= tracked'[g]
               /\ snapshots[i].held[g] # Absent =>
                     /\ snapshots[i].version[g] # 0
                     /\ backup'[g][snapshots[i].version[g]] = snapshots[i].held[g]
    <3>1. snapshots[i] \in Kept
      OBVIOUS
    <3>2. snapshots[i].version[g] \in 0..MaxVersion
      BY <3>1 DEF Kept
    <3>3. snapshots[i].version[g] <= tracked[g]
      BY DEF SnapshotsAgree
    <3>4. snapshots[i].version[g] <= tracked'[g]
      BY <1>3, <1>4, <1>5, <3>2, <3>3
    <3>5. g # f \/ snapshots[i].version[g] # v
      BY <1>4, <3>2, <3>3 DEF v
    <3>6. CASE snapshots[i].held[g] # Absent
      <4>1. /\ snapshots[i].version[g] # 0
            /\ backup[g][snapshots[i].version[g]] = snapshots[i].held[g]
        BY <3>6 DEF SnapshotsAgree
      <4>2. snapshots[i].version[g] \in Version
        BY <3>2, <4>1, FileAssumption DEF Version
      <4> QED
        BY <1>7, <3>4, <3>5, <4>1, <4>2
    <3> QED
      BY <3>4, <3>6
  <2> QED
    BY <1>1, <2>1 DEF SnapshotsAgree
<1>9. SnapshotsGrow'
  BY <1>1 DEF SnapshotsGrow
<1>10. AttemptsAgree'
  <2>1. ASSUME NEW e \in attempts
        PROVE  /\ e.file \in File /\ e.since \in 0..rewinds'
               /\ e.since = rewinds' =>
                     /\ e.version \in Version /\ e.version <= tracked'[e.file]
                     /\ e.before # Absent => backup'[e.file][e.version] = e.before
    <3>1. e.file \in File /\ e.since \in 0..rewinds
      BY DEF AttemptsAgree
    <3>2. CASE e.since = rewinds
      <4>1. e.version \in Version /\ e.version <= tracked[e.file]
            /\ (e.before # Absent => backup[e.file][e.version] = e.before)
        BY <3>2 DEF AttemptsAgree
      <4>2. e.version \in 0..MaxVersion
        BY <1>3, <4>1
      <4>3. e.file # f \/ e.version # v
        BY <1>4, <3>1, <4>1, <4>2 DEF v
      <4>4. e.version <= tracked'[e.file]
        BY <1>4, <1>5, <3>1, <4>1, <4>2
      <4> QED
        BY <1>1, <1>7, <3>1, <4>1, <4>3, <4>4
    <3> QED
      BY <1>1, <3>1, <3>2
  <2> DEFINE e == Attempt(f, v)
  <2>2. e.file = f /\ e.since = rewinds /\ e.version = v /\ e.before = disk[f]
    BY DEF Attempt
  <2> HIDE DEF e
  <2>3. /\ e.file \in File /\ e.since \in 0..rewinds'
        /\ e.version \in Version /\ e.version <= tracked'[e.file]
        /\ e.before # Absent => backup'[e.file][e.version] = e.before
    <3>1. rewinds \in 0..rewinds' /\ v <= v
      BY <1>1, <1>4 DEF v
    <3> QED
      BY <1>1, <1>5, <1>7, <2>2, <3>1
  <2>4. attempts' = attempts \cup {e}
    BY <1>2 DEF e
  <2> QED
    BY <2>1, <2>3, <2>4 DEF AttemptsAgree
<1> QED
  BY <1>1, <1>5, <1>7, <1>8, <1>9, <1>10

\* The end of a run adds a snapshot and drops the oldest of too many.
LEMMA FinishKeepsBackups ==
    ASSUME HistoryInv, Finish
    PROVE  HistoryInv'
<1> USE DEF HistoryInv, HistoryTypes
<1>1. /\ UNCHANGED <<disk, changes, tracked, rewinds, attempts>>
      /\ history' = Append(history, "assistant")
      /\ backup' = Backups
  BY DEF Finish, Say, fileVars, counters
<1> DEFINE s == Snapshot(Len(history) + 1)
           l == Append(snapshots, s)
<1>2. history' \in Seq(Roles) /\ Len(history) \in Nat
  BY <1>1 DEF Roles
<1>3. \A f \in File : tracked[f] \in 0..MaxVersion /\ disk[f] \in Content
  OBVIOUS
<1>4. /\ backup' \in [File -> [Version -> Content]]
      /\ \A f \in File : \A v \in Version :
            backup[f][v] # Absent => backup'[f][v] = backup[f][v]
  <2>1. \A f \in File : \A v \in Version :
           backup'[f][v] = IF v = tracked[f] /\ backup[f][v] = Absent THEN disk[f]
                           ELSE backup[f][v]
    BY <1>1 DEF Backups
  <2>2. \A f \in File : [v \in Version |->
           IF v = tracked[f] /\ backup[f][v] = Absent THEN disk[f] ELSE backup[f][v]]
             \in [Version -> Content]
    BY <1>3
  <2>3. backup' \in [File -> [Version -> Content]]
    BY <1>1, <2>2 DEF Backups
  <2> QED
    BY <2>1, <2>3
<1>5. /\ s.at = Len(history) + 1 /\ s.version = tracked
      /\ \A f \in File : s.held[f] = IF tracked[f] = 0 THEN Absent ELSE backup'[f][tracked[f]]
  BY <1>1 DEF Snapshot
<1>6. s \in Kept
  <2>1. \A f \in File : tracked[f] # 0 => tracked[f] \in Version
    BY <1>3, FileAssumption DEF Version
  <2>2. \A f \in File : (IF tracked[f] = 0 THEN Absent ELSE Backups[f][tracked[f]]) \in Content
    BY <1>1, <1>4, <2>1, FileAssumption DEF Absent, Content
  <2>3. [f \in File |-> IF tracked[f] = 0 THEN Absent ELSE Backups[f][tracked[f]]] \in [File -> Content]
    BY <2>2
  <2> QED
    BY <1>2, <2>3 DEF Snapshot, Kept
<1> HIDE DEF s
<1>7. /\ l \in Seq(Kept) /\ Len(l) = Len(snapshots) + 1 /\ Len(snapshots) \in Nat
      /\ l[Len(snapshots) + 1] = s
      /\ \A i \in 1..Len(snapshots) : l[i] = snapshots[i]
  BY <1>6
<1> HIDE DEF l
<1>8. PICK d \in Nat :
        /\ snapshots' \in Seq(Kept) /\ Len(snapshots') = Len(l) - d
        /\ Len(snapshots') <= MAX_SNAPSHOTS
        /\ \A i \in 1..Len(snapshots') : i + d \in 1..Len(l) /\ snapshots'[i] = l[i + d]
  <2> DEFINE a == IF Len(l) > MAX_SNAPSHOTS THEN Len(l) - MAX_SNAPSHOTS + 1 ELSE 1
  <2>1. snapshots' = SubSeq(l, a, Len(l))
    BY DEF Finish, Suffix, l, s
  <2>2. a \in 1..Len(l) /\ a - 1 \in Nat
    BY <1>7, FileAssumption
  <2> HIDE DEF a
  <2>3. Len(snapshots') = Len(l) - (a - 1)
        /\ \A i \in 1..Len(snapshots') : snapshots'[i] = l[i + (a - 1)]
    BY <1>7, <2>1, <2>2, SubSeqProperties
  <2>4. snapshots' \in Seq(Kept)
    BY <1>7, <2>1, <2>2, SubSeqProperties
  <2>5. \A i \in 1..Len(snapshots') : i + (a - 1) \in 1..Len(l)
    BY <1>7, <2>2, <2>3
  <2>6. Len(snapshots') <= MAX_SNAPSHOTS
    BY <1>7, <2>3, FileAssumption DEF a
  <2> QED
    BY <2>2, <2>3, <2>4, <2>5, <2>6
<1>9. \A i \in 1..Len(l) : i \in 1..Len(snapshots) \/ i = Len(snapshots) + 1
  BY <1>7
<1>10. \A i \in 1..Len(snapshots) : \A f \in File :
          snapshots[i].version[f] \in 0..MaxVersion
  <2>1. \A i \in 1..Len(snapshots) : snapshots[i] \in Kept
    OBVIOUS
  <2> QED
    BY <2>1 DEF Kept
<1>11. ASSUME NEW i \in 1..Len(l), NEW f \in File
       PROVE  /\ l[i].version[f] <= tracked[f]
              /\ l[i].held[f] # Absent =>
                    /\ l[i].version[f] # 0
                    /\ backup'[f][l[i].version[f]] = l[i].held[f]
  <2>1. CASE i = Len(snapshots) + 1
    BY <1>3, <1>5, <1>7, <2>1
  <2>2. CASE i \in 1..Len(snapshots)
    <3>1. l[i] = snapshots[i] /\ snapshots[i].version[f] <= tracked[f]
      BY <1>7, <2>2 DEF SnapshotsAgree
    <3>2. CASE snapshots[i].held[f] # Absent
      <4>1. /\ snapshots[i].version[f] # 0
            /\ backup[f][snapshots[i].version[f]] = snapshots[i].held[f]
        BY <2>2, <3>2 DEF SnapshotsAgree
      <4>2. snapshots[i].version[f] \in Version
        BY <1>10, <2>2, <4>1, FileAssumption DEF Version
      <4> QED
        BY <1>4, <3>1, <3>2, <4>1, <4>2
    <3> QED
      BY <3>1, <3>2
  <2> QED
    BY <1>9, <2>1, <2>2
<1>12. ASSUME NEW i \in 1..Len(l), NEW j \in 1..Len(l), i <= j, NEW f \in File
       PROVE  l[i].version[f] <= l[j].version[f]
  <2>1. CASE j = Len(snapshots) + 1
    BY <1>5, <1>7, <1>11, <2>1
  <2>2. CASE j \in 1..Len(snapshots)
    <3>1. i \in 1..Len(snapshots)
      <4>1. i \in 1..(Len(snapshots) + 1) /\ j \in 1..Len(snapshots) /\ i <= j
        BY <1>7, <1>12, <2>2
      <4> QED
        BY <1>7, <4>1
    <3>2. i \in DOMAIN snapshots /\ j \in DOMAIN snapshots /\ i <= j
      BY <1>12, <2>2, <3>1
    <3>3. snapshots[i].version[f] <= snapshots[j].version[f]
      BY <3>2 DEF SnapshotsGrow
    <3> QED
      BY <1>7, <2>2, <3>1, <3>3
  <2> QED
    BY <1>9, <2>1, <2>2
<1>13. DOMAIN snapshots' = 1..Len(snapshots')
  BY <1>8
<1>14. SnapshotsAgree'
  <2>1. ASSUME NEW i \in 1..Len(snapshots'), NEW f \in File
        PROVE  /\ snapshots'[i].version[f] <= tracked[f]
               /\ snapshots'[i].held[f] # Absent =>
                     /\ snapshots'[i].version[f] # 0
                     /\ backup'[f][snapshots'[i].version[f]] = snapshots'[i].held[f]
    <3>1. i + d \in 1..Len(l) /\ snapshots'[i] = l[i + d]
      BY <1>8
    <3> QED
      BY <1>11, <3>1
  <2> QED
    BY <1>1, <1>13, <2>1 DEF SnapshotsAgree
<1>15. SnapshotsGrow'
  <2>1. ASSUME NEW i \in 1..Len(snapshots'), NEW j \in 1..Len(snapshots'), i <= j,
               NEW f \in File
        PROVE  snapshots'[i].version[f] <= snapshots'[j].version[f]
    <3>1. i + d \in 1..Len(l) /\ j + d \in 1..Len(l) /\ i + d <= j + d
      BY <1>8, <2>1
    <3> QED
      BY <1>8, <1>12, <3>1
  <2> QED
    BY <1>13, <2>1 DEF SnapshotsGrow
<1>16. AttemptsAgree'
  BY <1>1, <1>4 DEF AttemptsAgree
<1> QED
  BY <1>1, <1>2, <1>4, <1>8, <1>14, <1>15, <1>16

\* A rewind gives no version out again that a remaining snapshot refers to.
LEMMA RewindKeepsBackups ==
    ASSUME HistoryInv, NEW n \in Rounds, Rewind(n)
    PROVE  HistoryInv'
<1> USE DEF HistoryInv, HistoryTypes
<1> DEFINE i == SnapshotIndex(Len(history'))
<1>1. /\ rewinds' = rewinds + 1 /\ changes' = changes
      /\ history' = TurnsLess(history, n)
      /\ attempts' \subseteq attempts
      /\ i = 0 => UNCHANGED <<disk, tracked, backup, snapshots>>
      /\ i # 0 => Restore(i)
  BY DEF Rewind, historyVars
<1>2. history' \in Seq(Roles)
  <2>1. n \in Nat
    BY FileAssumption DEF Rounds
  <2> QED
    BY <1>1, <2>1, TurnsLessIsHistory
<1>3. AttemptsAgree'
  BY <1>1 DEF AttemptsAgree
<1>4. CASE i = 0
  <2>1. UNCHANGED <<disk, tracked, backup, snapshots>>
    BY <1>1, <1>4
  <2>2. SnapshotsAgree' /\ SnapshotsGrow'
    BY <2>1 DEF SnapshotsAgree, SnapshotsGrow
  <2> QED
    BY <1>1, <1>2, <1>3, <2>1, <2>2
<1>5. CASE i # 0
  <2>1. i \in DOMAIN snapshots
    BY <1>5, SnapshotIndexIsLater
  <2>2. Restore(i)
    BY <1>1, <1>5
  <2> HIDE DEF i
  <2> DEFINE target == snapshots[i].version
  <2>3. snapshots[i] \in Kept
    BY <2>1
  <2>4. target \in [File -> 0..MaxVersion]
    BY <2>3 DEF Kept
  <2>5. /\ disk' = [f \in File |-> IF f \in {g \in File : target[g] # 0}
                                   THEN backup[f][target[f]] ELSE disk[f]]
        /\ snapshots' = SubSeq(snapshots, 1, i)
        /\ tracked' = [f \in File |-> IF f \in {g \in File : target[g] # 0}
                                      THEN target[f] ELSE tracked[f]]
        /\ backup' = backup
    BY <2>2 DEF Restore
  <2>6. disk' \in [File -> Content]
    <3>1. ASSUME NEW f \in File
          PROVE  (IF f \in {g \in File : target[g] # 0}
                  THEN backup[f][target[f]] ELSE disk[f]) \in Content
      <4>1. target[f] # 0 => target[f] \in Version
        BY <2>4, FileAssumption DEF Version
      <4> HIDE DEF target
      <4>2. backup[f] \in [Version -> Content] /\ disk[f] \in Content
        OBVIOUS
      <4> QED
        BY <4>1, <4>2
    <3> QED
      BY <2>5, <3>1
  <2> HIDE DEF target
  <2>7. tracked' \in [File -> 0..MaxVersion]
    BY <2>4, <2>5
  <2>8. \A f \in File : tracked'[f] = IF target[f] # 0 THEN target[f] ELSE tracked[f]
    BY <2>5
  <2>9. /\ snapshots' \in Seq(Kept) /\ Len(snapshots') = i /\ i <= Len(snapshots)
        /\ DOMAIN snapshots' = 1..i
        /\ \A j \in 1..i : j \in DOMAIN snapshots /\ snapshots'[j] = snapshots[j]
    BY <2>1, <2>5
  <2>10. ASSUME NEW j \in 1..i, NEW f \in File
         PROVE  snapshots[j].version[f] <= tracked'[f]
    <3>1. j \in DOMAIN snapshots /\ j <= i
      BY <2>1, <2>9
    <3>2. snapshots[j].version[f] <= target[f]
      BY <2>1, <3>1 DEF SnapshotsGrow, target
    <3>3. snapshots[j].version[f] <= tracked[f]
      BY <3>1 DEF SnapshotsAgree
    <3> QED
      BY <2>8, <3>2, <3>3, Zenon
  <2>11. SnapshotsAgree'
    <3>1. ASSUME NEW j \in 1..i, NEW f \in File
          PROVE  /\ snapshots[j].version[f] <= tracked'[f]
                 /\ snapshots[j].held[f] # Absent =>
                       /\ snapshots[j].version[f] # 0
                       /\ backup[f][snapshots[j].version[f]] = snapshots[j].held[f]
      BY <2>9, <2>10 DEF SnapshotsAgree
    <3>2. ASSUME NEW j \in 1..i, NEW f \in File
          PROVE  /\ snapshots'[j].version[f] <= tracked'[f]
                 /\ snapshots'[j].held[f] # Absent =>
                       /\ snapshots'[j].version[f] # 0
                       /\ backup'[f][snapshots'[j].version[f]] = snapshots'[j].held[f]
      <4>1. snapshots'[j] = snapshots[j] /\ backup' = backup
        BY <2>5, <2>9
      <4> QED
        BY <3>1, <4>1
    <3>3. DOMAIN snapshots' = 1..i
      BY <2>9
    <3> HIDE DEF i
    <3> QED
      BY <3>2, <3>3 DEF SnapshotsAgree
  <2>12. SnapshotsGrow'
    BY <2>9 DEF SnapshotsGrow
  <2> QED
    <3>1. Len(snapshots') <= MAX_SNAPSHOTS
      BY <2>1, <2>9, FileAssumption
    <3> QED
      BY <1>1, <1>2, <1>3, <2>5, <2>6, <2>7, <2>9, <2>11, <2>12, <3>1
<1> QED
  BY <1>4, <1>5


\* FileCache is empty and stays so.
CacheEmpty == cache = [f \in File |-> Absent]

\* Whatever a step does to the files, the history keeps its agreements.
LEMMA StepKeepsHistory ==
    ASSUME HistoryInv, CacheEmpty, [Next]_vars
    PROVE  HistoryInv' /\ CacheEmpty'
<1> USE DEF CacheEmpty
<1>1. ASSUME UNCHANGED <<tracked, backup, snapshots, rewinds, attempts>>,
             disk' \in [File -> Content], changes' \in Content, history' \in Seq(Roles)
      PROVE  HistoryInv'
  <2>1. HistoryTypes'
    BY <1>1 DEF HistoryInv, HistoryTypes
  <2>2. SnapshotsAgree' /\ SnapshotsGrow' /\ AttemptsAgree'
    BY <1>1 DEF HistoryInv, SnapshotsAgree, SnapshotsGrow, AttemptsAgree
  <2> QED
    BY <2>1, <2>2 DEF HistoryInv
<1>2. ASSUME NEW f \in File, Change(f)
      PROVE  disk' \in [File -> Content] /\ changes' \in Content
  BY <1>2, FileAssumption DEF Change, HistoryInv, HistoryTypes, Content
<1>3. disk \in [File -> Content] /\ changes \in Content /\ history \in Seq(Roles)
  BY DEF HistoryInv, HistoryTypes
<1>4. CASE Prompt \/ CallTools \/ AddResults
  <2>1. UNCHANGED <<disk, changes, fetched, cache, tracked, backup, snapshots, rewinds, attempts>>
    BY <1>4 DEF Prompt, CallTools, AddResults, fileVars, historyVars, counters
  <2>2. history' \in Seq(Roles)
    <3>1. history' = Append(history, "user") \/ history' = Append(history, "assistant")
      BY <1>4 DEF Prompt, CallTools, AddResults, Say
    <3>2. "user" \in Roles /\ "assistant" \in Roles
      BY DEF Roles
    <3> HIDE DEF CacheEmpty
    <3> QED
      BY <1>3, <3>1, <3>2
  <2> QED
    BY <1>1, <1>3, <2>1, <2>2
<1>5. CASE Finish
  <2>1. cache' = cache
    BY <1>5 DEF Finish
  <2> QED
    BY <1>5, <2>1, FinishKeepsBackups
<1>6. CASE Cancel \/ UNCHANGED vars
  <2>1. UNCHANGED <<disk, changes, cache, tracked, backup, snapshots, history, rewinds, attempts>>
    BY <1>6 DEF Cancel, vars, fileVars, historyVars, counters
  <2> QED
    BY <1>1, <1>3, <2>1
<1>7. CASE NewConversation
  <2>1. UNCHANGED <<disk, changes, cache, tracked, backup, snapshots, rewinds>>
        /\ history' = <<>> /\ attempts' = {}
    BY <1>7 DEF NewConversation, fileVars, historyVars
  <2>2. HistoryTypes'
    BY <2>1 DEF HistoryInv, HistoryTypes
  <2>3. SnapshotsAgree' /\ SnapshotsGrow' /\ AttemptsAgree'
    BY <2>1 DEF HistoryInv, SnapshotsAgree, SnapshotsGrow, AttemptsAgree
  <2> QED
    BY <2>1, <2>2, <2>3 DEF HistoryInv
<1>8. ASSUME NEW f \in File, TrackEdit(f), UNCHANGED <<history, rewinds>>,
             disk' \in [File -> Content], changes' \in Content
      PROVE  HistoryInv'
  BY <1>3, <1>8, TrackKeepsBackups DEF HistoryInv, HistoryTypes
<1>9. ASSUME NEW f \in File, WriteFile(f)
      PROVE  HistoryInv' /\ CacheEmpty'
  <2>1. TrackEdit(f) /\ Change(f) /\ UNCHANGED <<history, rewinds>> /\ Invalidate(f)
    BY <1>9 DEF WriteFile, counters
  <2>2. CacheEmpty'
    BY <2>1 DEF Invalidate
  <2> QED
    BY <1>2, <1>8, <2>1, <2>2
<1>10. ASSUME NEW f \in File, EditFails(f)
       PROVE  HistoryInv' /\ CacheEmpty'
  <2>1. TrackEdit(f) /\ UNCHANGED <<history, rewinds, disk, changes, cache>>
    BY <1>10 DEF EditFails, counters, fileVars
  <2> QED
    BY <1>3, <1>8, <2>1
<1>11. ASSUME NEW f \in File, ReadFile(f)
       PROVE  HistoryInv' /\ CacheEmpty'
  <2>1. UNCHANGED <<disk, changes, tracked, backup, snapshots, history, rewinds, attempts>>
    BY <1>11 DEF ReadFile, historyVars, counters
  <2>2. ~UsesCache
    BY DEF UsesCache
  <2>3. cache' = cache
    BY <1>11, <2>2 DEF ReadFile
  <2> QED
    BY <1>1, <1>3, <2>1, <2>3
<1>12. ASSUME NEW f \in File, Bash(f)
       PROVE  HistoryInv' /\ CacheEmpty'
  <2>1. UNCHANGED <<cache, tracked, backup, snapshots, history, rewinds, attempts>>
    BY <1>12 DEF Bash, historyVars, counters
  <2>2. disk' \in [File -> Content] /\ changes' \in Content
    BY <1>2, <1>3, <1>12, FileAssumption DEF Bash, Absent, Content
  <2> QED
    BY <1>1, <1>3, <2>1, <2>2
<1>13. ASSUME NEW planned \in (SUBSET File) \ {{}}, ApplyPatch(planned)
       PROVE  HistoryInv' /\ CacheEmpty'
  <2>1. UNCHANGED <<cache, tracked, backup, snapshots, history, rewinds, attempts>>
    BY <1>13 DEF ApplyPatch, historyVars, counters
  <2>2. PICK done \in SUBSET planned :
          /\ changes + Cardinality(done) <= MaxChanges
          /\ \E new \in [done -> (changes + 1)..(changes + Cardinality(done))] :
                disk' = [f \in File |-> IF f \in done THEN new[f] ELSE disk[f]]
          /\ changes' = changes + Cardinality(done)
    BY <1>13 DEF ApplyPatch
  <2>3. Cardinality(done) \in Nat
    BY FileAssumption, FS_Subset, FS_CardinalityType
  <2>4. PICK new \in [done -> (changes + 1)..(changes + Cardinality(done))] :
            disk' = [f \in File |-> IF f \in done THEN new[f] ELSE disk[f]]
    BY <2>2
  <2>5. \A f \in done : new[f] \in Content
    <3>1. changes + Cardinality(done) <= MaxChanges
      BY <2>2
    <3> QED
      BY <1>3, <2>3, <3>1, FileAssumption DEF Content
  <2>6. disk' \in [File -> Content]
    BY <1>3, <2>4, <2>5
  <2>7. changes' \in Content
    BY <1>3, <2>2, <2>3, FileAssumption DEF Content
  <2> QED
    BY <1>1, <1>3, <2>1, <2>6, <2>7
<1>14. ASSUME NEW n \in Rounds, Rewind(n)
       PROVE  HistoryInv' /\ CacheEmpty'
  <2>1. cache' = cache
    BY <1>14 DEF Rewind
  <2> QED
    BY <1>14, <2>1, RewindKeepsBackups
<1> QED
  BY <1>4, <1>5, <1>6, <1>7, <1>9, <1>10, <1>11, <1>12, <1>13, <1>14 DEF Next

\* Both hold in every reachable state.
LEMMA HistoryInvariant == Spec => [](HistoryInv /\ CacheEmpty)
<1>1. Init => HistoryInv /\ CacheEmpty
  <2> SUFFICES ASSUME Init PROVE HistoryInv /\ CacheEmpty
    OBVIOUS
  <2>2. HistoryTypes
    <3>1. disk \in [File -> Content] /\ changes \in Content /\ rewinds \in Nat
      BY FileAssumption DEF Init, Absent, Content
    <3>2. tracked \in [File -> 0..MaxVersion]
      BY FileAssumption DEF Init
    <3>3. backup \in [File -> [Version -> Content]]
      BY FileAssumption DEF Init, Absent, Content
    <3>4. snapshots \in Seq(Kept) /\ Len(snapshots) <= MAX_SNAPSHOTS /\ history \in Seq(Roles)
      BY FileAssumption DEF Init
    <3> QED
      BY <3>1, <3>2, <3>3, <3>4 DEF HistoryTypes
  <2>3. SnapshotsAgree /\ SnapshotsGrow /\ AttemptsAgree
    <3>1. DOMAIN snapshots = {} /\ attempts = {}
      BY DEF Init
    <3> QED
      BY <3>1 DEF SnapshotsAgree, SnapshotsGrow, AttemptsAgree
  <2> QED
    BY <2>2, <2>3 DEF HistoryInv, CacheEmpty, Init
<1>2. (HistoryInv /\ CacheEmpty) /\ [Next]_vars => (HistoryInv /\ CacheEmpty)'
  BY StepKeepsHistory
<1> QED
  BY <1>1, <1>2, PTL DEF Spec

\* The versions, contents and snapshots stay within their bounds.
THEOREM HistoryTypesStay == Spec => []TypeOK
<1> DEFINE Rest == phase \in {"idle", "ask", "tools"} /\ fetched \subseteq File
<1>1. Init => Rest
  BY DEF Init
<1>2. Rest /\ [Next]_vars => Rest'
  <2> SUFFICES ASSUME Rest, [Next]_vars PROVE Rest'
    OBVIOUS
  <2>1. CASE Prompt \/ CallTools \/ AddResults \/ Cancel \/ NewConversation \/ Finish
             \/ UNCHANGED vars
    BY <2>1 DEF Prompt, CallTools, AddResults, Say, Cancel, NewConversation, Finish, vars,
                fileVars
  <2>2. ASSUME NEW f \in File, WriteFile(f) \/ EditFails(f) \/ ReadFile(f) \/ Bash(f)
        PROVE  Rest'
    BY <2>2 DEF WriteFile, EditFails, ReadFile, Bash, Change, Unfetch, fileVars
  <2>3. ASSUME NEW planned \in (SUBSET File) \ {{}}, ApplyPatch(planned)
        PROVE  Rest'
    BY <2>3 DEF ApplyPatch, Unfetch
  <2>4. ASSUME NEW n \in Rounds, Rewind(n)
        PROVE  Rest'
    BY <2>4 DEF Rewind, Restore, Unfetch
  <2> QED
    BY <2>1, <2>2, <2>3, <2>4 DEF Next
<1>3. Rest /\ HistoryInv /\ CacheEmpty => TypeOK
  <2> SUFFICES ASSUME Rest, HistoryInv, CacheEmpty PROVE TypeOK
    OBVIOUS
  <2>1. cache \in [File -> Content]
    BY FileAssumption DEF CacheEmpty, Absent, Content
  <2>2. tracked \in [File -> {0} \cup Version]
    <3>1. \A v \in 0..MaxVersion : v \in {0} \cup Version
      BY FileAssumption DEF Version
    <3> QED
      BY <3>1 DEF HistoryInv, HistoryTypes
  <2>3. \A i \in DOMAIN snapshots : \A f \in File : snapshots[i].version[f] <= tracked[f]
    BY DEF HistoryInv, SnapshotsAgree
  <2> QED
    BY <2>1, <2>2, <2>3 DEF TypeOK, HistoryInv, HistoryTypes, Roles
<1> QED
  BY <1>1, <1>2, <1>3, HistoryInvariant, PTL DEF Spec

\* Whatever was edited, dropped and rewound since a snapshot was taken, the backups
\* it refers to hold the contents of then.
THEOREM SnapshotsStaySound == Spec => []SnapshotsKeepContents
<1>1. HistoryInv => SnapshotsKeepContents
  BY DEF HistoryInv, SnapshotsAgree, SnapshotsKeepContents
<1> QED
  BY <1>1, HistoryInvariant, PTL

\* ReadFile never answers with a content of the past.
THEOREM ReadsStayCurrent == Spec => []ReadsAreCurrent
<1>1. CacheEmpty => ReadsAreCurrent
  BY DEF CacheEmpty, ReadsAreCurrent, Answer, UsesCache
<1> QED
  BY <1>1, HistoryInvariant, PTL

\* A rewind over one edit of a file undoes it, in every history of edits and runs.
THEOREM RewindRestoresContent == Spec => RewindUndoesSoleEdit
<1>1. ASSUME HistoryInv, NEW n \in Rounds, Rewind(n), NEW f \in File,
             NEW e \in RemovedEdits(f), e.before # Absent, e.since = rewinds,
             SnapshotsRemoved # {},
             \A s \in SnapshotsRemoved : snapshots[s].version[f] = e.version
      PROVE  disk'[f] = e.before
  <2> DEFINE i == SnapshotIndex(Len(history'))
  <2>1. snapshots \in Seq(Kept)
    BY <1>1 DEF HistoryInv, HistoryTypes
  <2>2. i \in DOMAIN snapshots /\ i \in SnapshotsRemoved
    BY <1>1, <2>1, SnapshotIndexIsLater DEF SnapshotsRemoved
  <2>3. i # 0
    BY <2>1, <2>2
  <2>4. Restore(i)
    BY <1>1, <2>3 DEF Rewind
  <2> HIDE DEF i
  <2>5. snapshots[i].version[f] = e.version
    BY <1>1, <2>2
  <2>6. e \in attempts /\ e.file = f
    BY <1>1 DEF RemovedEdits
  <2>7. e.version \in Version /\ backup[f][e.version] = e.before
    BY <1>1, <2>6 DEF HistoryInv, AttemptsAgree
  <2>8. e.version # 0
    BY <2>7, FileAssumption DEF Version
  <2> QED
    BY <2>4, <2>5, <2>7, <2>8 DEF Restore
<1> DEFINE A == \A n \in Rounds : Rewind(n) =>
          \A f \in File : \A e \in RemovedEdits(f) :
              /\ RemovedEdits(f) = {e}
              /\ e.before # Absent /\ e.since = rewinds
              /\ SnapshotsRemoved # {}
              /\ \A s \in SnapshotsRemoved : snapshots[s].version[f] = e.version
              => disk'[f] = e.before
<1>2. HistoryInv /\ [Next]_vars => [A]_vars
  BY <1>1
<1>3. RewindUndoesSoleEdit <=> [][A]_vars
  BY DEF RewindUndoesSoleEdit
<1> QED
  BY <1>2, <1>3, HistoryInvariant, PTL DEF Spec

-----------------------------------------------------------------------------
(* Worktrees.                                                              *)

\* The handles of other names, each once and in a sequence.
LEMMA WithoutOthers ==
    ASSUME NEW R, NEW s \in Seq(R), NEW names
    PROVE  /\ Without(s, names) \in Seq(R)
           /\ \A j \in 1..Len(Without(s, names)) :
                 /\ Without(s, names)[j].name \notin names
                 /\ \E i \in 1..Len(s) : Without(s, names)[j] = s[i]
           /\ \A i \in 1..Len(s) : s[i].name \notin names =>
                 \E j \in 1..Len(Without(s, names)) : Without(s, names)[j] = s[i]
           /\ Distinct(s) => Distinct(Without(s, names))
<1> DEFINE S == Seq(R)
           n == Len(s)
           Body(f) == [i \in 0..n |->
                          IF i = 0 THEN <<>>
                          ELSE IF s[i].name \in names THEN f[i - 1]
                          ELSE Append(f[i - 1], s[i])]
           step == [i \in 1..n |-> [x \in S |->
                       IF s[i].name \in names THEN x ELSE Append(x, s[i])]]
<1>1. n \in Nat /\ \A i \in 1..n : s[i] \in R
  OBVIOUS
<1>2. step \in [1..n -> [S -> S]]
  <2>1. ASSUME NEW i \in 1..n, NEW x \in S
        PROVE  (IF s[i].name \in names THEN x ELSE Append(x, s[i])) \in S
    BY <1>1
  <2> QED
    BY <2>1
<1>3. PICK g \in [0..n -> S] : g[0] = <<>> /\ \A i \in 1..n : g[i] = step[i][g[i - 1]]
  <2> DEFINE none == <<>>
  <2>1. none \in S /\ n \in Nat
    BY <1>1
  <2> HIDE DEF S, step, n, none
  <2>2. \E g \in [0..n -> S] : g[0] = none /\ \A i \in 1..n : g[i] = step[i][g[i - 1]]
    BY <1>2, <2>1, Recursion
  <2> QED
    BY <2>2 DEF none
<1>4. g = Body(g)
  <2>1. ASSUME NEW i \in 0..n
        PROVE  g[i] = IF i = 0 THEN <<>>
                      ELSE IF s[i].name \in names THEN g[i - 1]
                      ELSE Append(g[i - 1], s[i])
    <3>1. CASE i = 0
      BY <1>3, <3>1
    <3>2. CASE i # 0
      <4>1. i \in 1..n /\ i - 1 \in 0..n
        BY <1>1, <3>2
      <4>2. g[i - 1] \in S
        BY <1>3, <4>1
      <4> QED
        BY <1>3, <3>2, <4>1, <4>2
    <3> QED
      BY <3>1, <3>2
  <2> QED
    BY <1>3, <2>1
<1> DEFINE kept == CHOOSE f : f = Body(f)
<1>5. kept = Body(kept)
  <2>1. \E f : f = Body(f)
    BY <1>4
  <2> HIDE DEF Body
  <2> QED
    BY <2>1
<1>6. Without(s, names) = kept[n]
  BY DEF Without
<1> HIDE DEF kept
<1>7. /\ kept[0] = <<>>
      /\ \A i \in 1..n : kept[i] = IF s[i].name \in names THEN kept[i - 1]
                                   ELSE Append(kept[i - 1], s[i])
  <2>1. \A i \in 0..n : kept[i] = IF i = 0 THEN <<>>
                                  ELSE IF s[i].name \in names THEN kept[i - 1]
                                  ELSE Append(kept[i - 1], s[i])
    BY <1>5, Zenon
  <2>2. 0 \in 0..n /\ \A i \in 1..n : i \in 0..n /\ i # 0
    BY <1>1
  <2> HIDE DEF n
  <2> QED
    BY <2>1, <2>2
<1> DEFINE Good(i) ==
              /\ kept[i] \in S
              /\ \A j \in 1..Len(kept[i]) :
                    kept[i][j].name \notin names /\ \E m \in 1..i : kept[i][j] = s[m]
              /\ \A m \in 1..i : s[m].name \notin names =>
                    \E j \in 1..Len(kept[i]) : kept[i][j] = s[m]
              /\ Distinct(s) => Distinct(kept[i])
<1>8. Good(0)
  <2>1. kept[0] = <<>> /\ Len(<<>>) = 0 /\ DOMAIN <<>> = {}
    BY <1>7
  <2> QED
    BY <2>1 DEF Distinct
<1>9. ASSUME NEW i \in 1..n, Good(i - 1)
      PROVE  Good(i)
  <2>1. i - 1 \in Nat /\ \A m \in 1..i : m \in 1..(i - 1) \/ m = i
    BY <1>1
  <2>2. CASE s[i].name \in names
    <3>1. kept[i] = kept[i - 1]
      BY <1>7, <2>2
    <3>2. \A m \in 1..(i - 1) : m \in 1..i
      BY <2>1
    <3> QED
      BY <1>9, <2>1, <2>2, <3>1, <3>2
  <2>3. CASE s[i].name \notin names
    <3> DEFINE a == kept[i - 1]
               b == kept[i]
    <3>1. a \in S /\ s[i] \in R /\ b = Append(a, s[i])
      BY <1>1, <1>7, <1>9, <2>3
    <3>2. b \in S /\ Len(b) = Len(a) + 1 /\ Len(a) \in Nat /\ b[Len(a) + 1] = s[i]
          /\ \A j \in 1..Len(a) : b[j] = a[j]
      BY <3>1
    <3>3. \A j \in 1..Len(b) : j \in 1..Len(a) \/ j = Len(a) + 1
      BY <3>2
    <3>4. \A j \in 1..Len(a) : a[j].name \notin names /\ \E m \in 1..(i - 1) : a[j] = s[m]
      BY <1>9
    <3>5. \A m \in 1..(i - 1) : s[m].name \notin names => \E j \in 1..Len(a) : a[j] = s[m]
      BY <1>9
    <3>6. Distinct(s) => Distinct(a)
      BY <1>9
    <3> HIDE DEF a, b
    <3>7. ASSUME NEW j \in 1..Len(b)
          PROVE  b[j].name \notin names /\ \E m \in 1..i : b[j] = s[m]
      <4>1. CASE j \in 1..Len(a)
        <5>1. PICK m \in 1..(i - 1) : a[j] = s[m]
          BY <3>4, <4>1
        <5>2. m \in 1..i
          BY <2>1
        <5> QED
          BY <3>2, <3>4, <4>1, <5>1, <5>2
      <4>2. CASE j = Len(a) + 1
        <5>1. i \in 1..i
          BY <1>1
        <5> QED
          BY <2>3, <3>2, <4>2, <5>1
      <4> QED
        BY <3>3, <4>1, <4>2
    <3>8. ASSUME NEW m \in 1..i, s[m].name \notin names
          PROVE  \E j \in 1..Len(b) : b[j] = s[m]
      <4>1. CASE m \in 1..(i - 1)
        <5>1. PICK j \in 1..Len(a) : a[j] = s[m]
          BY <3>5, <3>8, <4>1
        <5>2. j \in 1..Len(b)
          BY <3>2
        <5> QED
          BY <3>2, <5>1, <5>2
      <4>2. CASE m = i
        <5>1. Len(a) + 1 \in 1..Len(b)
          BY <3>2
        <5> QED
          BY <3>2, <4>2, <5>1
      <4> QED
        BY <2>1, <4>1, <4>2
    <3>9. Distinct(s) => Distinct(b)
      <4> SUFFICES ASSUME Distinct(s), NEW j \in DOMAIN b, NEW k \in DOMAIN b,
                          b[j].name = b[k].name
                   PROVE  j = k
        BY DEF Distinct
      <4>1. DOMAIN b = 1..Len(b) /\ DOMAIN a = 1..Len(a) /\ DOMAIN s = 1..n
        BY <3>1, <3>2
      <4>2. ASSUME NEW x \in 1..Len(a)
            PROVE  a[x].name # s[i].name
        <5>1. PICK m \in 1..(i - 1) : a[x] = s[m]
          BY <3>4
        <5>2. m \in 1..n /\ m # i
          BY <1>1
        <5> QED
          BY <4>1, <5>1, <5>2 DEF Distinct
      <4>3. \A x, y \in 1..Len(a) : a[x].name = a[y].name => x = y
        BY <3>6, <4>1 DEF Distinct
      <4> QED
        BY <3>2, <3>3, <4>1, <4>2, <4>3
    <3>10. Good(i)
      BY <3>2, <3>7, <3>8, <3>9 DEF b
    <3> QED
      BY <3>10
  <2> QED
    BY <2>2, <2>3
<1> HIDE DEF Good
<1>10. Good(n)
  <2> DEFINE Bad == {i \in 0..n : ~Good(i)}
  <2>1. SUFFICES ASSUME Bad # {} PROVE FALSE
    BY <1>1
  <2>2. Bad \subseteq Nat
    BY <1>1
  <2> HIDE DEF Bad
  <2>3. PICK k \in Bad : \A j \in Bad : k <= j
    BY <2>1, <2>2, Least
  <2>4. k \in 0..n /\ ~Good(k)
    BY <2>3 DEF Bad
  <2>5. k \in 1..n /\ k - 1 \in 0..n /\ ~(k <= k - 1)
    BY <1>1, <1>8, <2>4
  <2>6. Good(k - 1)
    BY <2>3, <2>5 DEF Bad
  <2> QED
    BY <1>9, <2>4, <2>5, <2>6
<1> QED
  BY <1>6, <1>10 DEF Good

\* Of these facts, the two that relate the elements.
LEMMA OthersStay ==
    ASSUME NEW R, NEW s \in Seq(R), NEW names
    PROVE  /\ \A j \in 1..Len(Without(s, names)) :
                 \E i \in 1..Len(s) : Without(s, names)[j] = s[i]
           /\ \A i \in 1..Len(s) : s[i].name \notin names =>
                 \E j \in 1..Len(Without(s, names)) : Without(s, names)[j] = s[i]
BY WithoutOthers

-----------------------------------------------------------------------------

\* The sessions file and the worktrees missing in it: unless it is missing, an active
\* worktree is in the file, and another was neither missing nor stuck.
LEMMA PersistNames ==
    ASSUME saved \in Seq(SavedHandle), Distinct(saved), missed \subseteq Name,
           active' \in Seq(Handle), Distinct(active'),
           NEW stuck, stuck \subseteq Name, Persist(stuck)
    PROVE  /\ saved' \in Seq(SavedHandle) /\ Distinct(saved') /\ missed' \subseteq Name
           /\ \A n \in Name : n \notin missed' =>
                 IF n \in Names(active') THEN n \in Names(saved') ELSE n \notin missed \cup stuck
<1> DEFINE entries == [i \in DOMAIN active' |->
                          [name |-> active'[i].name, branch |-> active'[i].branch]]
<1>1. Len(active') \in Nat /\ DOMAIN active' = 1..Len(active')
  OBVIOUS
<1>2. \A i \in 1..Len(active') : active'[i] \in Handle
  OBVIOUS
<1>3. \A i \in 1..Len(active') :
         [name |-> active'[i].name, branch |-> active'[i].branch] \in SavedHandle
  BY <1>2 DEF Handle, SavedHandle
<1>4. entries = [i \in 1..Len(active') |->
                   [name |-> active'[i].name, branch |-> active'[i].branch]]
  BY <1>1
<1>5. \/ saved' = entries /\ missed' = (missed \cup stuck) \ Names(active')
      \/ /\ saved' \in {saved, <<>>}
         /\ missed' = missed \cup stuck \cup ((Names(saved) \cup Names(active')) \ Names(saved'))
  BY DEF Persist
<1> HIDE DEF entries
<1>6. entries \in [1..Len(active') -> SavedHandle]
  BY <1>3, <1>4
<1>7. entries \in Seq(SavedHandle) /\ DOMAIN entries = 1..Len(active')
  BY <1>1, <1>6
<1>8. \A i \in 1..Len(active') : entries[i].name = active'[i].name
  BY <1>4
<1>9. Distinct(entries) /\ Names(entries) = Names(active')
  BY <1>1, <1>7, <1>8 DEF Distinct, Names
<1>10. <<>> \in Seq(SavedHandle) /\ Distinct(<<>>)
  BY DEF Distinct
<1>11. saved' \in Seq(SavedHandle) /\ Distinct(saved')
  BY <1>5, <1>7, <1>9, <1>10
<1>12. Names(saved) \subseteq Name /\ Names(active') \subseteq Name
  <2>1. \A i \in DOMAIN saved : saved[i] \in SavedHandle
    OBVIOUS
  <2> QED
    BY <1>1, <1>2, <2>1 DEF Names, Handle, SavedHandle
<1>13. missed' \subseteq Name
  BY <1>5, <1>12
<1>14. ASSUME NEW n \in Name, n \notin missed'
       PROVE  IF n \in Names(active') THEN n \in Names(saved') ELSE n \notin missed \cup stuck
  BY <1>5, <1>9, <1>14
<1> QED
  BY <1>11, <1>13, <1>14

\* The worktrees that are neither left on purpose nor missing after a failure are found
\* now and after a restart; in the session that created them the base of the active ones is known.
Findable ==
    \A n \in Name : tree[n].there /\ n \notin released \cup missed
                       => n \in Names(active) /\ n \in Names(saved)

BasesKnown ==
    restarts = 0 => \A i \in DOMAIN active : active[i].branch => active[i].base = 0

WorktreesInv == WorktreesTypeOK /\ restarts \in Nat /\ Findable /\ BasesKnown

\* The two trees a worktree starts and ends as are trees.
LEMMA TreeTypes ==
    /\ NoTree \in Tree /\ NewTree \in Tree /\ ~NoTree.there /\ NewTree.there
    /\ \A t \in Tree : t.there \in BOOLEAN /\ t.dirty \in BOOLEAN /\ t.commits \in 0..MaxCommits
<1>1. NoTree \in Tree
  <2> DEFINE none == [there |-> FALSE, commits |-> 0, dirty |-> FALSE, aged |-> FALSE]
  <2>1. NoTree = none
    BY DEF NoTree
  <2>2. none \in Tree
    BY WorktreesAssumption DEF Tree
  <2> HIDE DEF none
  <2> QED
    BY <2>1, <2>2
<1>2. ASSUME NEW t \in Tree
      PROVE  [t EXCEPT !.there = TRUE] \in Tree
  BY DEF Tree
<1>3. NewTree \in Tree
  BY <1>1, <1>2 DEF NewTree
<1>4. \A t \in Tree : t.there \in BOOLEAN /\ t.dirty \in BOOLEAN
  BY Zenon DEF Tree
<1>5. \A t \in Tree : t.commits \in 0..MaxCommits
  BY DEF Tree
<1>6. ~NoTree.there /\ NewTree.there
  BY DEF NewTree, NoTree
<1> QED
  BY <1>1, <1>3, <1>4, <1>5, <1>6

\* Another worktree, active and in the file.
LEMMA CreateKeeps ==
    ASSUME WorktreesInv, NEW n \in Name, Create(n), UNCHANGED <<strays, restarts>>,
           agent' \in [Isolated -> {"none", "working", "over"}], workdir' \in Name \cup {Root}
    PROVE  WorktreesInv'
<1> DEFINE h == [name |-> n, branch |-> TRUE, base |-> 0]
<1>1. /\ n \notin Names(active) /\ active' = Append(active, h) /\ Persist({})
      /\ tree' = [tree EXCEPT ![n] = NewTree] /\ released' = released \ {n}
  BY DEF Create, Add
<1>2. h \in Handle /\ h.name = n /\ h.base = 0
  BY WorktreesAssumption DEF Handle
<1> HIDE DEF h
<1>3. active \in Seq(Handle) /\ Distinct(active) /\ Len(active) \in Nat
  BY DEF WorktreesInv, WorktreesTypeOK
<1>4. /\ active' \in Seq(Handle) /\ Len(active') = Len(active) + 1
      /\ active'[Len(active) + 1] = h /\ \A i \in 1..Len(active) : active'[i] = active[i]
      /\ DOMAIN active' = 1..Len(active') /\ DOMAIN active = 1..Len(active)
  BY <1>1, <1>2, <1>3
<1>5. \A i \in 1..Len(active') : i \in 1..Len(active) \/ i = Len(active) + 1
  BY <1>3, <1>4
<1>6. \A i \in 1..Len(active) : active[i].name # n
  BY <1>1, <1>4 DEF Names
<1>7. Distinct(active')
  BY <1>2, <1>3, <1>4, <1>5, <1>6 DEF Distinct
<1>8. Names(active') = Names(active) \cup {n}
  <2>1. \A i \in 1..Len(active) : i \in 1..Len(active')
    BY <1>3, <1>4
  <2>2. Len(active) + 1 \in 1..Len(active')
    BY <1>3, <1>4
  <2> QED
    BY <1>2, <1>4, <1>5, <2>1, <2>2 DEF Names
<1>9. /\ saved' \in Seq(SavedHandle) /\ Distinct(saved') /\ missed' \subseteq Name
      /\ \A m \in Name : m \notin missed' =>
            IF m \in Names(active') THEN m \in Names(saved') ELSE m \notin missed
  <2>1. saved \in Seq(SavedHandle) /\ Distinct(saved) /\ missed \subseteq Name
    BY DEF WorktreesInv, WorktreesTypeOK
  <2>2. {} \subseteq Name
    OBVIOUS
  <2>3. /\ saved' \in Seq(SavedHandle) /\ Distinct(saved') /\ missed' \subseteq Name
        /\ \A m \in Name : m \notin missed' =>
              IF m \in Names(active') THEN m \in Names(saved') ELSE m \notin missed \cup {}
    BY <1>1, <1>4, <1>7, <2>1, <2>2, PersistNames
  <2> QED
    BY <2>3
<1>10. tree' \in [Name -> Tree] /\ \A m \in Name : tree'[m] = IF m = n THEN NewTree ELSE tree[m]
  BY <1>1, TreeTypes DEF WorktreesInv, WorktreesTypeOK
<1>11. WorktreesTypeOK'
  BY <1>1, <1>4, <1>7, <1>9, <1>10 DEF WorktreesInv, WorktreesTypeOK
<1>12. Findable'
  BY <1>1, <1>8, <1>9, <1>10 DEF WorktreesInv, Findable
<1>13. BasesKnown'
  BY <1>2, <1>4, <1>5 DEF WorktreesInv, BasesKnown
<1> QED
  BY <1>11, <1>12, <1>13 DEF WorktreesInv

\* One that is there and in no record.
LEMMA FailKeeps ==
    ASSUME WorktreesInv, NEW n \in Name, CreateFails(n), UNCHANGED <<strays, restarts>>,
           agent' \in [Isolated -> {"none", "working", "over"}], workdir' \in Name \cup {Root}
    PROVE  WorktreesInv'
<1>1. /\ tree' = [tree EXCEPT ![n] = NewTree] /\ released' = released \ {n}
      /\ missed' = missed \cup {n} /\ UNCHANGED <<active, saved>>
  BY DEF CreateFails, Add
<1>2. tree' \in [Name -> Tree] /\ \A m \in Name : tree'[m] = IF m = n THEN NewTree ELSE tree[m]
  BY <1>1, TreeTypes DEF WorktreesInv, WorktreesTypeOK
<1>3. WorktreesTypeOK'
  BY <1>1, <1>2 DEF WorktreesInv, WorktreesTypeOK
<1>4. Findable' /\ BasesKnown'
  BY <1>1, <1>2 DEF WorktreesInv, Findable, BasesKnown
<1> QED
  BY <1>3, <1>4 DEF WorktreesInv

\* Worktrees go, or are stuck, or are left on purpose, and the file is written.
LEMMA LeaveKeeps ==
    ASSUME WorktreesInv, NEW names, names \subseteq Name,
           NEW stuck, stuck \subseteq Name,
           active' = Without(active, names), Persist(stuck),
           \/ Remove(names, stuck) /\ released' = released
           \/ released' = released \cup names /\ UNCHANGED <<tree, strays>>,
           restarts' = restarts,
           agent' \in [Isolated -> {"none", "working", "over"}], workdir' \in Name \cup {Root}
    PROVE  WorktreesInv'
<1>1. active \in Seq(Handle) /\ Distinct(active)
  BY DEF WorktreesInv, WorktreesTypeOK
<1>2. /\ active' \in Seq(Handle) /\ Distinct(active')
      /\ DOMAIN active = 1..Len(active) /\ DOMAIN active' = 1..Len(active')
  BY <1>1, WithoutOthers
<1>3. /\ \A j \in 1..Len(active') : \E i \in 1..Len(active) : active'[j] = active[i]
      /\ \A i \in 1..Len(active) : active[i].name \notin names =>
            \E j \in 1..Len(active') : active'[j] = active[i]
  <2> DEFINE w == Without(active, names)
  <2>1. /\ \A j \in 1..Len(w) : \E i \in 1..Len(active) : w[j] = active[i]
        /\ \A i \in 1..Len(active) : active[i].name \notin names =>
              \E j \in 1..Len(w) : w[j] = active[i]
    BY <1>1, OthersStay
  <2> HIDE DEF w
  <2>2. active' = w
    BY DEF w
  <2> QED
    BY <2>1, <2>2
<1>4. ASSUME NEW n \in Names(active), n \notin names
      PROVE  n \in Names(active')
  <2>1. PICK i \in 1..Len(active) : active[i].name = n
    BY <1>2 DEF Names
  <2>2. PICK j \in 1..Len(active') : active'[j] = active[i]
    BY <1>3, <1>4, <2>1
  <2> QED
    BY <1>2, <2>1, <2>2 DEF Names
<1>5. /\ saved' \in Seq(SavedHandle) /\ Distinct(saved') /\ missed' \subseteq Name
      /\ \A n \in Name : n \notin missed' =>
            IF n \in Names(active') THEN n \in Names(saved') ELSE n \notin missed \cup stuck
  <2>1. saved \in Seq(SavedHandle) /\ Distinct(saved) /\ missed \subseteq Name
    BY DEF WorktreesInv, WorktreesTypeOK
  <2> QED
    BY <1>2, <2>1, PersistNames
<1>6. /\ tree' \in [Name -> Tree] /\ strays' \subseteq Name /\ released' \subseteq Name
      /\ \A n \in Name : tree'[n].there /\ n \notin released' =>
            tree[n].there /\ n \notin released /\ n \notin names \ stuck
  <2>1. CASE Remove(names, stuck) /\ released' = released
    BY <2>1, TreeTypes DEF Remove, WorktreesInv, WorktreesTypeOK
  <2>2. CASE released' = released \cup names /\ UNCHANGED <<tree, strays>>
    BY <2>2 DEF WorktreesInv, WorktreesTypeOK
  <2> QED
    BY <2>1, <2>2
<1>7. WorktreesTypeOK'
  BY <1>2, <1>5, <1>6 DEF WorktreesTypeOK
<1>8. Findable'
  <2> SUFFICES ASSUME NEW n \in Name, tree'[n].there, n \notin released', n \notin missed'
               PROVE  n \in Names(active') /\ n \in Names(saved')
    BY DEF Findable
  <2>1. n \in Names(active')
    <3> SUFFICES ASSUME n \notin Names(active') PROVE FALSE
      OBVIOUS
    <3>1. n \notin missed /\ n \notin stuck
      BY <1>5
    <3>2. tree[n].there /\ n \notin released /\ n \notin names
      BY <1>6, <3>1
    <3>3. n \in Names(active)
      BY <3>1, <3>2 DEF WorktreesInv, Findable
    <3> QED
      BY <1>4, <3>2, <3>3
  <2> QED
    BY <1>5, <2>1
<1>9. BasesKnown'
  <2> SUFFICES ASSUME restarts = 0, NEW j \in 1..Len(active'), active'[j].branch
               PROVE  active'[j].base = 0
    BY <1>2 DEF BasesKnown
  <2>1. PICK i \in 1..Len(active) : active'[j] = active[i]
    BY <1>3
  <2> QED
    BY <1>2, <2>1 DEF WorktreesInv, BasesKnown
<1> QED
  BY <1>7, <1>8, <1>9 DEF WorktreesInv

\* A handle made anew, in its place or at the end.
LEMMA EnterKeeps ==
    ASSUME WorktreesInv, NEW n \in Name, EnterCommand(n)
    PROVE  WorktreesInv'
<1> DEFINE h == [name |-> n, branch |-> FALSE, base |-> tree[n].commits]
<1>1. /\ active' = Put(active, h) /\ workdir' = n
      /\ UNCHANGED <<tree, strays, saved, missed, agent, released, restarts>>
  BY DEF EnterCommand, Enter, records
<1>2. h \in Handle /\ h.name = n /\ ~h.branch
  <2>1. tree[n].commits \in 0..MaxCommits
    BY TreeTypes DEF WorktreesInv, WorktreesTypeOK
  <2> QED
    BY <2>1 DEF Handle
<1> HIDE DEF h
<1>3. active \in Seq(Handle) /\ Distinct(active) /\ Len(active) \in Nat
      /\ DOMAIN active = 1..Len(active)
  BY DEF WorktreesInv, WorktreesTypeOK
<1>4. CASE n \in Names(active)
  <2>1. active' = [i \in 1..Len(active) |-> IF active[i].name = n THEN h ELSE active[i]]
    BY <1>1, <1>2, <1>3, <1>4 DEF Put
  <2>2. \A i \in 1..Len(active) : active[i] \in Handle
    BY <1>3
  <2>3. active' \in [1..Len(active) -> Handle]
    BY <1>2, <2>1, <2>2
  <2>4. active' \in Seq(Handle) /\ DOMAIN active' = 1..Len(active)
    BY <1>3, <2>3
  <2>5. \A i \in 1..Len(active) :
           active'[i].name = active[i].name /\ (active'[i] = active[i] \/ active'[i] = h)
    BY <1>2, <2>1
  <2>6. Distinct(active') /\ Names(active') = Names(active)
    BY <1>3, <2>4, <2>5 DEF Distinct, Names
  <2>7. WorktreesTypeOK'
    BY <1>1, <2>4, <2>6 DEF WorktreesInv, WorktreesTypeOK
  <2>8. Findable'
    BY <1>1, <2>6 DEF WorktreesInv, Findable
  <2>9. BasesKnown'
    <3> SUFFICES ASSUME restarts = 0, NEW i \in 1..Len(active), active'[i].branch
                 PROVE  active'[i].base = 0
      BY <1>1, <2>4 DEF BasesKnown
    <3> QED
      BY <1>2, <1>3, <2>5 DEF WorktreesInv, BasesKnown
  <2> QED
    BY <1>1, <2>7, <2>8, <2>9 DEF WorktreesInv
<1>5. CASE n \notin Names(active)
  <2>1. active' = Append(active, h)
    BY <1>1, <1>2, <1>5 DEF Put
  <2>2. /\ active' \in Seq(Handle) /\ Len(active') = Len(active) + 1
        /\ active'[Len(active) + 1] = h /\ \A i \in 1..Len(active) : active'[i] = active[i]
        /\ DOMAIN active' = 1..Len(active')
    BY <1>2, <1>3, <2>1
  <2>3. \A i \in 1..Len(active') : i \in 1..Len(active) \/ i = Len(active) + 1
    BY <1>3, <2>2
  <2>4. \A i \in 1..Len(active) : active[i].name # n /\ i \in 1..Len(active')
    BY <1>3, <1>5, <2>2 DEF Names
  <2>5. Distinct(active')
    BY <1>2, <1>3, <2>2, <2>3, <2>4 DEF Distinct
  <2>6. Names(active) \subseteq Names(active')
    BY <1>3, <2>2, <2>4 DEF Names
  <2>7. WorktreesTypeOK'
    BY <1>1, <2>2, <2>5 DEF WorktreesInv, WorktreesTypeOK
  <2>8. Findable'
    BY <1>1, <2>6 DEF WorktreesInv, Findable
  <2>9. BasesKnown'
    BY <1>1, <1>2, <1>3, <2>2, <2>3 DEF WorktreesInv, BasesKnown
  <2> QED
    BY <1>1, <2>7, <2>8, <2>9 DEF WorktreesInv
<1> QED
  BY <1>4, <1>5

\* What is in the worktrees changes, not which there are.
LEMMA WorkKeeps ==
    ASSUME WorktreesInv, tree' \in [Name -> Tree],
           \A n \in Name : tree'[n].there = tree[n].there,
           UNCHANGED <<strays, active, saved, missed, released, restarts>>,
           agent' \in [Isolated -> {"none", "working", "over"}], workdir' \in Name \cup {Root}
    PROVE  WorktreesInv'
BY DEF WorktreesInv, WorktreesTypeOK, Findable, BasesKnown

\* A restart finds the worktrees of the file that are there.
LEMMA RestartKeeps ==
    ASSUME WorktreesInv, Restart
    PROVE  WorktreesInv'
<1> DEFINE gone == {n \in Name : ~tree[n].there}
           found == Without(saved, gone)
<1>1. /\ restarts' = restarts + 1 /\ UNCHANGED <<tree, strays, saved, missed, released>>
      /\ active' = [i \in DOMAIN found |->
                       [name |-> found[i].name, branch |-> found[i].branch,
                        base |-> tree[found[i].name].commits]]
      /\ workdir' = IF found = <<>> THEN Root ELSE found[Len(found)].name
  BY DEF Restart, records
<1>2. agent' \in [Isolated -> {"none", "working", "over"}]
  BY DEF Restart, WorktreesInv, WorktreesTypeOK
<1>3. saved \in Seq(SavedHandle) /\ Distinct(saved) /\ DOMAIN saved = 1..Len(saved)
  BY DEF WorktreesInv, WorktreesTypeOK
<1> HIDE DEF gone
<1>4. /\ found \in Seq(SavedHandle) /\ Distinct(found)
      /\ \A i \in 1..Len(saved) : saved[i].name \notin gone =>
            \E j \in 1..Len(found) : found[j] = saved[i]
  BY <1>3, WithoutOthers
<1> HIDE DEF found
<1>5. Len(found) \in Nat /\ DOMAIN found = 1..Len(found)
      /\ \A i \in 1..Len(found) : found[i] \in SavedHandle
  BY <1>4
<1>6. \A i \in 1..Len(found) :
         /\ found[i].name \in Name /\ found[i].branch \in BOOLEAN
         /\ tree[found[i].name].commits \in 0..MaxCommits
  BY <1>5, TreeTypes DEF SavedHandle, WorktreesInv, WorktreesTypeOK
<1>7. \A i \in 1..Len(found) :
         [name |-> found[i].name, branch |-> found[i].branch,
          base |-> tree[found[i].name].commits] \in Handle
  BY <1>6 DEF Handle
<1>8. active' \in [1..Len(found) -> Handle] /\ \A i \in 1..Len(found) : active'[i].name = found[i].name
  BY <1>1, <1>5, <1>7
<1>9. active' \in Seq(Handle) /\ DOMAIN active' = 1..Len(found)
  BY <1>5, <1>8
<1>10. Distinct(active')
  BY <1>4, <1>5, <1>8, <1>9 DEF Distinct
<1>11. workdir' \in Name \cup {Root}
  <2>1. CASE found = <<>>
    BY <1>1, <2>1
  <2>2. CASE found # <<>>
    <3>1. Len(found) \in 1..Len(found)
      BY <1>4, <1>5, <2>2
    <3> QED
      BY <1>1, <1>6, <2>2, <3>1
  <2> QED
    BY <2>1, <2>2
<1>12. WorktreesTypeOK'
  BY <1>1, <1>2, <1>9, <1>10, <1>11 DEF WorktreesInv, WorktreesTypeOK
<1>13. ASSUME NEW n \in Name, tree[n].there, n \notin released, n \notin missed
       PROVE  n \in Names(active') /\ n \in Names(saved)
  <2>1. n \in Names(saved)
    BY <1>13 DEF WorktreesInv, Findable
  <2>2. PICK i \in 1..Len(saved) : saved[i].name = n
    BY <1>3, <2>1 DEF Names
  <2>3. n \notin gone
    BY <1>13 DEF gone
  <2>4. PICK j \in 1..Len(found) : found[j] = saved[i]
    BY <1>4, <2>2, <2>3
  <2>5. j \in DOMAIN active' /\ active'[j].name = n
    BY <1>8, <1>9, <2>2, <2>4
  <2> QED
    BY <2>1, <2>5 DEF Names
<1>14. Findable'
  BY <1>1, <1>13 DEF Findable
<1>15. restarts' \in Nat /\ restarts' # 0
  BY <1>1 DEF WorktreesInv
<1> QED
  BY <1>12, <1>14, <1>15 DEF WorktreesInv, BasesKnown


\* Every step keeps the worktrees findable from the sessions file.
LEMMA StepKeepsWorktrees ==
    ASSUME WorktreesInv, [WorktreesNext]_worktreeVars
    PROVE  WorktreesInv'
<1> DEFINE AgentType(a) == a \in [Isolated -> {"none", "working", "over"}]
<1>1. /\ tree \in [Name -> Tree] /\ strays \subseteq Name
      /\ active \in Seq(Handle) /\ AgentType(agent) /\ workdir \in Name \cup {Root}
  BY DEF WorktreesInv, WorktreesTypeOK
<1>2. \A n \in Own : n \in Name
  BY DEF Name
<1>3. \A n \in Isolated : n \in Name
  BY DEF Name
<1>4. active # <<>> => active[Len(active)].name \in Name
  <2>1. active # <<>> => active[Len(active)] \in Handle
    BY <1>1
  <2> QED
    BY <2>1 DEF Handle
<1>5. ASSUME tree' = tree, UNCHANGED <<strays, active, saved, missed, released, restarts>>,
             AgentType(agent'), workdir' \in Name \cup {Root}
      PROVE  WorktreesInv'
  BY <1>1, <1>5, WorkKeeps
<1>6. ASSUME NEW names, names \subseteq Name, NEW stuck, stuck \subseteq Name,
             active' = Without(active, names), Persist(stuck),
             Remove(names, stuck), released' = released, restarts' = restarts,
             AgentType(agent'), workdir' \in Name \cup {Root}
      PROVE  WorktreesInv'
  BY <1>6, LeaveKeeps
<1>7. ASSUME NEW n \in Name, NEW action, Exit(n, action), restarts' = restarts,
             agent' = agent, workdir' \in Name \cup {Root}
      PROVE  WorktreesInv'
  <2>1. active' = Without(active, {n}) /\ {n} \subseteq Name
    BY <1>7 DEF Exit
  <2>2. PICK stuck : /\ stuck \subseteq Name /\ Persist(stuck)
                     /\ \/ Remove({n}, stuck) /\ released' = released
                        \/ released' = released \cup {n} /\ UNCHANGED <<tree, strays>>
    <3>1. CASE \E stuck \in Stuck({n}) : Remove({n}, stuck) /\ Persist(stuck) /\ released' = released
      BY <3>1 DEF Stuck
    <3>2. CASE Persist({}) /\ released' = released \cup {n} /\ UNCHANGED <<tree, strays>>
      BY <3>2
    <3> QED
      BY <1>7, <3>1, <3>2 DEF Exit
  <2>3. AgentType(agent')
    BY <1>1, <1>7
  <2> QED
    BY <1>7, <2>1, <2>2, <2>3, LeaveKeeps
<1>8. ASSUME NEW n \in Own, CreateCommand(n)
      PROVE  WorktreesInv'
  <2>1. /\ Create(n) \/ CreateFails(n) \/ UNCHANGED <<tree, active, released, saved, missed>>
        /\ workdir' \in Name \cup {Root}
        /\ UNCHANGED <<strays, agent, restarts>>
    BY <1>1, <1>2, <1>8 DEF CreateCommand, records
  <2> QED
    BY <1>1, <1>2, <1>5, <2>1, CreateKeeps, FailKeeps
<1>9. ASSUME NEW n \in Own, EnterTool(n)
      PROVE  WorktreesInv'
  <2>1. Create(n) \/ CreateFails(n)
    BY <1>9 DEF EnterTool
  <2>2. UNCHANGED <<strays, agent, workdir, restarts>>
    BY <1>9 DEF EnterTool
  <2> QED
    BY <1>1, <1>2, <2>1, <2>2, CreateKeeps, FailKeeps
<1>10. ASSUME NEW n \in Name, Work(n)
       PROVE  WorktreesInv'
  <2>1. UNCHANGED <<strays, active, saved, missed, agent, workdir, released, restarts>>
    BY <1>10 DEF Work, records
  <2>2. tree[n] \in Tree
    BY <1>1
  <2>3. PICK t : /\ tree' = [tree EXCEPT ![n] = t]
                 /\ t \in Tree /\ t.there = tree[n].there
    <3>1. CASE /\ tree[n].commits < MaxCommits
               /\ tree' = [tree EXCEPT ![n] =
                             [tree[n] EXCEPT !.commits = @ + 1, !.dirty = FALSE]]
      <4> DEFINE t == [tree[n] EXCEPT !.commits = @ + 1, !.dirty = FALSE]
      <4>1. t.there = tree[n].there
        BY <2>2 DEF Tree
      <4>2. t \in Tree
        <5>1. tree[n].commits + 1 \in 0..MaxCommits
          BY <2>2, <3>1, WorktreesAssumption DEF Tree
        <5> QED
          BY <2>2, <5>1 DEF Tree
      <4> QED
        BY <3>1, <4>1, <4>2
    <3>2. CASE \E aged \in {tree[n].aged, FALSE} :
                  tree' = [tree EXCEPT ![n] = [tree[n] EXCEPT !.dirty = TRUE, !.aged = aged]]
      <4>1. PICK aged \in {tree[n].aged, FALSE} :
               tree' = [tree EXCEPT ![n] = [tree[n] EXCEPT !.dirty = TRUE, !.aged = aged]]
        BY <3>2
      <4> DEFINE t == [tree[n] EXCEPT !.dirty = TRUE, !.aged = aged]
      <4>2. aged \in BOOLEAN
        BY <2>2, Zenon DEF Tree
      <4>3. t.there = tree[n].there
        BY <2>2 DEF Tree
      <4>4. t \in Tree
        BY <2>2, <4>2 DEF Tree
      <4> QED
        BY <4>1, <4>3, <4>4
    <3> QED
      BY <1>10, <3>1, <3>2 DEF Work
  <2>4. tree' \in [Name -> Tree] /\ \A m \in Name : tree'[m].there = tree[m].there
    BY <1>1, <2>3
  <2> QED
    BY <1>1, <2>1, <2>4, WorkKeeps
<1>11. ASSUME NEW n \in Name, Age(n)
       PROVE  WorktreesInv'
  <2>1. /\ UNCHANGED <<strays, active, saved, missed, agent, workdir, released, restarts>>
        /\ tree' = [tree EXCEPT ![n] = [tree[n] EXCEPT !.aged = TRUE]]
    BY <1>11 DEF Age, records
  <2> DEFINE t == [tree[n] EXCEPT !.aged = TRUE]
  <2>2. tree[n] \in Tree
    BY <1>1
  <2>3. t.there = tree[n].there
    BY <2>2 DEF Tree
  <2>4. t \in Tree
    BY <2>2 DEF Tree
  <2> HIDE DEF t
  <2>5. tree' \in [Name -> Tree] /\ \A m \in Name : tree'[m].there = tree[m].there
    BY <1>1, <2>1, <2>3, <2>4 DEF t
  <2> QED
    BY <1>1, <2>1, <2>5, WorkKeeps
<1>12. ASSUME NEW action \in Action, ExitCommand(action)
       PROVE  WorktreesInv'
  <2>1. /\ active # <<>> /\ Exit(active[Len(active)].name, action)
        /\ workdir' = Root /\ UNCHANGED <<agent, restarts>>
    BY <1>12 DEF ExitCommand
  <2> QED
    BY <1>4, <1>7, <2>1
<1>13. ASSUME NEW action \in Action, NEW discard \in BOOLEAN, ExitTool(action, discard)
       PROVE  WorktreesInv'
  <2>1. /\ active # <<>> /\ Exit(active[Len(active)].name, action)
        /\ UNCHANGED <<agent, workdir, restarts>>
    BY <1>13 DEF ExitTool
  <2> QED
    BY <1>1, <1>4, <1>7, <2>1
<1>14. ASSUME NEW n \in Isolated, NEW to \in {"working", "over"},
              agent' = [agent EXCEPT ![n] = to]
       PROVE  AgentType(agent')
  BY <1>1, <1>14
<1>15. ASSUME NEW n \in Isolated, StartAgent(n)
       PROVE  WorktreesInv'
  <2>1. Create(n) \/ CreateFails(n)
    BY <1>15 DEF StartAgent
  <2>2. UNCHANGED <<strays, workdir, restarts>> /\ AgentType(agent')
    BY <1>1, <1>14, <1>15 DEF StartAgent
  <2> QED
    BY <1>1, <1>3, <2>1, <2>2, CreateKeeps, FailKeeps
<1>16. ASSUME NEW n \in Isolated, FinishAgent(n)
       PROVE  WorktreesInv'
  <2>1. UNCHANGED <<workdir, released, restarts>> /\ AgentType(agent')
    BY <1>14, <1>16 DEF FinishAgent
  <2>2. \/ UNCHANGED <<tree, strays, active, saved, missed>>
        \/ /\ active' = Without(active, {n})
           /\ \E stuck \in Stuck({n}) : Remove({n}, stuck) /\ Persist(stuck)
    BY <1>16 DEF FinishAgent, records
  <2>3. {n} \subseteq Name /\ \A stuck \in Stuck({n}) : stuck \subseteq Name
    BY <1>3 DEF Stuck
  <2> QED
    BY <1>1, <1>5, <1>6, <2>1, <2>2, <2>3
<1>17. ASSUME NEW n \in Isolated, FailAgent(n)
       PROVE  WorktreesInv'
  <2>1. /\ UNCHANGED <<tree, strays, active, saved, missed, workdir, released, restarts>>
        /\ AgentType(agent')
    BY <1>14, <1>17 DEF FailAgent, records
  <2> QED
    BY <1>1, <1>5, <2>1
<1>18. CASE CleanupStale
  <2> DEFINE stale == {n \in Names(active) : ~tree[n].there \/ tree[n].aged}
  <2>1. /\ active' = Without(active, stale)
        /\ \E stuck \in Stuck(stale) : Remove(stale, stuck) /\ Persist(stuck)
        /\ UNCHANGED <<agent, workdir, released, restarts>>
    BY <1>18 DEF CleanupStale
  <2>2. stale \subseteq Name
    <3>1. \A i \in DOMAIN active : active[i] \in Handle
      BY <1>1
    <3>2. Names(active) \subseteq Name
      BY <3>1 DEF Names, Handle
    <3> QED
      BY <3>2
  <2> HIDE DEF stale
  <2>3. \A stuck \in Stuck(stale) : stuck \subseteq Name
    BY <2>2 DEF Stuck
  <2> QED
    BY <1>1, <1>6, <2>1, <2>2, <2>3
<1>19. CASE UNCHANGED worktreeVars
  BY <1>1, <1>5, <1>19 DEF worktreeVars, records
<1> QED
  BY <1>8, <1>9, <1>10, <1>11, <1>12, <1>13, <1>15, <1>16, <1>17, <1>18, <1>19,
     EnterKeeps, RestartKeeps DEF WorktreesNext

\* It holds in every reachable state.
LEMMA WorktreesInvariant == WorktreesSpec => []WorktreesInv
<1>1. WorktreesInit => WorktreesInv
  <2> SUFFICES ASSUME WorktreesInit PROVE WorktreesInv
    OBVIOUS
  <2>1. active = <<>> /\ saved = <<>> /\ restarts = 0 /\ strays = {} /\ released = {}
        /\ missed = {}
    BY DEF WorktreesInit
  <2>2. tree = [n \in Name |-> NoTree] /\ agent = [n \in Isolated |-> "none"] /\ workdir = Root
    BY DEF WorktreesInit
  <2>3. tree \in [Name -> Tree] /\ \A n \in Name : ~tree[n].there
    BY <2>2, TreeTypes
  <2>4. WorktreesTypeOK
    BY <2>1, <2>2, <2>3 DEF WorktreesTypeOK, Distinct
  <2> QED
    BY <2>1, <2>3, <2>4 DEF WorktreesInv, Findable, BasesKnown
<1>2. WorktreesInv /\ [WorktreesNext]_worktreeVars => WorktreesInv'
  BY StepKeepsWorktrees
<1> QED
  BY <1>1, <1>2, PTL DEF WorktreesSpec

\* Every handle is of a worktree that has a name, once among the active ones and once
\* in the file.
THEOREM WorktreesTypesStay == WorktreesSpec => []WorktreesTypeOK
<1>1. WorktreesInv => WorktreesTypeOK
  BY DEF WorktreesInv
<1> QED
  BY <1>1, WorktreesInvariant, PTL

\* No worktree is ever left behind that nobody meant to leave, but after a failure: for
\* every set of failures, and however many.
THEOREM NoneForgotten == WorktreesSpec => []NothingForgotten
<1>1. WorktreesInv => NothingForgotten
  BY DEF WorktreesInv, Findable, NothingForgotten
<1> QED
  BY <1>1, WorktreesInvariant, PTL

\* When git answers, the clean-up after a sub-agent and ExitWorktree that is not to
\* discard changes destroy no work.
THEOREM WorkIsKept == "git" \notin Faults => (WorktreesSpec => RemovalKeepsWork)
<1> SUFFICES ASSUME "git" \notin Faults PROVE WorktreesSpec => RemovalKeepsWork
  OBVIOUS
<1>1. \A n, base : Changes(n, base) = {tree[n].dirty \/ tree[n].commits > base}
  BY DEF Changes
<1>2. ASSUME NEW n \in Isolated, FinishAgent(n), NEW m \in Name, Lost(m)
      PROVE  FALSE
  <2>1. tree[m].there /\ ~tree'[m].there /\ (tree[m].dirty \/ tree[m].commits > 0)
    BY <1>2 DEF Lost
  <2>2. tree' # tree
    BY <2>1
  <2>3. FALSE \in Changes(n, 0) /\ \E stuck : Remove({n}, stuck)
    BY <1>2, <2>2 DEF FinishAgent
  <2>4. ~tree[n].dirty /\ ~(tree[n].commits > 0)
    BY <1>1, <2>3
  <2>5. m = n
    BY <2>1, <2>3 DEF Remove
  <2> QED
    BY <2>1, <2>4, <2>5
<1>3. ASSUME WorktreesInv, ExitTool("remove", FALSE), NEW n \in Name, Lost(n)
      PROVE  restarts > 0 /\ ~tree[n].dirty
  <2> DEFINE last == Len(active)
             h == active[last]
  <2>1. /\ active # <<>> /\ FALSE \in Changes(h.name, h.base)
        /\ \E stuck : Remove({h.name}, stuck)
    BY <1>3 DEF ExitTool, Exit
  <2>2. active \in Seq(Handle) /\ Distinct(active)
    BY <1>3 DEF WorktreesInv, WorktreesTypeOK
  <2>3. last \in DOMAIN active /\ h \in Handle
    BY <2>1, <2>2
  <2> HIDE DEF h, last
  <2>4. ~tree[h.name].dirty /\ ~(tree[h.name].commits > h.base)
    BY <1>1, <2>1
  <2>5. tree[n].there /\ ~tree'[n].there /\ (tree[n].dirty \/ (tree[n].commits > 0 /\ n \notin strays'))
    BY <1>3 DEF Lost
  <2>6. PICK stuck : Remove({h.name}, stuck)
    BY <2>1
  <2>7. n = h.name /\ n \notin stuck
    BY <2>5, <2>6 DEF Remove
  <2>8. tree[n].commits > 0 /\ n \notin strays'
    BY <2>4, <2>5, <2>7
  <2>9. HandleOf(n).branch
    BY <2>5, <2>6, <2>7, <2>8 DEF Remove
  <2>10. HandleOf(n) = h
    <3>1. \A i \in DOMAIN active : active[i].name = n <=> i = last
      BY <2>2, <2>3, <2>7 DEF Distinct, h
    <3>2. (CHOOSE i \in DOMAIN active : active[i].name = n) = last
      BY <2>3, <3>1
    <3> QED
      BY <3>2 DEF HandleOf, h
  <2>11. restarts = 0 => h.base = 0
    BY <1>3, <2>3, <2>9, <2>10 DEF WorktreesInv, BasesKnown, h
  <2>12. restarts # 0
    BY <2>4, <2>7, <2>8, <2>11
  <2> QED
    BY <1>3, <2>4, <2>7, <2>12 DEF WorktreesInv
<1> DEFINE A == \A n \in Name : Lost(n) =>
                   /\ \A s \in Isolated : ~FinishAgent(s)
                   /\ ExitTool("remove", FALSE) => restarts > 0 /\ ~tree[n].dirty
<1>4. WorktreesInv /\ [WorktreesNext]_worktreeVars => [A]_worktreeVars
  BY <1>2, <1>3
<1>5. RemovalKeepsWork <=> [][A]_worktreeVars
  BY DEF RemovalKeepsWork
<1> QED
  BY <1>4, <1>5, WorktreesInvariant, PTL DEF WorktreesSpec

-----------------------------------------------------------------------------
(* The index tells what the files say.                                     *)

Defined == UNION {t.defs : t \in Text \cup {NoText}}
Used == UNION {t.uses : t \in Text \cup {NoText}}

Index == [map : [Path -> Nat], symbols : SUBSET (Path \X Defined),
          imports : SUBSET (Path \X Path),
          calls : SUBSET (Path \X Used \X (Path \cup {"none"})),
          references : SUBSET (Path \X Used)]

Leads(e, texts, told) ==
    \E m \in texts[e[1]].imports, way \in told :
        \E i \in DOMAIN Candidates[way][m] : Candidates[way][m][i] = e[2]

\* What an index says of a file that is as it was seen is what the file says.
Says(index, texts, stamps, told) ==
    /\ \A s \in index.symbols : /\ index.map[s[1]] # 0
                                /\ index.map[s[1]] = stamps[s[1]] => s[2] \in texts[s[1]].defs
    /\ \A e \in index.imports : /\ index.map[e[1]] # 0 /\ index.map[e[2]] # 0
                                /\ index.map[e[1]] = stamps[e[1]] => Leads(e, texts, told)
    /\ \A e \in index.calls : /\ index.map[e[1]] # 0
                              /\ index.map[e[1]] = stamps[e[1]] => e[2] \in texts[e[1]].uses
    /\ \A r \in index.references : /\ index.map[r[1]] # 0
                                   /\ index.map[r[1]] = stamps[r[1]] => r[2] \in texts[r[1]].uses

\* Of such a file it holds every symbol.
Holds(index, texts, stamps) ==
    \A f \in Path : index.map[f] # 0 /\ index.map[f] = stamps[f] =>
        \A name \in texts[f].defs : <<f, name>> \in index.symbols

Seen(index, n) == index \in Index /\ \A f \in Path : index.map[f] <= n

Sound(index, texts, stamps, told, n) ==
    Seen(index, n) /\ Says(index, texts, stamps, told) /\ Holds(index, texts, stamps)

Stages == {"idle", "stat", "symbols", "imports", "calls", "write", "fill", "mirror", "loaded"}

\* A stamp is never given twice, so a file with the stamp it was seen with has the text it
\* was seen with; a process that is still to gather symbols holds none.
IndexInv ==
    /\ edits \in Nat /\ stamp \in [Path -> 0..edits]
    /\ text \in [Path -> Text \cup {NoText}] /\ \A f \in Path : stamp[f] = 0 => text[f] = NoText
    /\ text[Config].paths \in ways
    /\ \A index \in json : Sound(index, text, stamp, ways, edits)
    /\ work \in [Process -> [pc : Stages, old : Index, new : Index]]
    /\ \A p \in Process :
          /\ Sound(work[p].old, text, stamp, ways, edits)
          /\ Seen(work[p].new, edits) /\ Says(work[p].new, text, stamp, ways)
          /\ work[p].pc # "symbols" => Holds(work[p].new, text, stamp)

\* An index of nothing is sound.
LEMMA NothingIsSound ==
    ASSUME NEW n \in Nat, NEW texts, NEW stamps, NEW told
    PROVE  Sound(Nothing, texts, stamps, told, n)
<1>1. Nothing \in Index
  BY DEF Nothing, Index
<1>2. Nothing.map = [f \in Path |-> 0] /\ Nothing.symbols = {} /\ Nothing.imports = {}
      /\ Nothing.calls = {} /\ Nothing.references = {}
  BY DEF Nothing
<1> QED
  BY <1>1, <1>2 DEF Sound, Seen, Says, Holds

\* An edit takes nothing from what an index says of the files as they were seen.
LEMMA EditKeepsSound ==
    ASSUME NEW n \in Nat, NEW f \in Path, NEW stamps \in [Path -> 0..n], NEW s \in {0, n + 1},
           NEW texts \in [Path -> Text \cup {NoText}], NEW t, NEW told, NEW told2, told \subseteq told2,
           NEW index, Seen(index, n)
    PROVE  LET texts2 == [texts EXCEPT ![f] = t]
               stamps2 == [stamps EXCEPT ![f] = s]
           IN /\ Seen(index, n + 1)
              /\ Says(index, texts, stamps, told) => Says(index, texts2, stamps2, told2)
              /\ Holds(index, texts, stamps) => Holds(index, texts2, stamps2)
<1> DEFINE texts2 == [texts EXCEPT ![f] = t]
           stamps2 == [stamps EXCEPT ![f] = s]
<1>1. \A g \in Path : index.map[g] \in Nat /\ index.map[g] <= n
  BY DEF Seen, Index
<1>2. index \in Index
  BY DEF Seen
<1>3. Seen(index, n + 1)
  BY <1>1, <1>2 DEF Seen
<1>4. \A g \in Path : index.map[g] # 0 /\ index.map[g] = stamps2[g] =>
         index.map[g] = stamps[g] /\ texts2[g] = texts[g]
  BY <1>1
<1>5. ASSUME Says(index, texts, stamps, told) PROVE Says(index, texts2, stamps2, told2)
  <2>1. /\ \A x \in index.symbols : x[1] \in Path
        /\ \A x \in index.imports : x[1] \in Path
        /\ \A x \in index.calls : x[1] \in Path
        /\ \A x \in index.references : x[1] \in Path
    BY <1>2 DEF Index
  <2> HIDE DEF texts2, stamps2
  <2> QED
    BY <1>4, <1>5, <2>1 DEF Says, Leads
<1>6. ASSUME Holds(index, texts, stamps) PROVE Holds(index, texts2, stamps2)
  BY <1>4, <1>6 DEF Holds
<1> QED
  BY <1>3, <1>5, <1>6

\* A call leads to a file of the index or nowhere.
LEMMA CalleeType ==
    ASSUME NEW f \in Path, NEW name, NEW symbols \in SUBSET (Path \X Defined)
    PROVE  Callee(f, name, symbols) \in Path \cup {"none"}
<1> DEFINE all == {s \in symbols : s[2] = name}
<1>1. CASE Cardinality(all) = 1
  <2>1. all # {}
    BY <1>1, FS_EmptySet
  <2>2. (CHOOSE s \in all : TRUE) \in all
    BY <2>1
  <2>3. (CHOOSE s \in all : TRUE)[1] \in Path
    BY <2>2
  <2> QED
    BY <2>3 DEF Callee
<1>2. CASE Cardinality(all) # 1
  BY <1>2 DEF Callee
<1> QED
  BY <1>1, <1>2

\* What a process does with its own index.
LEMMA OwnIndexKeeps ==
    ASSUME IndexInv, NEW p \in Process, NEW w \in [pc : Stages, old : Index, new : Index],
           Sound(w.old, text, stamp, ways, edits),
           Seen(w.new, edits), Says(w.new, text, stamp, ways),
           w.pc # "symbols" => Holds(w.new, text, stamp),
           work' = [work EXCEPT ![p] = w], UNCHANGED workspace,
           \A index \in json' : Sound(index, text, stamp, ways, edits)
    PROVE  IndexInv'
<1>1. \A q \in Process : work'[q] = IF q = p THEN w ELSE work[q]
  BY DEF IndexInv
<1>2. work' \in [Process -> [pc : Stages, old : Index, new : Index]]
  BY DEF IndexInv
<1> QED
  BY <1>1, <1>2 DEF IndexInv, workspace

\* Loading, and leaving: the process starts from nothing or from what is in the file.
LEMMA LoadKeeps ==
    ASSUME IndexInv, NEW p \in Process,
           (\E refresh \in BOOLEAN : Load(p, refresh)) \/ Leave(p) \/ Stat(p)
    PROVE  IndexInv'
<1> DEFINE Working == [pc : Stages, old : Index, new : Index]
<1>0. /\ \A i \in json : Sound(i, text, stamp, ways, edits) /\ i \in Index
      /\ edits \in Nat /\ work[p] \in Working /\ Sound(work[p].old, text, stamp, ways, edits)
      /\ Sound(Nothing, text, stamp, ways, edits) /\ Nothing \in Index
  BY NothingIsSound DEF IndexInv, Sound, Seen
<1>1. ASSUME Leave(p) \/ \E refresh \in BOOLEAN : Load(p, refresh)
      PROVE  \E i \in json \cup {Nothing} : \E w \in {Idle, [Idle EXCEPT !.pc = "stat"],
                 [Idle EXCEPT !.pc = "loaded", !.new = i], [Idle EXCEPT !.pc = "stat", !.old = i]} :
                    work' = [work EXCEPT ![p] = w]
  <2>1. CASE Leave(p)
    BY <2>1 DEF Leave
  <2>2. CASE \E refresh \in BOOLEAN : Load(p, refresh)
    BY <2>2 DEF Load
  <2> QED
    BY <1>1, <2>1, <2>2
<1>2. CASE Leave(p) \/ \E refresh \in BOOLEAN : Load(p, refresh)
  <2>1. PICK i \in json \cup {Nothing} : \E w \in {Idle, [Idle EXCEPT !.pc = "stat"],
                 [Idle EXCEPT !.pc = "loaded", !.new = i], [Idle EXCEPT !.pc = "stat", !.old = i]} :
                    work' = [work EXCEPT ![p] = w]
    BY <1>1, <1>2
  <2>2. PICK w \in {Idle, [Idle EXCEPT !.pc = "stat"],
                 [Idle EXCEPT !.pc = "loaded", !.new = i], [Idle EXCEPT !.pc = "stat", !.old = i]} :
                    work' = [work EXCEPT ![p] = w]
    BY <2>1
  <2>3. w \in Working /\ w.old \in {Nothing, i} /\ w.new \in {Nothing, i}
    <3>1. Idle \in Working /\ Idle.old = Nothing /\ Idle.new = Nothing /\ i \in Index
      BY <1>0 DEF Idle, Stages
    <3>2. CASE w = Idle
      BY <3>1, <3>2
    <3>3. CASE w = [Idle EXCEPT !.pc = "stat"]
      BY <3>1, <3>3 DEF Stages
    <3>4. CASE w = [Idle EXCEPT !.pc = "loaded", !.new = i]
      BY <3>1, <3>4 DEF Stages
    <3>5. CASE w = [Idle EXCEPT !.pc = "stat", !.old = i]
      BY <3>1, <3>5 DEF Stages
    <3> QED
      BY <2>2, <3>2, <3>3, <3>4, <3>5
  <2>4. UNCHANGED <<workspace, json>>
    BY <1>2 DEF Load, Leave
  <2>5. Sound(i, text, stamp, ways, edits)
    BY <1>0
  <2> QED
    BY <1>0, <2>2, <2>3, <2>4, <2>5, OwnIndexKeeps DEF Sound
<1>3. CASE Stat(p)
  <2> DEFINE seen == [Nothing EXCEPT !.map = stamp]
             w == [work[p] EXCEPT !.new = seen, !.pc = "symbols"]
  <2>1. seen \in Index /\ seen.map = stamp /\ seen.symbols = {} /\ seen.imports = {}
        /\ seen.calls = {} /\ seen.references = {}
    BY DEF IndexInv, Nothing, Index
  <2>2. Seen(seen, edits) /\ Says(seen, text, stamp, ways)
    BY <2>1 DEF IndexInv, Seen, Says
  <2> HIDE DEF seen
  <2>3. w \in Working /\ w.old = work[p].old /\ w.new = seen /\ w.pc = "symbols"
    BY <1>0, <2>1 DEF Stages
  <2>4. work' = [work EXCEPT ![p] = w] /\ UNCHANGED <<workspace, json>>
    BY <1>3 DEF Stat, Move, seen
  <2> HIDE DEF w
  <2> QED
    BY <1>0, <2>2, <2>3, <2>4, OwnIndexKeeps
<1> QED
  BY <1>2, <1>3

\* What every gathering step starts from.
Gathering(p, index, pc) ==
    /\ work' = [work EXCEPT ![p] = [@ EXCEPT !.new = index, !.pc = pc]]
    /\ UNCHANGED <<workspace, json>>

LEMMA GatheredKeeps ==
    ASSUME IndexInv, NEW p \in Process, NEW index, NEW pc \in Stages \ {"symbols"},
           Gathering(p, index, pc), Sound(index, text, stamp, ways, edits)
    PROVE  IndexInv'
<1> DEFINE w == [work[p] EXCEPT !.new = index, !.pc = pc]
<1>1. work[p] \in [pc : Stages, old : Index, new : Index] /\ index \in Index
  BY DEF IndexInv, Sound, Seen
<1>2. w \in [pc : Stages, old : Index, new : Index] /\ w.old = work[p].old /\ w.new = index
      /\ w.pc = pc
  BY <1>1
<1>3. work' = [work EXCEPT ![p] = w] /\ UNCHANGED <<workspace, json>>
  BY DEF Gathering
<1> HIDE DEF w
<1> QED
  BY <1>2, <1>3, OwnIndexKeeps DEF IndexInv, Sound

\* The symbols of the files that changed are read, those of the others are kept.
LEMMA SymbolsKeep ==
    ASSUME IndexInv, NEW p \in Process, GatherSymbols(p)
    PROVE  IndexInv'
<1> DEFINE old == work[p].old
           new == work[p].new
           unchanged == Unchanged(old.map, new.map)
           symbols == KeptFrom(old.symbols, unchanged) \cup SymbolsIn(ReadTexts(p))
           index == [new EXCEPT !.symbols = symbols]
<1>0. old \in Index /\ new \in Index /\ Sound(old, text, stamp, ways, edits) /\ Seen(new, edits)
      /\ Says(new, text, stamp, ways) /\ text \in [Path -> Text \cup {NoText}]
  BY DEF IndexInv, Sound, Seen
<1>1. Gathering(p, index, "imports")
  BY DEF GatherSymbols, Move, Gathering
<1>2. /\ \A f \in unchanged : f \in Path /\ new.map[f] # 0 /\ new.map[f] = old.map[f]
      /\ \A f \in ReadTexts(p) : f \in Path /\ new.map[f] # 0
      /\ \A f \in Path : new.map[f] # 0 => f \in unchanged \/ f \in ReadTexts(p)
  BY DEF Unchanged, Known, ReadTexts, Changed
<1> HIDE DEF unchanged
<1>3. \A s \in symbols : \/ s \in old.symbols /\ s[1] \in unchanged
                         \/ s[1] \in ReadTexts(p) /\ s[2] \in text[s[1]].defs
                            /\ s \in Path \X Defined
  <2>1. \A s \in SymbolsIn(ReadTexts(p)) : s[1] \in ReadTexts(p) /\ s[2] \in text[s[1]].defs
                                            /\ s \in Path \X Defined
    <3> SUFFICES ASSUME NEW f \in ReadTexts(p), NEW name \in text[f].defs
                 PROVE  <<f, name>> \in Path \X Defined
      BY DEF SymbolsIn
    <3>1. text[f] \in Text \cup {NoText}
      BY <1>0, <1>2
    <3> QED
      BY <1>2, <3>1 DEF Defined
  <2> QED
    BY <2>1 DEF KeptFrom
<1>4. \A f \in ReadTexts(p) : \A name \in text[f].defs : <<f, name>> \in symbols
  BY DEF SymbolsIn
<1>5. \A s \in old.symbols : s[1] \in unchanged => s \in symbols
  BY DEF KeptFrom
<1>6. symbols \in SUBSET (Path \X Defined)
  BY <1>0, <1>3 DEF Index
<1> HIDE DEF symbols
<1>7. index \in Index /\ index.map = new.map /\ index.symbols = symbols
      /\ index.imports = new.imports /\ index.calls = new.calls
      /\ index.references = new.references
  BY <1>0, <1>6 DEF Index
<1> HIDE DEF index, new, old
<1>8. Says(index, text, stamp, ways)
  <2>1. \A s \in symbols : /\ new.map[s[1]] # 0
                           /\ new.map[s[1]] = stamp[s[1]] => s[2] \in text[s[1]].defs
    BY <1>0, <1>2, <1>3 DEF Sound, Says
  <2> QED
    BY <1>0, <1>7, <2>1 DEF Says
<1>9. Holds(index, text, stamp)
  <2> SUFFICES ASSUME NEW f \in Path, new.map[f] # 0, new.map[f] = stamp[f],
                      NEW name \in text[f].defs
               PROVE  <<f, name>> \in symbols
    BY <1>7 DEF Holds
  <2>1. CASE f \in ReadTexts(p)
    BY <1>4, <2>1
  <2>2. CASE f \in unchanged
    <3>1. <<f, name>> \in old.symbols
      BY <1>0, <1>2, <2>2 DEF Sound, Holds
    <3> QED
      BY <1>5, <2>2, <3>1
  <2> QED
    BY <1>2, <2>1, <2>2
<1>10. Sound(index, text, stamp, ways, edits)
  BY <1>0, <1>7, <1>8, <1>9 DEF Sound, Seen
<1> QED
  BY <1>1, <1>10, GatheredKeeps DEF Stages

\* Imports lead from the files that are read, or from unchanged ones, to known files.
LEMMA ImportsKeep ==
    ASSUME IndexInv, NEW p \in Process, GatherImports(p)
    PROVE  IndexInv'
<1> DEFINE old == work[p].old
           new == work[p].new
           known == Known(new.map)
           unchanged == Unchanged(old.map, new.map)
           imports == {e \in KeptFrom(old.imports, unchanged) : e[2] \in known}
                          \cup ImportsIn(ReadTexts(p), known)
           index == [new EXCEPT !.imports = imports]
<1>0. old \in Index /\ new \in Index /\ Sound(old, text, stamp, ways, edits) /\ Sound(new, text, stamp, ways, edits)
  BY DEF IndexInv, Sound, Seen, GatherImports, At
<1>1. Gathering(p, index, "calls")
  BY DEF GatherImports, Move, Gathering
<1>2. /\ \A f \in unchanged : f \in Path /\ new.map[f] # 0 /\ new.map[f] = old.map[f]
      /\ \A f \in ReadTexts(p) : f \in Path /\ new.map[f] # 0
      /\ \A f \in known : f \in Path /\ new.map[f] # 0
  BY DEF Unchanged, Known, ReadTexts, Changed
<1> HIDE DEF unchanged, known
<1>3. \A e \in ImportsIn(ReadTexts(p), known) :
         e \in Path \X Path /\ e[1] \in ReadTexts(p) /\ e[2] \in known /\ Leads(e, text, ways)
  <2> SUFFICES ASSUME NEW f \in ReadTexts(p), NEW m \in text[f].imports, NEW target \in Resolve(m, known)
               PROVE  /\ <<f, target>> \in Path \X Path /\ target \in known
                      /\ Leads(<<f, target>>, text, ways)
    BY DEF ImportsIn
  <2> DEFINE way == text[Config].paths
  <2>1. \E i \in DOMAIN Candidates[way][m] : Candidates[way][m][i] = target /\ target \in known
    BY DEF Resolve
  <2>2. way \in ways
    BY DEF IndexInv
  <2> QED
    BY <1>2, <2>1, <2>2 DEF Leads
<1>4. \A e \in imports : \/ e \in old.imports /\ e[1] \in unchanged /\ e[2] \in known
                         \/ e \in ImportsIn(ReadTexts(p), known)
  BY DEF KeptFrom
<1>5. imports \in SUBSET (Path \X Path)
  BY <1>0, <1>3, <1>4 DEF Index
<1> HIDE DEF imports
<1>6. index \in Index /\ index.map = new.map /\ index.symbols = new.symbols
      /\ index.imports = imports /\ index.calls = new.calls
      /\ index.references = new.references
  BY <1>0, <1>5 DEF Index
<1> HIDE DEF index, new, old
<1>7. Says(index, text, stamp, ways)
  <2>1. \A e \in imports : /\ new.map[e[1]] # 0 /\ new.map[e[2]] # 0
                           /\ new.map[e[1]] = stamp[e[1]] => Leads(e, text, ways)
    BY <1>0, <1>2, <1>3, <1>4 DEF Sound, Says
  <2> QED
    BY <1>0, <1>6, <2>1 DEF Sound, Says
<1>8. Sound(index, text, stamp, ways, edits)
  BY <1>0, <1>6, <1>7 DEF Sound, Seen, Holds
<1> QED
  BY <1>1, <1>8, GatheredKeeps DEF Stages

\* Calls and references are uses of names in the files they start from.
LEMMA CallsKeep ==
    ASSUME IndexInv, NEW p \in Process, GatherCalls(p)
    PROVE  IndexInv'
<1> DEFINE old == work[p].old
           new == work[p].new
           unchanged == Unchanged(old.map, new.map)
           calls == {e \in KeptFrom(old.calls, unchanged) : e[3] \in Known(new.map) \cup {"none"}}
                        \cup CallsIn(ReadTexts(p), new.symbols)
           references == KeptFrom(old.references, unchanged)
                        \cup ReferencesIn(ReadTexts(p), new.symbols)
           index == [new EXCEPT !.calls = calls, !.references = references]
<1>0. old \in Index /\ new \in Index /\ Sound(old, text, stamp, ways, edits) /\ Sound(new, text, stamp, ways, edits)
      /\ text \in [Path -> Text \cup {NoText}]
  BY DEF IndexInv, Sound, Seen, GatherCalls, At
<1>1. Gathering(p, index, "write")
  BY DEF GatherCalls, Move, Gathering
<1>2. /\ \A f \in unchanged : f \in Path /\ new.map[f] # 0 /\ new.map[f] = old.map[f]
      /\ \A f \in ReadTexts(p) : f \in Path /\ new.map[f] # 0
  BY DEF Unchanged, Known, ReadTexts, Changed
<1> HIDE DEF unchanged
<1>u. \A f \in Path : text[f].uses \subseteq Used
  BY <1>0 DEF Used
<1>3. \A e \in CallsIn(ReadTexts(p), new.symbols) :
         e \in Path \X Used \X (Path \cup {"none"}) /\ e[1] \in ReadTexts(p) /\ e[2] \in text[e[1]].uses
  <2> SUFFICES ASSUME NEW f \in ReadTexts(p), NEW n \in text[f].uses
               PROVE  <<f, n, Callee(f, n, new.symbols)>> \in Path \X Used \X (Path \cup {"none"})
    BY DEF CallsIn
  <2>1. new.symbols \in SUBSET (Path \X Defined) /\ f \in Path
    BY <1>0, <1>2 DEF Index
  <2>2. Callee(f, n, new.symbols) \in Path \cup {"none"}
    BY <2>1, CalleeType
  <2> QED
    BY <1>u, <2>1, <2>2
<1>4. \A r \in ReferencesIn(ReadTexts(p), new.symbols) :
         r \in Path \X Used /\ r[1] \in ReadTexts(p) /\ r[2] \in text[r[1]].uses
  BY <1>2, <1>u DEF ReferencesIn
<1>5. /\ \A e \in calls : \/ e \in old.calls /\ e[1] \in unchanged
                         \/ e \in CallsIn(ReadTexts(p), new.symbols)
      /\ \A r \in references : \/ r \in old.references /\ r[1] \in unchanged
                              \/ r \in ReferencesIn(ReadTexts(p), new.symbols)
  BY DEF KeptFrom
<1>6. calls \in SUBSET (Path \X Used \X (Path \cup {"none"})) /\ references \in SUBSET (Path \X Used)
  BY <1>0, <1>3, <1>4, <1>5 DEF Index
<1> HIDE DEF calls, references
<1>7. index \in Index /\ index.map = new.map /\ index.symbols = new.symbols
      /\ index.imports = new.imports /\ index.calls = calls
      /\ index.references = references
  BY <1>0, <1>6 DEF Index
<1> HIDE DEF index, new, old
<1>8. Says(index, text, stamp, ways)
  <2>1. \A e \in calls : /\ new.map[e[1]] # 0
                         /\ new.map[e[1]] = stamp[e[1]] => e[2] \in text[e[1]].uses
    BY <1>0, <1>2, <1>3, <1>5 DEF Sound, Says
  <2>2. \A r \in references : /\ new.map[r[1]] # 0
                              /\ new.map[r[1]] = stamp[r[1]] => r[2] \in text[r[1]].uses
    BY <1>0, <1>2, <1>4, <1>5 DEF Sound, Says
  <2> QED
    BY <1>0, <1>7, <2>1, <2>2 DEF Sound, Says
<1>9. Sound(index, text, stamp, ways, edits)
  BY <1>0, <1>7, <1>8 DEF Sound, Seen, Holds
<1> QED
  BY <1>1, <1>9, GatheredKeeps DEF Stages

\* Writing: the file holds nothing or the index of the process.
LEMMA WriteKeeps ==
    ASSUME IndexInv, NEW p \in Process, Write(p) \/ \E succeeds \in BOOLEAN : Mirror(p, succeeds)
    PROVE  IndexInv'
<1>0. work[p] \in [pc : Stages, old : Index, new : Index] /\ work[p].pc \in {"write", "fill", "mirror"}
      /\ UNCHANGED workspace
  BY DEF IndexInv, Write, Mirror, At
<1>1. Sound(work[p].new, text, stamp, ways, edits)
  BY <1>0 DEF IndexInv, Sound
<1>2. json' \subseteq json \cup {work[p].new}
  BY DEF Write, Mirror, Written, Torn
<1>3. PICK pc \in {"fill", "mirror", "loaded"} :
         work' = [work EXCEPT ![p] = [@ EXCEPT !.new = work[p].new, !.pc = pc]]
  BY DEF Write, Mirror, Move
<1> DEFINE w == [work[p] EXCEPT !.new = work[p].new, !.pc = pc]
<1>4. w \in [pc : Stages, old : Index, new : Index] /\ w.old = work[p].old /\ w.new = work[p].new
  BY <1>0 DEF Stages
<1>5. work' = [work EXCEPT ![p] = w]
  BY <1>3
<1>6. \A i \in json' : Sound(i, text, stamp, ways, edits)
  BY <1>1, <1>2 DEF IndexInv
<1> HIDE DEF w
<1> QED
  BY <1>0, <1>1, <1>4, <1>5, <1>6, OwnIndexKeeps DEF IndexInv, Sound

\* A file is edited while indexes of it are in the file and in the making.
LEMMA EditKeeps ==
    ASSUME IndexInv, NEW f \in Path, NEW new \in Text \cup {NoText}, Edit(f, new)
    PROVE  IndexInv'
<1> DEFINE s == IF new = NoText THEN 0 ELSE edits + 1
<1>0. /\ edits \in Nat /\ edits' = edits + 1 /\ stamp \in [Path -> 0..edits]
      /\ text \in [Path -> Text \cup {NoText}]
      /\ stamp' = [stamp EXCEPT ![f] = s] /\ text' = [text EXCEPT ![f] = new]
      /\ UNCHANGED <<json, work>> /\ ways \subseteq ways' /\ text'[Config].paths \in ways'
  BY DEF IndexInv, Edit
<1>1. s \in {0, edits + 1} /\ (s = 0 => new = NoText)
  BY <1>0
<1> HIDE DEF s
<1>2. stamp' \in [Path -> 0..(edits + 1)] /\ text' \in [Path -> Text \cup {NoText}]
      /\ \A g \in Path : stamp'[g] = 0 => text'[g] = NoText
  BY <1>0, <1>1 DEF IndexInv
<1>3. \A i : Seen(i, edits) =>
         /\ Seen(i, edits') /\ (Says(i, text, stamp, ways) => Says(i, text', stamp', ways'))
         /\ (Holds(i, text, stamp) => Holds(i, text', stamp'))
  BY <1>0, <1>1, EditKeepsSound
<1>4. \A i \in json' : Sound(i, text', stamp', ways', edits')
  BY <1>0, <1>3 DEF IndexInv, Sound
<1>5. \A p \in Process :
         /\ Sound(work'[p].old, text', stamp', ways', edits')
         /\ Seen(work'[p].new, edits') /\ Says(work'[p].new, text', stamp', ways')
         /\ work'[p].pc # "symbols" => Holds(work'[p].new, text', stamp')
  BY <1>0, <1>3 DEF IndexInv, Sound
<1>6. edits' \in Nat /\ stamp' \in [Path -> 0..edits']
  BY <1>0, <1>2
<1>7. work' \in [Process -> [pc : Stages, old : Index, new : Index]]
  BY <1>0 DEF IndexInv
<1>8. text'[Config].paths \in ways'
  BY <1>0
<1> QED
  BY <1>2, <1>4, <1>5, <1>6, <1>7, <1>8 DEF IndexInv

\* Whoever edits while whoever indexes, an index that passes for current tells what the
\* files say (index.py:366: the fingerprint is of the sizes and times of all files), and
\* its edges of imports what they say with a tsconfig.json the project has had.
THEOREM IndexStaysFresh == IndexSpec => []FreshWhenCurrent
<1>1. IndexInit => IndexInv
  <2> SUFFICES ASSUME IndexInit PROVE IndexInv
    OBVIOUS
  <2>1. edits = 1 /\ text \in [Path -> Text \cup {NoText}] /\ json = {}
    BY IndexAssumption DEF IndexInit, NoFile
  <2>2. stamp \in [Path -> 0..1] /\ \A f \in Path : stamp[f] = 0 => text[f] = NoText
    BY <2>1 DEF IndexInit
  <2>3. Sound(Nothing, text, stamp, ways, edits) /\ Nothing \in Index
    BY <2>1, NothingIsSound DEF Sound, Seen
  <2>4. Idle \in [pc : Stages, old : Index, new : Index] /\ Idle.old = Nothing /\ Idle.new = Nothing
    BY <2>3 DEF Idle, Stages
  <2>5. \A p \in Process : work[p] = Idle
    BY DEF IndexInit
  <2>6. work \in [Process -> [pc : Stages, old : Index, new : Index]]
    BY <2>4 DEF IndexInit
  <2>7. text[Config].paths \in ways
    BY DEF IndexInit
  <2> QED
    BY <2>1, <2>2, <2>3, <2>4, <2>5, <2>6, <2>7 DEF IndexInv, Sound
<1>2. IndexInv /\ [IndexNext]_indexVars => IndexInv'
  <2> SUFFICES ASSUME IndexInv, [IndexNext]_indexVars PROVE IndexInv'
    OBVIOUS
  <2>1. CASE UNCHANGED indexVars
    BY <2>1 DEF IndexInv, indexVars, workspace
  <2>2. CASE IndexNext
    BY <2>2, EditKeeps, LoadKeeps, SymbolsKeep, ImportsKeep, CallsKeep, WriteKeeps DEF IndexNext
  <2> QED
    BY <2>1, <2>2
<1>3. IndexInv => FreshWhenCurrent
  <2> SUFFICES ASSUME IndexInv, NEW index \in json, Current(index)
               PROVE  /\ index.symbols = SymbolsIn(Path)
                      /\ \A e \in index.imports : stamp[e[2]] # 0 /\ MayImport(e, ways)
                      /\ \A e \in index.calls : e[2] \in text[e[1]].defs \cup text[e[1]].uses
                      /\ \A r \in index.references : r[2] \in text[r[1]].uses
    BY DEF FreshWhenCurrent
  <2>1. index \in Index /\ index.map = stamp /\ Says(index, text, stamp, ways) /\ Holds(index, text, stamp)
    BY DEF IndexInv, Sound, Seen, Current
  <2>2. \A f \in Path : stamp[f] = 0 => text[f].defs = {}
    BY DEF IndexInv, NoText
  <2>3. ASSUME NEW x PROVE x \in index.symbols <=> x \in SymbolsIn(Path)
    <3>1. x \in SymbolsIn(Path) <=> \E f \in Path : \E name \in text[f].defs : x = <<f, name>>
      BY DEF SymbolsIn
    <3>2. ASSUME x \in index.symbols PROVE x[1] \in Path /\ x[2] \in text[x[1]].defs /\ x = <<x[1], x[2]>>
      BY <2>1, <3>2 DEF Index, Says
    <3>3. ASSUME NEW f \in Path, NEW name \in text[f].defs PROVE <<f, name>> \in index.symbols
      BY <2>1, <2>2 DEF Holds
    <3> QED
      BY <3>1, <3>2, <3>3
  <2>4. ASSUME NEW e \in index.imports PROVE stamp[e[2]] # 0 /\ MayImport(e, ways)
    <3>1. e \in Path \X Path
      BY <2>1 DEF Index
    <3>2. stamp[e[2]] # 0 /\ Leads(e, text, ways)
      BY <2>1, <3>1 DEF Says
    <3> QED
      BY <3>2 DEF MayImport, Leads
  <2> QED
    BY <2>1, <2>3, <2>4 DEF Says
<1> QED
  BY <1>1, <1>2, <1>3, PTL DEF IndexSpec

=============================================================================
