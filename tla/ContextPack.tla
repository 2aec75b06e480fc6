---------------------------- MODULE ContextPack ----------------------------
(***************************************************************************)
(* The context compiler: candidates of many kinds, each with a priority,   *)
(* packed into a budget of tokens, highest first; and the selections made  *)
(* before the packing.  Only the remembered facts of the pack are used.    *)
(***************************************************************************)
EXTENDS Integers, Sequences, FiniteSets, SequencesExt

Priority == [project_map |-> 90, skill |-> 92, memory |-> 88, symbol |-> 88,
             call |-> 87, import |-> 87, reference |-> 86, changed |-> 85,
             omitted |-> 84, tools |-> 80, plans |-> 65, error |-> 95]

\* A candidate [kind, source, tokens]; sources are numbered in their order.
Weight(c) == Priority[c.kind] * 1000 + c.source

\* sorted(..., key=(priority, source), reverse=True).
Ranked(candidates) == SetToSortSeq(candidates, LAMBDA c, d : Weight(c) > Weight(d))

\* Whatever fits into what is left is taken; empty items never are.
Pack(candidates, reserved, budget) ==
    FoldLeft(LAMBDA pack, c :
                 IF c.tokens > 0 /\ pack.used + c.tokens <= budget
                 THEN [items |-> Append(pack.items, c), used |-> pack.used + c.tokens]
                 ELSE pack,
             [items |-> <<>>, used |-> reserved], Ranked(candidates))

\* dict.fromkeys keeps the first of equal paths; the last `limit` are selected.
Distinct(paths) ==
    FoldLeft(LAMBDA seen, f : IF Contains(seen, f) THEN seen ELSE Append(seen, f), <<>>, paths)

SelectChanged(paths, limit) ==
    LET unique == Distinct(paths)
    IN SubSeq(unique, Len(unique) - limit + 1, Len(unique))

\* Of equal entries the last read is kept; the strongest `limit` are selected.
EvidencePriority(e) ==
    40 + [error |-> 35, test |-> 30, patch |-> 25, decision |-> 20, file |-> 15,
          checkpoint |-> 10, policy |-> 5][e.kind] + (e.confidence * 40) \div 100

SelectEvidence(entries, limit) ==
    {e \in entries : Cardinality({x \in entries :
        \/ EvidencePriority(x) > EvidencePriority(e)
        \/ EvidencePriority(x) = EvidencePriority(e) /\ x.at > e.at}) < limit}

\* recall_memories: records that share a word with the task, best first, that
\* name no file that has gone.
Score(task, r) == 2 * Cardinality(task \cap r.strong)
                      + Cardinality((task \cap r.weak) \ r.strong)

Recall(records, task, files, limit) ==
    LET scored == {r \in records : Score(task, r) > 0}
        before(r, q) == \/ Score(task, r) > Score(task, q)
                        \/ Score(task, r) = Score(task, q) /\ r.name < q.name
        fresh == SelectSeq(SetToSortSeq(scored, before), LAMBDA r : r.names \subseteq files)
    IN ToSet(SubSeq(fresh, 1, IF Len(fresh) < limit THEN Len(fresh) ELSE limit))
=============================================================================
