-------------------------- MODULE SyntaxStructure --------------------------
(***************************************************************************)
(* A syntax structure of the decoder (src/Syntax/Aggregator.h, Parser.h)   *)
(* is storage for a fixed list of elements, of which onParse constructs    *)
(* ("embeds") and parses some, in an order and under conditions of its     *)
(* own.  get<E>() hands out the storage of E whether E was constructed or  *)
(* not: an element that was not is raw memory.                             *)
(*                                                                         *)
(* Here an onParse is data: a sequence of steps, each embedding, parsing,  *)
(* reading or assigning elements, under the condition of the ifs around    *)
(* it.  Execute runs one over the values the bitstream sends.              *)
(***************************************************************************)
EXTENDS Integers, Sequences, TLC

---------------------------------------------------------------------------
\* Elements: a descriptor, the value a constructor gives ({} when it gives
\* none: an array nobody fills) and the element it is taken from, if any.

U1(v) == [code |-> "u1", init |-> {v}, from |-> {}]
Un(v) == [code |-> "un", init |-> {v}, from |-> {}]
Uv(v) == [code |-> "uv", init |-> {v}, from |-> {}]
Ue(v) == [code |-> "ue", init |-> {v}, from |-> {}]
Se(v) == [code |-> "se", init |-> {v}, from |-> {}]
Ae(v) == [code |-> "ae", init |-> {v}, from |-> {}]
Derived(v) == [code |-> "derived", init |-> {v}, from |-> {}]
Bare(code) == [code |-> code, init |-> {}, from |-> {}]
From(code, source) == [code |-> code, init |-> {}, from |-> {source}]

---------------------------------------------------------------------------
\* Conditions: a conjunction (sequence) of clauses, each a disjunction
\* (sequence) of tests; && and || stop at the first operand that decides.

On(e) == [of |-> e, values |-> {0}, holds |-> FALSE]
Off(e) == [of |-> e, values |-> {0}, holds |-> TRUE]
In(e, S) == [of |-> e, values |-> S, holds |-> TRUE]
NotIn(e, S) == [of |-> e, values |-> S, holds |-> FALSE]

TestHolds(env, t) == t.of \in DOMAIN env /\ (env[t.of] \in t.values) = t.holds
ClauseHolds(env, c) == \E i \in DOMAIN c : TestHolds(env, c[i])
Holds(env, when) == \A i \in DOMAIN when : ClauseHolds(env, when[i])

\* The elements that evaluating a condition reads.
ReadByClause(env, c) ==
    LET deciding == {i \in DOMAIN c : TestHolds(env, c[i])}
    IN  {c[i].of : i \in {j \in DOMAIN c : \A k \in deciding : j <= k}}
ReadByCondition(env, when) ==
    LET deciding == {i \in DOMAIN when : ~ClauseHolds(env, when[i])}
    IN  UNION {ReadByClause(env, when[i]) :
                 i \in {j \in DOMAIN when : \A k \in deciding : j <= k}}

---------------------------------------------------------------------------
\* Steps of an onParse.

Instruction(op, ids, v) == <<[op |-> op, ids |-> ids, value |-> v, when |-> <<>>]>>
Embed(ids) == Instruction("embed", ids, 0)
Parse(ids) == Instruction("parse", ids, 0)
Read(ids) == Instruction("read", ids, 0)
Assign(id, v) == Instruction("assign", {id}, v)

\* if(...) { steps }: one clause, or a conjunction of them.
IfAll(clauses, steps) == [i \in DOMAIN steps |-> [steps[i] EXCEPT !.when = clauses \o @]]
If(t, steps) == IfAll(<< <<t>> >>, steps)
IfAny(tests, steps) == IfAll(<<tests>>, steps)

\* embed<E>(*this, ...): the constructor's value, when it gives one.
Sources(table, ids) == UNION {table[e].from : e \in ids}
Constructed(table, env, ids) ==
    [e \in {d \in ids : table[d].init # {} \/ table[d].from \cap DOMAIN env # {}} |->
        IF table[e].init # {} THEN CHOOSE v \in table[e].init : TRUE
        ELSE env[CHOOSE s \in table[e].from : TRUE]]

Perform(table, sent, acc, s) ==
    CASE s.op = "embed" ->
           [acc EXCEPT !.env = Constructed(table, @, s.ids) @@ @,
                       !.undefined = @ \cup (Sources(table, s.ids) \ DOMAIN acc.env)]
      [] s.op = "parse" ->
           [acc EXCEPT !.env = [e \in s.ids |-> sent[e]] @@ @,
                       !.parsed = @ \cup s.ids]
      [] s.op = "read" ->
           [acc EXCEPT !.undefined = @ \cup (s.ids \ DOMAIN acc.env)]
      [] s.op = "assign" ->
           [acc EXCEPT !.env = [e \in s.ids |-> s.value] @@ @]

PerformIf(table, sent, acc, s) ==
    LET checked == [acc EXCEPT !.undefined =
                       @ \cup (ReadByCondition(acc.env, s.when) \ DOMAIN acc.env)]
    IN  IF Holds(acc.env, s.when) THEN Perform(table, sent, checked, s) ELSE checked

\* Step(...Step(Step(start, seq[1]), seq[2])..., seq[Len(seq)]), a part of
\* PartLength steps at a time: TLC keeps the recursion of a part on its stack.
PartLength == 12
Accumulate(Step(_, _), start, seq) ==
    LET Part(before, k) ==
            LET from == PartLength * (k - 1)
                to == IF from + PartLength < Len(seq) THEN from + PartLength ELSE Len(seq)
                after[n \in from .. to] ==
                    IF n = from THEN before ELSE Step(after[n - 1], seq[n])
            IN  after[to]
        parts[k \in 0 .. Len(seq)] ==
            IF k = 0 THEN start
            ELSE CHOOSE now \in {Part(before, k) : before \in {parts[k - 1]}} : TRUE
    IN  parts[(Len(seq) + PartLength - 1) \div PartLength]

\* Run the steps over the bitstream `sent`, starting from the values `env`.
Execute(table, sent, env, steps) ==
    Accumulate(LAMBDA acc, s : PerformIf(table, sent, acc, s),
               [env |-> env, undefined |-> {}, parsed |-> {}], steps)

\* The elements a sequence of steps mentions, and those its conditions test.
Mentioned(steps) == UNION {steps[i].ids : i \in DOMAIN steps}
Tested(steps) ==
    UNION {UNION {{steps[i].when[j][k].of : k \in DOMAIN steps[i].when[j]} :
                    j \in DOMAIN steps[i].when} : i \in DOMAIN steps}
==============================================================================
