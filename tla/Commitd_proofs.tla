---------------------------- MODULE Commitd_proofs ----------------------------
(***************************************************************************)
(* vyos-commitd and the list of dependent scripts: what a call leaves in   *)
(* the list, whose Config object a script runs with, and that a commit     *)
(* without an error has applied what was registered, for any scripts, any  *)
(* dependents and any number of sessions and calls.                        *)
(***************************************************************************)
EXTENDS Commitd, SequenceTheorems, TLAPS

\* The calls of the session and their replies.
CallsOK ==
    /\ gen \in 0..MaxCommits /\ phase \in {"idle", "next", "run", "frr"}
    /\ calls \in Sessions \cup {<<>>} /\ replies \in Seq({"ok", "fail"})
    /\ Len(replies) <= Len(calls)
    /\ phase \in {"run", "frr"} => Len(replies) < Len(calls)
    /\ phase = "frr" => Len(replies) + 1 = Len(calls)
    /\ phase = "idle" => Len(replies) = Len(calls)
    /\ gen = 0 => phase = "idle"
    /\ gen > 0 => calls # <<>>

\* What belongs to the Config object of each session.
ConfigsOK ==
    /\ dry \in [Gens -> BOOLEAN]
    /\ commit \in [Gens -> SUBSET (Scripts \cup Missing)]
    /\ called \in [Gens -> SUBSET Scripts]

\* The lists: that of vyos.configdep itself and those of sessions to come are
\* empty.
ListsOK ==
    /\ list \in [0..MaxCommits -> Seq(Scripts)]
    /\ \A g \in 0..MaxCommits : IsInjective(list[g])
    /\ \A g \in 0..MaxCommits : g = 0 \/ g > gen => list[g] = <<>>
    /\ bound \in 0..gen

\* A running script: only a caller of call_dependents registers anything, and
\* what it has registered is in the list that call_dependents will find.
FrameOK(f, g) ==
    /\ f \in Frame /\ f.cfg <= g /\ f.l <= g
    /\ f.reg \/ f.deps # <<>> => f.script \in Callers
    /\ f.reg /\ f.at = "call_dependents" => f.l = f.cfg
    /\ f.at # "get_config" => f.deps = <<>>

\* Only the innermost script is not in call_dependents.
StackOK ==
    /\ stack \in Seq(Frame) /\ (stack # <<>> <=> phase = "run")
    /\ \A i \in DOMAIN stack : FrameOK(stack[i], gen)
    /\ \A i \in DOMAIN stack : i < Len(stack) => stack[i].at = "call_dependents"
    /\ \A i \in DOMAIN stack : stack[i].reg /\ stack[i].at # "call_dependents" => bound = stack[i].cfg

HistoryOK ==
    /\ owed \subseteq Scripts /\ current \subseteq Scripts
    /\ flaw \in {"none", "failed", "ignored"}
    /\ rendered \in 0..MaxCommits

\* A script that will work off the list of the session.
Drains(f, g) == (f.reg /\ f.cfg = g) \/ (f.at = "call_dependents" /\ f.l = g)

\* Without an error, somebody works off the list of the session.
Drained ==
    flaw = "none" /\ list[gen] # <<>> => \E i \in DOMAIN stack : Drains(stack[i], gen)

\* Without an error in them, the sessions before this one left empty lists.
NoLeftovers ==
    tainted = {} => \A g \in 0..MaxCommits : g # gen => list[g] = <<>>

\* The sets that run_conditionally looks at say what the session has called
\* and what it will call.
CallsKnown ==
    /\ \A g \in Gens : g > gen => called[g] = {}
    /\ gen > 0 =>
        /\ commit[gen] = ToSet(calls)
        /\ \A k \in DOMAIN calls : k <= Begun /\ calls[k] \in Scripts => calls[k] \in called[gen]
        /\ \A s \in called[gen] : \E k \in DOMAIN calls : k <= Begun /\ calls[k] = s

\* A dependent that is still owed is pending, running or has its call to come.
Running(s) ==
    \E i \in DOMAIN stack :
        stack[i].script = s /\ stack[i].cfg = gen /\ stack[i].at # "call_dependents"

OwedAccounted ==
    gen > 0 /\ flaw = "none" /\ ~dry[gen] =>
        \A s \in owed : Pending(s) \/ Running(s) \/ ToCome(s)

\* FRR has the configuration of this session once all calls have succeeded.
RenderedWhenDone ==
    gen > 0 /\ Len(replies) = Len(calls) /\ ToSet(replies) \subseteq {"ok"} => rendered = gen

\* Without an error no call has been answered with one.
FlawlessReplies == flaw = "none" => ToSet(replies) \subseteq {"ok"}

CommitdInv ==
    /\ CallsOK /\ ConfigsOK /\ ListsOK /\ StackOK /\ HistoryOK
    /\ Drained /\ NoLeftovers /\ CallsKnown /\ OwedAccounted /\ RenderedWhenDone /\ FlawlessReplies
    /\ CallIsolated /\ OwnConfig

-----------------------------------------------------------------------------
(* Sequences.                                                              *)

LEMMA RemoveAtFacts ==
    ASSUME NEW S, NEW l \in Seq(S), NEW k \in 1..Len(l)
    PROVE  /\ RemoveAt(l, k) \in Seq(S) /\ Len(RemoveAt(l, k)) = Len(l) - 1
           /\ \A i \in 1..(Len(l) - 1) : RemoveAt(l, k)[i] = IF i < k THEN l[i] ELSE l[i + 1]
<1> DEFINE before == SubSeq(l, 1, k - 1)
           after == SubSeq(l, k + 1, Len(l))
           r == before \o after
<1>1. Len(l) \in Nat /\ \A i \in 1..Len(l) : l[i] \in S
  OBVIOUS
<1>2. before \in Seq(S) /\ Len(before) = k - 1 /\ \A i \in 1..(k - 1) : before[i] = l[i]
  BY <1>1, SubSeqProperties
<1>3. /\ after \in Seq(S) /\ Len(after) = Len(l) - k
      /\ \A i \in 1..(Len(l) - k) : after[i] = l[k + i]
  BY <1>1, SubSeqProperties
<1> HIDE DEF before, after
<1>4. /\ r \in Seq(S) /\ Len(r) = Len(before) + Len(after)
      /\ \A i \in 1..(Len(before) + Len(after)) :
            r[i] = IF i <= Len(before) THEN before[i] ELSE after[i - Len(before)]
  BY <1>2, <1>3, ConcatProperties
<1> HIDE DEF r
<1>5. ASSUME NEW i \in 1..(Len(l) - 1)
      PROVE  r[i] = IF i < k THEN l[i] ELSE l[i + 1]
  <2>1. i \in 1..(Len(before) + Len(after))
    BY <1>1, <1>2, <1>3
  <2>2. CASE i < k
    BY <1>1, <1>2, <1>4, <2>1, <2>2
  <2>3. CASE i >= k
    <3>1. r[i] = after[i - (k - 1)]
      BY <1>1, <1>2, <1>4, <2>1, <2>3
    <3>2. i - (k - 1) \in 1..(Len(l) - k) /\ k + (i - (k - 1)) = i + 1
      BY <1>1, <2>3
    <3> QED BY <1>3, <2>3, <3>1, <3>2
  <2> QED BY <1>1, <2>2, <2>3
<1>6. r \in Seq(S) /\ Len(r) = Len(l) - 1
  BY <1>1, <1>2, <1>3, <1>4
<1>7. RemoveAt(l, k) = r
  BY DEF RemoveAt, r, before, after
<1> QED BY <1>5, <1>6, <1>7

\* append_uniq: nothing is lost, the new name is there, and no name twice.
LEMMA AppendUniqFacts ==
    ASSUME NEW S, NEW l \in Seq(S), IsInjective(l), NEW e \in S
    PROVE  /\ AppendUniq(l, e) \in Seq(S) /\ IsInjective(AppendUniq(l, e))
           /\ ToSet(AppendUniq(l, e)) = ToSet(l) \cup {e}
<1>1. CASE e \notin ToSet(l)
  <2>1. AppendUniq(l, e) = Append(l, e)
    BY <1>1 DEF AppendUniq
  <2> QED BY <1>1, <2>1 DEF IsInjective, ToSet
<1>2. CASE e \in ToSet(l)
  <2>1. PICK i \in 1..Len(l) : i = (CHOOSE j \in DOMAIN l : l[j] = e) /\ l[i] = e
    BY <1>2 DEF ToSet
  <2> DEFINE r == RemoveAt(l, i)
             a == Append(r, e)
             n == Len(l)
             old(j) == IF j < i THEN j ELSE IF j = n THEN i ELSE j + 1
  <2>2. /\ r \in Seq(S) /\ Len(r) = n - 1
        /\ \A j \in 1..(n - 1) : r[j] = IF j < i THEN l[j] ELSE l[j + 1]
    BY RemoveAtFacts
  <2>3. AppendUniq(l, e) = a
    BY <1>2, <2>1 DEF AppendUniq
  <2> HIDE DEF r
  <2>4. /\ a \in Seq(S) /\ Len(a) = n /\ a[n] = e
        /\ \A j \in 1..(n - 1) : a[j] = r[j]
    BY <2>2
  <2> HIDE DEF a
  <2>5. n \in Nat /\ i \in 1..n
    BY <2>1
  <2> HIDE DEF n
  <2>6. \A j \in 1..n : old(j) \in 1..n /\ a[j] = l[old(j)]
    BY <2>1, <2>2, <2>4, <2>5
  <2>7. \A j, k \in 1..n : old(j) = old(k) => j = k
    BY <2>5
  <2>8. \A j \in 1..n : \E k \in 1..n : old(k) = j
    <3> SUFFICES ASSUME NEW j \in 1..n PROVE \E k \in 1..n : old(k) = j
      OBVIOUS
    <3>1. CASE j < i
      BY <2>5, <3>1
    <3>2. CASE j = i
      <4>1. old(n) = i /\ n \in 1..n
        BY <2>5
      <4> QED BY <3>2, <4>1
    <3>3. CASE j > i
      <4>1. old(j - 1) = j /\ j - 1 \in 1..n
        BY <2>5, <3>3
      <4> QED BY <4>1
    <3> QED BY <2>5, <3>1, <3>2, <3>3
  <2>9. DOMAIN l = 1..n /\ DOMAIN a = 1..n
    BY <2>4 DEF n
  <2> HIDE DEF old
  <2>10. IsInjective(a)
    BY <2>6, <2>7, <2>9 DEF IsInjective
  <2>11. ToSet(a) = ToSet(l)
    <3>1. ASSUME NEW j \in 1..n PROVE l[j] \in ToSet(a)
      <4>1. PICK k \in 1..n : old(k) = j
        BY <2>8
      <4> QED BY <2>6, <2>9, <4>1 DEF ToSet
    <3>2. ASSUME NEW j \in 1..n PROVE a[j] \in ToSet(l)
      BY <2>6, <2>9 DEF ToSet
    <3> QED BY <2>9, <3>1, <3>2 DEF ToSet
  <2> QED BY <1>2, <2>3, <2>4, <2>10, <2>11
<1> QED BY <1>1, <1>2

LEMMA TailFacts ==
    ASSUME NEW S, NEW l \in Seq(S), l # <<>>
    PROVE  /\ Head(l) \in S /\ Tail(l) \in Seq(S)
           /\ IsInjective(l) => IsInjective(Tail(l))
           /\ ToSet(l) = {Head(l)} \cup ToSet(Tail(l))
<1>1. Head(l) \in S /\ Tail(l) \in Seq(S) /\ Len(Tail(l)) = Len(l) - 1
  OBVIOUS
<1>2. Head(l) = l[1] /\ \A j \in 1..Len(Tail(l)) : Tail(l)[j] = l[j + 1]
  OBVIOUS
<1>3. IsInjective(l) => IsInjective(Tail(l))
  BY <1>1, <1>2 DEF IsInjective
<1>4. ASSUME NEW j \in DOMAIN l, j # 1 PROVE l[j] \in ToSet(Tail(l))
  <2>1. j - 1 \in 1..Len(Tail(l)) /\ Tail(l)[j - 1] = l[j]
    BY <1>1, <1>2, <1>4
  <2> QED BY <1>1, <2>1 DEF ToSet
<1>5. ToSet(Tail(l)) \subseteq ToSet(l) /\ Head(l) \in ToSet(l)
  BY <1>1, <1>2 DEF ToSet
<1> QED BY <1>1, <1>2, <1>3, <1>4, <1>5 DEF ToSet

LEMMA TailNew ==
    ASSUME NEW S, NEW l \in Seq(S), l # <<>>, IsInjective(l)
    PROVE  Head(l) \notin ToSet(Tail(l))
<1>1. /\ Len(Tail(l)) = Len(l) - 1 /\ Head(l) = l[1] /\ Tail(l) \in Seq(S)
      /\ \A j \in 1..Len(Tail(l)) : Tail(l)[j] = l[j + 1]
  OBVIOUS
<1>2. \A j \in 1..Len(Tail(l)) : j + 1 \in DOMAIN l /\ 1 \in DOMAIN l /\ j + 1 # 1
  BY <1>1
<1>3. \A j \in 1..Len(Tail(l)) : l[j + 1] # l[1]
  BY <1>2 DEF IsInjective
<1> QED BY <1>1, <1>3 DEF ToSet

LEMMA ReplyAppended ==
    ASSUME NEW r \in Seq({"ok", "fail"}), NEW x \in {"ok", "fail"}
    PROVE  /\ Append(r, x) \in Seq({"ok", "fail"}) /\ Len(Append(r, x)) = Len(r) + 1
           /\ ToSet(Append(r, x)) = ToSet(r) \cup {x}
<1>1. Append(r, x) \in Seq({"ok", "fail"}) /\ Len(Append(r, x)) = Len(r) + 1
  OBVIOUS
<1>2. \A i \in 1..Len(r) : Append(r, x)[i] = r[i]
  OBVIOUS
<1>3. Append(r, x)[Len(r) + 1] = x
  OBVIOUS
<1> QED BY <1>1, <1>2, <1>3 DEF ToSet

\* The stack after each kind of step.
LEMMA StackSteps ==
    ASSUME NEW S, NEW q \in Seq(S), q # <<>>, NEW f \in S
    PROVE  /\ Len(q) \in Nat \ {0} /\ Len(q) \in DOMAIN q
           /\ [q EXCEPT ![Len(q)] = f] \in Seq(S)
           /\ Len([q EXCEPT ![Len(q)] = f]) = Len(q)
           /\ \A i \in 1..Len(q) :
                [q EXCEPT ![Len(q)] = f][i] = IF i = Len(q) THEN f ELSE q[i]
           /\ Front(q) \in Seq(S) /\ Len(Front(q)) = Len(q) - 1
           /\ \A i \in 1..(Len(q) - 1) : Front(q)[i] = q[i]
           /\ Append(q, f) \in Seq(S) /\ Len(Append(q, f)) = Len(q) + 1
           /\ \A i \in 1..(Len(q) + 1) : Append(q, f)[i] = IF i = Len(q) + 1 THEN f ELSE q[i]
<1>1. Len(q) \in Nat \ {0} /\ Len(q) \in DOMAIN q /\ \A i \in 1..Len(q) : q[i] \in S
  OBVIOUS
<1>2. /\ [q EXCEPT ![Len(q)] = f] \in Seq(S)
      /\ Len([q EXCEPT ![Len(q)] = f]) = Len(q)
      /\ \A i \in 1..Len(q) : [q EXCEPT ![Len(q)] = f][i] = IF i = Len(q) THEN f ELSE q[i]
  OBVIOUS
<1>3. /\ Front(q) \in Seq(S) /\ Len(Front(q)) = Len(q) - 1
      /\ \A i \in 1..(Len(q) - 1) : Front(q)[i] = q[i]
  <2> DEFINE n == Len(q) - 1
  <2>1. n \in Nat /\ \A i \in 1..n : q[i] \in S
    BY <1>1
  <2> HIDE DEF n
  <2>2. /\ SubSeq(q, 1, n) \in Seq(S) /\ Len(SubSeq(q, 1, n)) = n
        /\ \A i \in 1..n : SubSeq(q, 1, n)[i] = q[i]
    BY <2>1, SubSeqProperties
  <2> QED BY <2>2 DEF Front, n
<1>4. /\ Append(q, f) \in Seq(S) /\ Len(Append(q, f)) = Len(q) + 1
      /\ \A i \in 1..(Len(q) + 1) : Append(q, f)[i] = IF i = Len(q) + 1 THEN f ELSE q[i]
  OBVIOUS
<1> QED BY <1>1, <1>2, <1>3, <1>4

-----------------------------------------------------------------------------
(* The stack and the calls.                                                *)

\* The innermost scripts return, down to n that stay.
Cut(n) ==
    /\ phase = "run" /\ n \in Nat /\ n < Len(stack)
    /\ stack' \in Seq(Frame) /\ Len(stack') = n /\ \A i \in 1..n : stack'[i] = stack[i]
    /\ IF n = 0 THEN ReplyOk ELSE UNCHANGED <<phase, replies>>

LEMMA ReturnCuts ==
    ASSUME StackOK, phase = "run", Return
    PROVE  Cut(Len(stack) - 1)
<1>1. stack \in Seq(Frame) /\ stack # <<>>
  BY DEF StackOK
<1>2. stack[1] \in Frame /\ Len(stack) \in Nat \ {0}
  BY <1>1
<1>3. /\ Front(stack) \in Seq(Frame) /\ Len(Front(stack)) = Len(stack) - 1
      /\ \A i \in 1..(Len(stack) - 1) : Front(stack)[i] = stack[i]
  BY <1>1, <1>2, StackSteps
<1> QED BY <1>2, <1>3 DEF Return, Cut

LEMMA CaughtCuts ==
    ASSUME StackOK, Caught
    PROVE  \E n \in Nat : Cut(n)
<1>1. PICK i \in Catchers :
        /\ stack' = SubSeq(stack, 1, i - 1)
        /\ IF i = 1 THEN ReplyOk ELSE UNCHANGED <<phase, replies>>
  BY DEF Caught
<1> DEFINE n == i - 1
<1>2. stack \in Seq(Frame) /\ i \in 1..(Len(stack) - 1) /\ Len(stack) \in Nat
  BY DEF StackOK, Catchers
<1>3. n \in Nat /\ n < Len(stack) /\ (n = 0 <=> i = 1) /\ \A j \in 1..n : stack[j] \in Frame
  BY <1>2
<1> HIDE DEF n
<1>4. /\ SubSeq(stack, 1, n) \in Seq(Frame) /\ Len(SubSeq(stack, 1, n)) = n
      /\ \A j \in 1..n : SubSeq(stack, 1, n)[j] = stack[j]
  BY <1>3, SubSeqProperties
<1>5. stack' = SubSeq(stack, 1, n) /\ phase = "run"
  BY <1>1 DEF n, Caught, MayRaise
<1>6. Cut(n)
  BY <1>1, <1>3, <1>4, <1>5 DEF Cut
<1> QED BY <1>3, <1>6

\* What the frame of the innermost script is.
LEMMA TopFacts ==
    ASSUME StackOK, phase = "run"
    PROVE  /\ Len(stack) \in Nat \ {0} /\ Len(stack) \in DOMAIN stack
           /\ Top = stack[Len(stack)] /\ Top \in Frame /\ FrameOK(Top, gen)
<1>1. stack \in Seq(Frame) /\ stack # <<>>
  BY DEF StackOK
<1>2. Len(stack) \in Nat \ {0} /\ Len(stack) \in DOMAIN stack
  BY <1>1
<1> QED BY <1>2 DEF StackOK, Top, FrameOK

\* The kinds of step that the parts of the invariant are about.
LEMMA Cuts ==
    ASSUME StackOK, Apply \/ DependentsDone \/ Caught
    PROVE  \/ \E n \in Nat : Cut(n)
           \/ /\ Apply /\ CallsDependents(Top) /\ UNCHANGED <<phase, replies>>
              /\ stack' = SetTop([Top EXCEPT !.at = "call_dependents", !.l = bound])
<1>1. CASE Caught
  BY <1>1, CaughtCuts
<1>2. ASSUME Return, phase = "run" PROVE \E n \in Nat : Cut(n)
  BY <1>2, ReturnCuts DEF Cut
<1>3. CASE DependentsDone
  BY <1>2, <1>3 DEF DependentsDone, At
<1>4. CASE Apply
  BY <1>2, <1>4 DEF Apply, At
<1> QED BY <1>1, <1>3, <1>4

LEMMA CallsKept ==
    ASSUME CallsOK, StackOK, Next
    PROVE  CallsOK'
<1>1. ASSUME UNCHANGED <<gen, phase, calls, replies>> PROVE CallsOK'
  BY <1>1 DEF CallsOK
<1>2. /\ Len(replies) \in Nat /\ Len(calls) \in Nat /\ replies \in Seq({"ok", "fail"})
      /\ Len(replies) <= Len(calls)
  <2>1. CASE calls = <<>>
    BY <2>1 DEF CallsOK
  <2>2. CASE calls \in Sessions
    <3>1. PICK k \in 1..MaxCalls : calls \in [1..k -> Scripts \cup Missing]
      BY <2>2 DEF Sessions, CallSeqs
    <3>2. Len(calls) = k /\ k \in Nat
      BY <3>1, ScriptsAssumption
    <3> QED BY <3>2 DEF CallsOK
  <2> QED BY <2>1, <2>2 DEF CallsOK
<1>3. ASSUME NEW x \in {"ok", "fail"}, replies' = Append(replies, x), phase' = "next",
             Len(replies) < Len(calls), gen > 0, UNCHANGED <<gen, calls>>
      PROVE  CallsOK'
  <2>1. replies' \in Seq({"ok", "fail"}) /\ Len(replies') = Len(replies) + 1
    BY <1>2, <1>3, ReplyAppended
  <2>2. Len(replies') <= Len(calls')
    BY <1>2, <1>3, <2>1
  <2> QED BY <1>3, <2>1, <2>2 DEF CallsOK
<1>4. ASSUME NEW q \in Sessions, NEW d \in BOOLEAN, BeginSession(q, d) PROVE CallsOK'
  <2>1. PICK k \in 1..MaxCalls : q \in [1..k -> Scripts \cup Missing]
    BY DEF Sessions, CallSeqs
  <2>2. Len(q) = k /\ k \in Nat /\ k > 0 /\ q # <<>>
    BY <2>1, ScriptsAssumption
  <2> QED BY <1>4, <2>2, ScriptsAssumption DEF BeginSession, CallsOK
<1>5. phase # "idle" => gen > 0 /\ gen # 0
  BY ScriptsAssumption DEF CallsOK
<1>6. ASSUME NEW n \in Nat, Cut(n), UNCHANGED <<gen, calls>> PROVE CallsOK'
  <2>1. CASE n = 0 /\ ~LastCall
    BY <1>2, <1>3, <1>5, <1>6, <2>1 DEF Cut, ReplyOk, CallsOK
  <2>2. CASE n = 0 /\ LastCall
    BY <1>6, <2>2 DEF Cut, ReplyOk, LastCall, CallsOK
  <2>3. CASE n # 0
    BY <1>1, <1>6, <2>3 DEF Cut
  <2> QED BY <2>1, <2>2, <2>3
<1>7. CASE UnknownScript
  BY <1>3, <1>5, <1>7 DEF UnknownScript, sessionVars
<1>8. CASE BeginCall
  BY <1>5, <1>8 DEF BeginCall, sessionVars, CallsOK
<1>9. CASE EndSession
  BY <1>5, <1>9 DEF EndSession, sessionVars, CallsOK
<1>10. CASE Apply \/ DependentsDone \/ Caught
  <2>1. UNCHANGED <<gen, calls>>
    BY <1>10 DEF Apply, DependentsDone, Caught, sessionVars
  <2> QED BY <1>1, <1>6, <1>10, <2>1, Cuts
<1>11. CASE Raised
  BY <1>3, <1>5, <1>11 DEF Raised, MayRaise, sessionVars, CallsOK
<1>12. CASE \E ok \in BOOLEAN : FrrRender(ok)
  BY <1>3, <1>5, <1>12 DEF FrrRender, sessionVars, CallsOK
<1>13. CASE SetDependents \/ Verify \/ CallDependent \/ Exhausted
  BY <1>1, <1>13 DEF SetDependents, Verify, CallDependent, Exhausted, sessionVars, vars
<1> QED BY <1>4, <1>7, <1>8, <1>9, <1>10, <1>11, <1>12, <1>13 DEF Next, Step

LEMMA ConfigsKept ==
    ASSUME CallsOK, ConfigsOK, Next
    PROVE  ConfigsOK'
<1>1. ASSUME UNCHANGED <<dry, commit, called>> PROVE ConfigsOK'
  BY <1>1 DEF ConfigsOK
<1>2. ASSUME NEW q \in Sessions, NEW d \in BOOLEAN, BeginSession(q, d) PROVE ConfigsOK'
  <2>1. ToSet(q) \subseteq Scripts \cup Missing
    BY DEF Sessions, CallSeqs, ToSet
  <2>2. dry' \in [Gens -> BOOLEAN]
    BY <1>2, Zenon DEF BeginSession, ConfigsOK
  <2>3. commit' \in [Gens -> SUBSET (Scripts \cup Missing)]
    BY <1>2, <2>1 DEF BeginSession, ConfigsOK
  <2> QED BY <1>2, <2>2, <2>3 DEF BeginSession, ConfigsOK
<1>3. CASE BeginCall
  BY <1>3 DEF BeginCall, sessionVars, ConfigsOK
<1> QED
  BY <1>1, <1>2, <1>3
     DEF Next, Step, UnknownScript, EndSession, SetDependents, Verify, Apply, CallDependent,
         DependentsDone, Caught, Raised, FrrRender, Exhausted, sessionVars, vars

LEMMA ListsKept ==
    ASSUME CallsOK, ListsOK, StackOK, Next
    PROVE  ListsOK'
<1>1. ASSUME UNCHANGED <<list, bound, gen>> PROVE ListsOK'
  BY <1>1 DEF ListsOK
<1>2. gen \in 0..MaxCommits /\ (phase # "idle" => gen \in Gens)
  BY ScriptsAssumption DEF CallsOK, Gens
<1>3. ASSUME NEW g \in 0..MaxCommits, g # 0, g <= gen, NEW l \in Seq(Scripts), IsInjective(l),
             list' = [list EXCEPT ![g] = l], UNCHANGED gen, bound' \in 0..gen
      PROVE  ListsOK'
  <2>1. \A h \in 0..MaxCommits : list'[h] = IF h = g THEN l ELSE list[h]
    BY <1>3 DEF ListsOK
  <2>2. list' \in [0..MaxCommits -> Seq(Scripts)]
    BY <1>3 DEF ListsOK
  <2> QED BY <1>2, <1>3, <2>1, <2>2 DEF ListsOK
<1>4. ASSUME NEW q \in Sessions, NEW d \in BOOLEAN, BeginSession(q, d) PROVE ListsOK'
  BY <1>2, <1>4, ScriptsAssumption DEF BeginSession, ListsOK
<1>5. CASE BeginCall
  <2>1. <<>> \in Seq(Scripts) /\ IsInjective(<<>>)
    BY DEF IsInjective
  <2>2. gen \in 0..MaxCommits /\ gen # 0 /\ gen <= gen
    BY <1>2, <1>5, ScriptsAssumption DEF BeginCall, Gens
  <2>3. bound' \in 0..gen
    BY <1>5 DEF BeginCall, ListsOK
  <2>4. list' = [list EXCEPT ![gen] = <<>>] /\ UNCHANGED gen
    BY <1>5 DEF BeginCall, sessionVars
  <2> QED BY <1>3, <2>1, <2>2, <2>3, <2>4
<1>6. CASE SetDependents
  <2>1. phase = "run" /\ Top.at = "get_config" /\ Top.deps # <<>>
    BY <1>6 DEF SetDependents, At
  <2>2. Top \in Frame /\ FrameOK(Top, gen)
    BY <2>1, TopFacts
  <2> DEFINE g == Top.cfg
             e == Head(Top.deps)
             l == AppendUniq(list[g], e)
  <2>3. g \in 0..MaxCommits /\ g # 0 /\ g <= gen /\ e \in Scripts
    BY <2>1, <2>2, TailFacts, ScriptsAssumption DEF Frame, FrameOK, Gens
  <2>4. l \in Seq(Scripts) /\ IsInjective(l)
    BY <2>3, AppendUniqFacts DEF ListsOK
  <2>5. list' = [list EXCEPT ![g] = l] /\ UNCHANGED gen /\ bound' = g
    BY <1>6 DEF SetDependents, sessionVars
  <2> HIDE DEF g, l
  <2>6. bound' \in 0..gen
    BY <1>2, <2>3, <2>5
  <2> QED BY <1>3, <2>3, <2>4, <2>5, <2>6
<1>7. CASE CallDependent
  <2>1. phase = "run" /\ list[Top.l] # <<>>
    BY <1>7 DEF CallDependent, At
  <2>2. Top \in Frame /\ FrameOK(Top, gen)
    BY <2>1, TopFacts
  <2> DEFINE g == Top.l
             l == Tail(list[g])
  <2>3. g \in 0..MaxCommits /\ g # 0 /\ g <= gen
    BY <2>1, <2>2 DEF Frame, FrameOK, ListsOK
  <2>4. l \in Seq(Scripts) /\ IsInjective(l)
    BY <2>1, <2>3, TailFacts DEF ListsOK
  <2>5. list' = [list EXCEPT ![g] = l] /\ UNCHANGED <<gen, bound>>
    BY <1>7 DEF CallDependent, sessionVars
  <2> HIDE DEF g, l
  <2>6. bound' \in 0..gen
    BY <2>5 DEF ListsOK
  <2> QED BY <1>3, <2>3, <2>4, <2>5, <2>6
<1>8. CASE EndSession
  BY <1>1, <1>8 DEF EndSession, sessionVars
<1> QED
  BY <1>1, <1>4, <1>5, <1>6, <1>7, <1>8
     DEF Next, Step, UnknownScript, Verify, Apply, DependentsDone, Caught, Raised, FrrRender,
         Exhausted, sessionVars, vars

LEMMA HistoryKept ==
    ASSUME CallsOK, HistoryOK, StackOK, Next
    PROVE  HistoryOK'
<1>1. gen \in 0..MaxCommits
  BY DEF CallsOK
<1>2. CASE SetDependents
  <2>1. phase = "run" /\ Top.deps # <<>>
    BY <1>2 DEF SetDependents, At
  <2>2. Head(Top.deps) \in Scripts
    BY <2>1, TopFacts, TailFacts DEF Frame
  <2> QED BY <1>2, <2>2 DEF SetDependents, HistoryOK
<1>3. CASE Caught
  BY <1>3 DEF Caught, HistoryOK
<1> QED
  BY <1>1, <1>2, <1>3
     DEF HistoryOK, Next, Step, BeginSession, UnknownScript, BeginCall, EndSession, Verify, Apply,
         CallDependent, DependentsDone, Raised, FrrRender, Exhausted, sessionVars, vars

\* The frames of a script that begins, and after each of its own steps.
LEMMA NewFrameOK ==
    ASSUME NEW t \in Scripts, NEW g \in Gens, g <= gen, gen \in Nat, NEW f \in NewFrames(t, g)
    PROVE  FrameOK(f, gen) /\ f.script = t /\ f.cfg = g /\ f.at = "get_config" /\ ~f.reg
<1>1. PICK d \in Registers[t] :
        f = [script |-> t, cfg |-> g, at |-> "get_config", deps |-> d, reg |-> FALSE, l |-> 0]
  BY DEF NewFrames
<1>2. d \in Seq(Scripts) /\ (d # <<>> => t \in Callers)
  BY ScriptsAssumption
<1>3. 0 \in 0..MaxCommits /\ 0 <= gen
  BY ScriptsAssumption
<1>4. f \in Frame
  BY <1>1, <1>2, <1>3 DEF Frame
<1> QED BY <1>1, <1>2, <1>3, <1>4 DEF FrameOK

\* The innermost frame is replaced by f.
LEMMA StackSet ==
    ASSUME StackOK, phase = "run", NEW f, FrameOK(f, gen), UNCHANGED <<phase, gen>>,
           stack' = SetTop(f),
           f.reg /\ f.at # "call_dependents" => bound' = f.cfg
    PROVE  StackOK'
<1>1. stack \in Seq(Frame) /\ stack # <<>> /\ Len(stack) \in Nat \ {0} /\ f \in Frame
  BY TopFacts DEF StackOK, FrameOK
<1>2. /\ stack' \in Seq(Frame) /\ Len(stack') = Len(stack)
      /\ \A i \in 1..Len(stack) : stack'[i] = IF i = Len(stack) THEN f ELSE stack[i]
  BY <1>1, StackSteps DEF SetTop
<1>3. DOMAIN stack' = 1..Len(stack) /\ DOMAIN stack = 1..Len(stack) /\ stack' # <<>>
  BY <1>1, <1>2
<1>4. \A i \in 1..Len(stack) : FrameOK(stack'[i], gen')
  BY <1>2, <1>3 DEF StackOK
<1>5. \A i \in 1..Len(stack) : i < Len(stack) => stack'[i].at = "call_dependents"
  <2>1. \A i \in 1..Len(stack) : i < Len(stack) => stack[i].at = "call_dependents"
    BY <1>3 DEF StackOK
  <2> QED BY <1>1, <1>2, <2>1
<1>6. \A i \in 1..Len(stack) :
        stack'[i].reg /\ stack'[i].at # "call_dependents" => bound' = stack'[i].cfg
  BY <1>1, <1>2, <1>5
<1>7. stack' # <<>> <=> phase' = "run"
  BY <1>3
<1> QED BY <1>2, <1>3, <1>4, <1>5, <1>6, <1>7 DEF StackOK

\* A frame f begins on top.
LEMMA StackPush ==
    ASSUME StackOK, phase = "run", Top.at = "call_dependents",
           NEW f, FrameOK(f, gen), ~f.reg, UNCHANGED <<phase, gen, bound>>,
           stack' = Append(stack, f)
    PROVE  StackOK'
<1>1. stack \in Seq(Frame) /\ stack # <<>> /\ Len(stack) \in Nat \ {0} /\ f \in Frame
  BY TopFacts DEF StackOK, FrameOK
<1> DEFINE n == Len(stack)
<1>2. /\ stack' \in Seq(Frame) /\ Len(stack') = n + 1
      /\ \A i \in 1..(n + 1) : stack'[i] = IF i = n + 1 THEN f ELSE stack[i]
  BY <1>1, StackSteps
<1>3. DOMAIN stack' = 1..(n + 1) /\ DOMAIN stack = 1..n /\ stack' # <<>>
  BY <1>1, <1>2
<1>4. \A i \in 1..n : FrameOK(stack[i], gen) /\ stack[i].at = "call_dependents"
  BY <1>1, <1>3 DEF StackOK, Top
<1>5. \A i \in 1..(n + 1) : i \in 1..n \/ i = n + 1
  BY <1>1
<1>6. \A i \in 1..(n + 1) : FrameOK(stack'[i], gen')
  BY <1>2, <1>4, <1>5
<1>7. \A i \in 1..(n + 1) : i < n + 1 => stack'[i].at = "call_dependents"
  BY <1>1, <1>2, <1>4
<1>8. \A i \in 1..(n + 1) :
        stack'[i].reg /\ stack'[i].at # "call_dependents" => bound' = stack'[i].cfg
  BY <1>1, <1>2, <1>7
<1>9. stack' # <<>> <=> phase' = "run"
  BY <1>3
<1> HIDE DEF n
<1> QED BY <1>2, <1>3, <1>6, <1>7, <1>8, <1>9 DEF StackOK

\* Scripts return.
LEMMA StackCut ==
    ASSUME StackOK, NEW n \in Nat, Cut(n), UNCHANGED <<gen, bound>>
    PROVE  StackOK'
<1>1. stack \in Seq(Frame) /\ Len(stack) \in Nat \ {0}
  BY TopFacts DEF StackOK, Cut
<1>2. stack' \in Seq(Frame) /\ Len(stack') = n /\ n < Len(stack) /\ phase = "run"
  BY DEF Cut
<1>3. DOMAIN stack' = 1..n /\ DOMAIN stack = 1..Len(stack) /\ (stack' # <<>> <=> n # 0)
  BY <1>1, <1>2
<1>4. \A i \in 1..n : i \in DOMAIN stack /\ i < Len(stack) /\ stack'[i] = stack[i]
  BY <1>1, <1>2, <1>3 DEF Cut
<1>5. stack' # <<>> <=> phase' = "run"
  BY <1>2, <1>3 DEF Cut, ReplyOk
<1> QED BY <1>2, <1>3, <1>4, <1>5 DEF StackOK

LEMMA StackKept ==
    ASSUME CallsOK, ListsOK, StackOK, Next
    PROVE  StackOK'
<1>1. ASSUME UNCHANGED <<stack, gen, bound>>, phase' = "run" <=> phase = "run" PROVE StackOK'
  BY <1>1 DEF StackOK
<1>2. ASSUME stack' = <<>>, phase' # "run" PROVE StackOK'
  BY <1>2 DEF StackOK
<1>3. gen \in Nat /\ (phase # "idle" => gen \in Gens)
  BY ScriptsAssumption DEF CallsOK, Gens
<1>4. ASSUME NEW q \in Sessions, NEW d \in BOOLEAN, BeginSession(q, d) PROVE StackOK'
  BY <1>2, <1>4 DEF BeginSession, StackOK
<1>5. CASE UnknownScript \/ EndSession \/ \E ok \in BOOLEAN : FrrRender(ok)
  BY <1>1, <1>5 DEF UnknownScript, EndSession, FrrRender, sessionVars
<1>6. CASE BeginCall
  <2>1. gen \in Gens /\ Call \in Scripts /\ UNCHANGED <<gen, bound>> /\ phase' = "run"
    BY <1>3, <1>6 DEF BeginCall, sessionVars
  <2>2. PICK f \in NewFrames(Call, gen) : stack' = <<f>>
    BY <1>6 DEF BeginCall
  <2>3. FrameOK(f, gen) /\ ~f.reg
    BY <1>3, <2>1, NewFrameOK
  <2>4. f \in Frame
    BY <2>3 DEF FrameOK
  <2>5. stack' \in Seq(Frame) /\ Len(stack') = 1 /\ stack'[1] = f /\ DOMAIN stack' = {1} /\ stack' # <<>>
    BY <2>2, <2>4
  <2> QED BY <2>1, <2>3, <2>5 DEF StackOK
<1>7. CASE SetDependents
  <2>1. phase = "run" /\ Top.at = "get_config" /\ Top.deps # <<>>
    BY <1>7 DEF SetDependents, At
  <2>2. Top \in Frame /\ FrameOK(Top, gen)
    BY <2>1, TopFacts
  <2> DEFINE f == [Top EXCEPT !.deps = Tail(@), !.reg = TRUE]
  <2>3. Tail(Top.deps) \in Seq(Scripts)
    BY <2>1, <2>2, TailFacts DEF Frame
  <2>4. f \in Frame
    BY <2>2, <2>3 DEF Frame
  <2>5. FrameOK(f, gen) /\ f.cfg = Top.cfg
    BY <2>1, <2>2, <2>4 DEF FrameOK, Frame
  <2>6. stack' = SetTop(f) /\ bound' = Top.cfg /\ UNCHANGED <<phase, gen>>
    BY <1>7 DEF SetDependents, sessionVars
  <2> HIDE DEF f
  <2> QED BY <2>1, <2>5, <2>6, StackSet
<1>8. CASE Verify
  <2>1. phase = "run" /\ Top.at = "get_config" /\ Top.deps = <<>>
    BY <1>8 DEF Verify, At
  <2>2. Top \in Frame /\ FrameOK(Top, gen) /\ (Top.reg => bound = Top.cfg)
    BY <2>1, TopFacts DEF StackOK
  <2> DEFINE f == [Top EXCEPT !.at = "apply"]
  <2>3. f \in Frame
    BY <2>2 DEF Frame
  <2>4. FrameOK(f, gen) /\ f.cfg = Top.cfg /\ f.reg = Top.reg
    BY <2>1, <2>2, <2>3 DEF FrameOK, Frame
  <2>5. stack' = SetTop(f) /\ UNCHANGED <<phase, gen, bound>>
    BY <1>8 DEF Verify, sessionVars
  <2> HIDE DEF f
  <2> QED BY <2>1, <2>2, <2>4, <2>5, StackSet
<1>9. CASE Apply \/ DependentsDone \/ Caught
  <2>1. UNCHANGED <<gen, bound>>
    BY <1>9 DEF Apply, DependentsDone, Caught, sessionVars
  <2>2. ASSUME NEW n \in Nat, Cut(n) PROVE StackOK'
    BY <2>1, <2>2, StackCut
  <2> DEFINE f == [Top EXCEPT !.at = "call_dependents", !.l = bound]
  <2>3. ASSUME Apply, UNCHANGED <<phase, replies>>, stack' = SetTop(f)
        PROVE  StackOK'
    <3>1. phase = "run" /\ Top.at = "apply"
      BY <2>3 DEF Apply, At
    <3>2. Top \in Frame /\ FrameOK(Top, gen) /\ (Top.reg => bound = Top.cfg)
      BY <3>1, TopFacts DEF StackOK
    <3>3. bound \in 0..MaxCommits /\ bound <= gen
      BY <1>3, ScriptsAssumption DEF ListsOK, CallsOK
    <3>4. f \in Frame
      BY <3>2, <3>3 DEF Frame
    <3>5. FrameOK(f, gen) /\ f.at = "call_dependents"
      BY <3>1, <3>2, <3>3, <3>4 DEF FrameOK, Frame
    <3> HIDE DEF f
    <3> QED BY <2>1, <2>3, <3>1, <3>5, StackSet
  <2> QED BY <1>9, <2>2, <2>3, Cuts
<1>10. CASE CallDependent
  <2>1. /\ phase = "run" /\ Top.at = "call_dependents" /\ list[Top.l] # <<>>
        /\ UNCHANGED <<phase, gen, bound>>
    BY <1>10 DEF CallDependent, At, sessionVars
  <2>2. Top \in Frame /\ FrameOK(Top, gen)
    BY <2>1, TopFacts
  <2>3. Top.l \in Gens /\ Top.l <= gen
    BY <2>1, <2>2, ScriptsAssumption DEF Frame, FrameOK, ListsOK, Gens
  <2> DEFINE t == Head(list[Top.l])
  <2>4. t \in Scripts
    BY <2>1, <2>3, TailFacts, ScriptsAssumption DEF ListsOK, Gens
  <2>5. CASE stack' = stack
    BY <1>1, <2>1, <2>5
  <2>6. ASSUME NEW f \in NewFrames(t, Top.l), stack' = Append(stack, f) PROVE StackOK'
    <3>1. FrameOK(f, gen) /\ ~f.reg
      BY <1>3, <2>3, <2>4, NewFrameOK
    <3> QED BY <2>1, <2>6, <3>1, StackPush
  <2> QED BY <1>10, <2>5, <2>6 DEF CallDependent
<1>11. CASE Raised
  BY <1>2, <1>11 DEF Raised
<1>12. CASE Exhausted
  BY <1>1, <1>12 DEF Exhausted, vars
<1> QED BY <1>4, <1>5, <1>6, <1>7, <1>8, <1>9, <1>10, <1>11, <1>12 DEF Next, Step

\* The elements of the stack after a step of the innermost script.
LEMMA SetElements ==
    ASSUME StackOK, phase = "run", NEW f \in Frame
    PROVE  /\ DOMAIN SetTop(f) = DOMAIN stack
           /\ \A i \in DOMAIN stack : SetTop(f)[i] = IF i = Len(stack) THEN f ELSE stack[i]
<1>1. stack \in Seq(Frame) /\ stack # <<>>
  BY DEF StackOK
<1> QED BY <1>1, StackSteps DEF SetTop

LEMMA PushElements ==
    ASSUME StackOK, phase = "run", NEW f \in Frame
    PROVE  /\ DOMAIN Append(stack, f) = DOMAIN stack \cup {Len(stack) + 1}
           /\ \A i \in DOMAIN stack : Append(stack, f)[i] = stack[i]
           /\ Append(stack, f)[Len(stack) + 1] = f
<1>1. stack \in Seq(Frame) /\ stack # <<>>
  BY DEF StackOK
<1> QED BY <1>1, StackSteps

LEMMA CutElements ==
    ASSUME StackOK, NEW n \in Nat, Cut(n)
    PROVE  /\ DOMAIN stack' = 1..n /\ DOMAIN stack' \subseteq DOMAIN stack
           /\ \A i \in DOMAIN stack' : stack'[i] = stack[i]
<1>1. stack \in Seq(Frame) /\ Len(stack) \in Nat
  BY DEF StackOK
<1>2. DOMAIN stack' = 1..n /\ DOMAIN stack = 1..Len(stack)
  BY <1>1 DEF Cut
<1> QED BY <1>1, <1>2 DEF Cut

\* What a step of the innermost script makes of its frame.
LEMMA SetDependentsEffect ==
    ASSUME CallsOK, ListsOK, StackOK, SetDependents
    PROVE  \E f \in Frame, e \in Scripts :
              /\ stack' = SetTop(f) /\ f.script = Top.script /\ f.cfg = Top.cfg /\ f.at = Top.at /\ f.reg
              /\ Top.cfg \in Gens /\ Top.at = "get_config" /\ phase = "run"
              /\ list' = [list EXCEPT ![Top.cfg] = AppendUniq(list[Top.cfg], e)]
              /\ ToSet(AppendUniq(list[Top.cfg], e)) = ToSet(list[Top.cfg]) \cup {e}
              /\ owed' = IF Top.cfg = gen THEN owed \cup {e} ELSE owed
              /\ current' = IF Top.cfg = gen THEN current \cup {e} ELSE current
<1>1. phase = "run" /\ Top.at = "get_config" /\ Top.deps # <<>>
  BY DEF SetDependents, At
<1>2. Top \in Frame /\ FrameOK(Top, gen)
  BY <1>1, TopFacts
<1> DEFINE f == [Top EXCEPT !.deps = Tail(@), !.reg = TRUE]
           e == Head(Top.deps)
<1>3. Tail(Top.deps) \in Seq(Scripts) /\ e \in Scripts /\ Top.cfg \in Gens
  BY <1>1, <1>2, TailFacts DEF Frame
<1>4. f \in Frame
  BY <1>2, <1>3 DEF Frame
<1>5. f.script = Top.script /\ f.cfg = Top.cfg /\ f.at = Top.at /\ f.reg
  BY <1>2 DEF Frame
<1>6. Top.cfg \in 0..MaxCommits
  BY <1>3, ScriptsAssumption DEF Gens
<1>7. ToSet(AppendUniq(list[Top.cfg], e)) = ToSet(list[Top.cfg]) \cup {e}
  <2> DEFINE l == list[Top.cfg]
  <2>1. l \in Seq(Scripts) /\ IsInjective(l)
    BY <1>6 DEF ListsOK
  <2>2. e \in Scripts
    BY <1>3
  <2> HIDE DEF e, l
  <2>3. /\ AppendUniq(l, e) \in Seq(Scripts) /\ IsInjective(AppendUniq(l, e))
        /\ ToSet(AppendUniq(l, e)) = ToSet(l) \cup {e}
    BY <2>1, <2>2, AppendUniqFacts
  <2> QED BY <2>3 DEF l
<1>8. /\ stack' = SetTop(f) /\ list' = [list EXCEPT ![Top.cfg] = AppendUniq(list[Top.cfg], e)]
      /\ owed' = (IF Top.cfg = gen THEN owed \cup {e} ELSE owed)
      /\ current' = (IF Top.cfg = gen THEN current \cup {e} ELSE current)
  BY DEF SetDependents
<1> HIDE DEF f, e
<1> QED BY <1>1, <1>3, <1>4, <1>5, <1>7, <1>8

LEMMA StepEffect ==
    ASSUME CallsOK, ListsOK, StackOK,
           \/ Verify
           \/ Apply /\ CallsDependents(Top) /\ stack' = SetTop([Top EXCEPT !.at = "call_dependents", !.l = bound])
    PROVE  \E f \in Frame :
              /\ stack' = SetTop(f) /\ f.script = Top.script /\ f.cfg = Top.cfg /\ f.reg = Top.reg
              /\ Verify => f.at = "apply" /\ Top.at = "get_config"
              /\ Apply => f.at = "call_dependents" /\ Top.at = "apply"
              /\ phase = "run"
<1>1. phase = "run"
  BY DEF Verify, Apply, At
<1>2. Top \in Frame
  BY <1>1, TopFacts
<1>3. CASE Verify
  <2> DEFINE f == [Top EXCEPT !.at = "apply"]
  <2>1. f \in Frame
    BY <1>2 DEF Frame
  <2>2. f.script = Top.script /\ f.cfg = Top.cfg /\ f.reg = Top.reg /\ f.at = "apply"
    BY <1>2 DEF Frame
  <2>3. stack' = SetTop(f) /\ Top.at = "get_config"
    BY <1>3 DEF Verify, At
  <2>4. ~Apply
    BY <2>3 DEF Apply, At
  <2> HIDE DEF f
  <2> QED BY <1>1, <2>1, <2>2, <2>3, <2>4
<1>4. CASE /\ Apply /\ CallsDependents(Top)
           /\ stack' = SetTop([Top EXCEPT !.at = "call_dependents", !.l = bound])
  <2> DEFINE f == [Top EXCEPT !.at = "call_dependents", !.l = bound]
  <2>1. f \in Frame
    <3>1. bound \in 0..MaxCommits
      BY ScriptsAssumption DEF ListsOK, CallsOK
    <3> QED BY <1>2, <3>1 DEF Frame
  <2>2. f.script = Top.script /\ f.cfg = Top.cfg /\ f.reg = Top.reg /\ f.at = "call_dependents"
    BY <1>2 DEF Frame
  <2>3. stack' = SetTop(f) /\ Top.at = "apply"
    BY <1>4 DEF Apply, At
  <2>4. ~Verify
    BY <2>3 DEF Verify, At
  <2> HIDE DEF f
  <2> QED BY <1>1, <2>1, <2>2, <2>3, <2>4
<1> QED BY <1>3, <1>4

\* One pass of the loop of call_dependents: t leaves the list, and runs
\* unless it is deferred.
LEMMA CallDependentEffect ==
    ASSUME CallsOK, ListsOK, StackOK, CallDependent
    PROVE  LET t == Head(list[Top.l]) IN
           /\ phase = "run" /\ Top.at = "call_dependents"
           /\ Top.l \in Gens /\ Top.l <= gen /\ t \in Scripts /\ list[Top.l] # <<>>
           /\ list' = [list EXCEPT ![Top.l] = Tail(list[Top.l])]
           /\ ToSet(list[Top.l]) = {t} \cup ToSet(Tail(list[Top.l]))
           /\ \/ Deferred(t, Top.l) /\ stack' = stack
              \/ /\ ~Deferred(t, Top.l)
                 /\ \E f \in Frame : /\ stack' = Append(stack, f) /\ f.script = t /\ f.cfg = Top.l
                                     /\ f.at = "get_config" /\ ~f.reg
<1> DEFINE t == Head(list[Top.l])
<1>1. phase = "run" /\ Top.at = "call_dependents" /\ list[Top.l] # <<>>
  BY DEF CallDependent, At
<1>2. Top \in Frame /\ FrameOK(Top, gen)
  BY <1>1, TopFacts
<1>3. Top.l \in Gens /\ Top.l <= gen /\ gen \in Nat
  BY <1>1, <1>2, ScriptsAssumption DEF Frame, FrameOK, ListsOK, Gens, CallsOK
<1>4. Top.l \in 0..MaxCommits
  BY <1>3, ScriptsAssumption DEF Gens
<1>5. t \in Scripts /\ ToSet(list[Top.l]) = {t} \cup ToSet(Tail(list[Top.l]))
  BY <1>1, <1>4, TailFacts DEF ListsOK
<1>6. list' = [list EXCEPT ![Top.l] = Tail(list[Top.l])]
  BY DEF CallDependent
<1>7. \/ Deferred(t, Top.l) /\ stack' = stack
      \/ ~Deferred(t, Top.l) /\ \E f \in NewFrames(t, Top.l) : stack' = Append(stack, f)
  BY DEF CallDependent
<1>8. ASSUME NEW f \in NewFrames(t, Top.l)
      PROVE  f \in Frame /\ f.script = t /\ f.cfg = Top.l /\ f.at = "get_config" /\ ~f.reg
  BY <1>3, <1>5, NewFrameOK DEF FrameOK
<1> HIDE DEF t
<1>9. \/ Deferred(t, Top.l) /\ stack' = stack
      \/ /\ ~Deferred(t, Top.l)
         /\ \E f \in Frame : /\ stack' = Append(stack, f) /\ f.script = t /\ f.cfg = Top.l
                             /\ f.at = "get_config" /\ ~f.reg
  BY <1>7, <1>8
<1> QED BY <1>1, <1>3, <1>5, <1>6, <1>9 DEF t

-----------------------------------------------------------------------------
(* Sessions do not share lists unless one of them had an error.            *)

LEMMA OwnConfigKept ==
    ASSUME CallsOK, ListsOK, StackOK, Drained, NoLeftovers, OwnConfig, Next
    PROVE  NoLeftovers' /\ OwnConfig'
<1> SUFFICES ASSUME tainted' = {}
             PROVE  /\ \A g \in 0..MaxCommits : g # gen' => list'[g] = <<>>
                    /\ \A i \in DOMAIN stack' : stack'[i].cfg = gen'
  BY DEF NoLeftovers, OwnConfig
<1>1. gen \in 0..MaxCommits /\ gen \in Nat
  BY ScriptsAssumption DEF CallsOK
<1>2. ASSUME NEW q \in Sessions, NEW d \in BOOLEAN, BeginSession(q, d)
      PROVE  /\ \A g \in 0..MaxCommits : g # gen' => list'[g] = <<>>
             /\ \A i \in DOMAIN stack' : stack'[i].cfg = gen'
  <2>1. tainted = {} /\ flaw = "none" /\ phase = "idle" /\ UNCHANGED <<list, stack>>
    BY <1>2 DEF BeginSession
  <2>2. stack = <<>>
    BY <2>1 DEF StackOK
  <2>3. list[gen] = <<>>
    BY <2>1, <2>2 DEF Drained
  <2> QED BY <2>1, <2>2, <2>3 DEF NoLeftovers
<1>3. ASSUME UNCHANGED <<gen, tainted>>
      PROVE  /\ \A g \in 0..MaxCommits : g # gen => list[g] = <<>>
             /\ \A i \in DOMAIN stack : stack[i].cfg = gen
  BY <1>3 DEF NoLeftovers, OwnConfig
<1>4. ASSUME UNCHANGED <<gen, tainted>>, phase = "run" PROVE Top.cfg = gen
  BY <1>3, <1>4, TopFacts
<1>5. CASE BeginCall
  <2>1. UNCHANGED <<gen, tainted>> /\ list' = [list EXCEPT ![gen] = <<>>]
    BY <1>5 DEF BeginCall, sessionVars
  <2>2. PICK f \in NewFrames(Call, gen) : stack' = <<f>>
    BY <1>5 DEF BeginCall
  <2>3. f.cfg = gen
    BY DEF NewFrames
  <2>4. \A g \in 0..MaxCommits : g # gen => list'[g] = list[g]
    BY <2>1 DEF ListsOK
  <2> QED BY <1>3, <2>1, <2>2, <2>3, <2>4
<1>6. CASE SetDependents
  <2>1. UNCHANGED <<gen, tainted>>
    BY <1>6 DEF SetDependents, sessionVars
  <2>2. PICK f \in Frame, e \in Scripts :
          /\ stack' = SetTop(f) /\ f.cfg = Top.cfg /\ phase = "run"
          /\ list' = [list EXCEPT ![Top.cfg] = AppendUniq(list[Top.cfg], e)]
    BY <1>6, SetDependentsEffect
  <2>3. Top.cfg = gen
    BY <1>4, <2>1, <2>2
  <2>4. \A g \in 0..MaxCommits : g # gen => list'[g] = list[g]
    BY <2>2, <2>3 DEF ListsOK
  <2> QED BY <1>3, <2>1, <2>2, <2>3, <2>4, SetElements
<1>7. CASE CallDependent
  <2>1. UNCHANGED <<gen, tainted>>
    BY <1>7 DEF CallDependent, sessionVars
  <2> DEFINE t == Head(list[Top.l])
  <2>2. /\ Top.l \in Gens /\ list[Top.l] # <<>> /\ phase = "run"
        /\ list' = [list EXCEPT ![Top.l] = Tail(list[Top.l])]
        /\ \/ stack' = stack
           \/ \E f \in Frame : stack' = Append(stack, f) /\ f.cfg = Top.l
    BY <1>7, CallDependentEffect
  <2>3. Top.l = gen
    BY <1>3, <2>1, <2>2 DEF Gens
  <2>4. \A g \in 0..MaxCommits : g # gen => list'[g] = list[g]
    BY <2>2, <2>3 DEF ListsOK
  <2>5. CASE stack' = stack
    BY <1>3, <2>1, <2>4, <2>5
  <2>6. ASSUME NEW f \in Frame, stack' = Append(stack, f), f.cfg = Top.l
        PROVE  \A i \in DOMAIN stack' : stack'[i].cfg = gen'
    BY <1>3, <2>1, <2>2, <2>3, <2>6, PushElements
  <2> QED BY <1>3, <2>1, <2>2, <2>4, <2>5, <2>6
<1>8. ASSUME UNCHANGED <<gen, tainted, list, stack>>
      PROVE  /\ \A g \in 0..MaxCommits : g # gen' => list'[g] = <<>>
             /\ \A i \in DOMAIN stack' : stack'[i].cfg = gen'
  BY <1>3, <1>8
<1>9. CASE Verify \/ Apply \/ DependentsDone \/ Caught
  <2>1. UNCHANGED <<gen, tainted, list>>
    BY <1>9 DEF Verify, Apply, DependentsDone, Caught, sessionVars
  <2>2. ASSUME NEW f \in Frame, stack' = SetTop(f), f.cfg = Top.cfg, phase = "run"
        PROVE  \A i \in DOMAIN stack' : stack'[i].cfg = gen'
    BY <1>3, <1>4, <2>1, <2>2, SetElements
  <2>3. ASSUME NEW n \in Nat, Cut(n)
        PROVE  \A i \in DOMAIN stack' : stack'[i].cfg = gen'
    BY <1>3, <2>1, <2>3, CutElements
  <2>4. \A i \in DOMAIN stack' : stack'[i].cfg = gen'
    BY <1>9, <2>2, <2>3, Cuts, StepEffect
  <2> QED BY <1>3, <2>1, <2>4
<1>10. CASE Raised
  BY <1>3, <1>10 DEF Raised, sessionVars
<1> QED
  BY <1>2, <1>5, <1>6, <1>7, <1>8, <1>9, <1>10
     DEF Next, Step, UnknownScript, EndSession, FrrRender, Exhausted, sessionVars, vars

-----------------------------------------------------------------------------
(* Without an error somebody works off the list of the session.            *)

LEMMA DrainedKept ==
    ASSUME CallsOK, ListsOK, StackOK, Drained, Next
    PROVE  Drained'
<1>1. gen \in 0..MaxCommits /\ gen \in Nat
  BY ScriptsAssumption DEF CallsOK
<1>2. ASSUME flaw' # "none" PROVE Drained'
  BY <1>2 DEF Drained
<1>3. ASSUME list'[gen'] = <<>> PROVE Drained'
  BY <1>3 DEF Drained
\* The scripts up to k are still there, and one of them drains the list.
<1>4. ASSUME UNCHANGED <<gen, flaw>>, list'[gen] # <<>> => list[gen] # <<>>,
             NEW K, K \subseteq DOMAIN stack', K \subseteq DOMAIN stack,
             \A i \in K : Drains(stack[i], gen) => Drains(stack'[i], gen),
             \A i \in DOMAIN stack \ K : ~Drains(stack[i], gen)
      PROVE  Drained'
  <2> SUFFICES ASSUME flaw = "none", list[gen] # <<>>
               PROVE  \E i \in DOMAIN stack' : Drains(stack'[i], gen)
    BY <1>4 DEF Drained
  <2>1. PICK i \in DOMAIN stack : Drains(stack[i], gen)
    BY DEF Drained
  <2> QED BY <1>4, <2>1
<1>5. ASSUME NEW q \in Sessions, NEW d \in BOOLEAN, BeginSession(q, d) PROVE Drained'
  <2>1. list'[gen'] = <<>>
    BY <1>1, <1>5, ScriptsAssumption DEF BeginSession, ListsOK
  <2> QED BY <1>3, <2>1
<1>6. CASE BeginCall
  <2>1. list' = [list EXCEPT ![gen] = <<>>] /\ gen' = gen
    BY <1>6 DEF BeginCall, sessionVars
  <2>2. list'[gen'] = <<>>
    BY <1>1, <2>1 DEF ListsOK
  <2> QED BY <1>3, <2>2
<1>7. CASE UnknownScript \/ Raised \/ Caught
  <2>1. flaw' # "none"
    BY <1>7 DEF UnknownScript, Raised, Caught
  <2> QED BY <1>2, <2>1
<1>8. CASE EndSession \/ Exhausted \/ \E ok \in BOOLEAN : FrrRender(ok)
  <2>1. UNCHANGED <<gen, list, stack>> /\ (flaw' = flaw \/ flaw' = "failed")
    BY <1>8 DEF EndSession, Exhausted, FrrRender, sessionVars, vars
  <2> QED BY <2>1 DEF Drained
\* The innermost script has another frame.
<1>9. ASSUME UNCHANGED <<gen, flaw>>, phase = "run", list'[gen] # <<>> => list[gen] # <<>>,
             NEW f \in Frame, stack' = SetTop(f), Drains(Top, gen) => Drains(f, gen)
      PROVE  Drained'
  <2>1. DOMAIN stack' = DOMAIN stack
    BY <1>9, SetElements
  <2>2. \A i \in DOMAIN stack : Drains(stack[i], gen) => Drains(stack'[i], gen)
    BY <1>9, SetElements, TopFacts
  <2> QED BY <1>4, <1>9, <2>1, <2>2
<1>10. CASE SetDependents
  <2>1. UNCHANGED <<gen, flaw>>
    BY <1>10 DEF SetDependents, sessionVars
  <2>2. PICK f \in Frame, e \in Scripts :
          /\ stack' = SetTop(f) /\ f.cfg = Top.cfg /\ f.reg /\ phase = "run"
          /\ Top.cfg \in Gens /\ Top.at = "get_config"
          /\ list' = [list EXCEPT ![Top.cfg] = AppendUniq(list[Top.cfg], e)]
    BY <1>10, SetDependentsEffect
  <2>3. CASE Top.cfg = gen
    <3>1. Drains(f, gen) /\ Len(stack) \in DOMAIN stack
      BY <2>2, <2>3, TopFacts DEF Drains
    <3>2. DOMAIN stack' = DOMAIN stack /\ stack'[Len(stack)] = f
      BY <2>2, <3>1, SetElements
    <3> QED BY <2>1, <3>1, <3>2 DEF Drained
  <2>4. CASE Top.cfg # gen
    <3>1. list'[gen] = list[gen]
      BY <1>1, <2>2, <2>4 DEF ListsOK
    <3>2. ~Drains(Top, gen)
      BY <2>2, <2>4 DEF Drains
    <3> QED BY <1>9, <2>1, <2>2, <3>1, <3>2
  <2> QED BY <2>3, <2>4
\* A script that returns leaves nothing behind that it would have drained.
<1>11. ASSUME UNCHANGED <<gen, flaw, list>>, phase = "run", Return,
              Drains(Top, gen) => list[gen] = <<>>
       PROVE  Drained'
  <2> DEFINE n == Len(stack) - 1
  <2>1. n \in Nat /\ Cut(n) /\ Top = stack[Len(stack)] /\ DOMAIN stack = 1..(n + 1)
    BY <1>11, ReturnCuts, TopFacts DEF StackOK
  <2>2. /\ DOMAIN stack' = 1..n /\ DOMAIN stack' \subseteq DOMAIN stack
        /\ \A i \in DOMAIN stack' : stack'[i] = stack[i]
    BY <2>1, CutElements
  <2> HIDE DEF n
  <2>3. \A i \in DOMAIN stack \ DOMAIN stack' : stack[i] = Top
    BY <2>1, <2>2 DEF n
  <2>4. CASE list[gen] = <<>>
    BY <1>3, <1>11, <2>4
  <2>5. CASE ~Drains(Top, gen)
    BY <1>4, <1>11, <2>2, <2>3, <2>5
  <2> QED BY <1>11, <2>4, <2>5
<1>12. CASE Verify
  <2>1. UNCHANGED <<gen, flaw, list>>
    BY <1>12 DEF Verify, sessionVars
  <2>2. PICK f \in Frame : /\ stack' = SetTop(f) /\ f.cfg = Top.cfg /\ f.reg = Top.reg
                           /\ Top.at = "get_config" /\ phase = "run"
    BY <1>12, StepEffect
  <2>3. Drains(Top, gen) => Drains(f, gen)
    BY <2>2 DEF Drains
  <2> QED BY <1>9, <2>1, <2>2, <2>3
<1>13. CASE Apply
  <2>1. UNCHANGED <<gen, flaw, list>> /\ phase = "run" /\ Top.at = "apply"
    BY <1>13 DEF Apply, At, sessionVars
  <2>2. CASE CallsDependents(Top)
    <3>1. stack' = SetTop([Top EXCEPT !.at = "call_dependents", !.l = bound])
      BY <1>13, <2>2 DEF Apply
    <3>2. PICK f \in Frame : stack' = SetTop(f) /\ f.cfg = Top.cfg /\ f.reg = Top.reg
      BY <1>13, <2>2, <3>1, StepEffect
    <3>3. Drains(Top, gen) => Drains(f, gen)
      BY <2>1, <3>2 DEF Drains
    <3> QED BY <1>9, <2>1, <3>2, <3>3
  <2>3. CASE ~CallsDependents(Top)
    <3>1. Return
      BY <1>13, <2>3 DEF Apply
    <3>2. ~Top.reg
      BY <2>1, <2>3, TopFacts DEF CallsDependents, FrameOK
    <3>3. ~Drains(Top, gen)
      BY <2>1, <3>2 DEF Drains
    <3> QED BY <1>11, <2>1, <3>1, <3>3
  <2> QED BY <2>2, <2>3
<1>14. CASE DependentsDone
  <2>1. /\ UNCHANGED <<gen, flaw, list>> /\ phase = "run" /\ Top.at = "call_dependents"
        /\ list[Top.l] = <<>> /\ Return
    BY <1>14 DEF DependentsDone, At, sessionVars
  <2>2. Drains(Top, gen) => list[gen] = <<>>
    BY <2>1, TopFacts DEF Drains, FrameOK
  <2> QED BY <1>11, <2>1, <2>2
<1>15. CASE CallDependent
  <2>1. UNCHANGED <<gen, flaw>>
    BY <1>15 DEF CallDependent, sessionVars
  <2>2. /\ Top.l \in Gens /\ list[Top.l] # <<>> /\ phase = "run"
        /\ list' = [list EXCEPT ![Top.l] = Tail(list[Top.l])]
        /\ \/ stack' = stack
           \/ \E f \in Frame : stack' = Append(stack, f)
    BY <1>15, CallDependentEffect
  <2>3. list'[gen] # <<>> => list[gen] # <<>>
    BY <1>1, <2>2 DEF ListsOK
  <2>4. DOMAIN stack \subseteq DOMAIN stack' /\ \A i \in DOMAIN stack : stack'[i] = stack[i]
    BY <2>2, PushElements
  <2> QED BY <1>4, <2>1, <2>3, <2>4
<1> QED
  BY <1>5, <1>6, <1>7, <1>8, <1>10, <1>12, <1>13, <1>14, <1>15 DEF Next, Step

-----------------------------------------------------------------------------
(* The calls that have begun.                                              *)

LEMMA Lengths ==
    ASSUME CallsOK
    PROVE  /\ Len(replies) \in Nat /\ Len(calls) \in Nat /\ DOMAIN calls = 1..Len(calls)
           /\ Begun \in Nat /\ calls \in Seq(Scripts \cup Missing)
<1>1. replies \in Seq({"ok", "fail"})
  BY DEF CallsOK
<1>2. CASE calls = <<>>
  BY <1>1, <1>2 DEF Begun
<1>3. CASE calls \in Sessions
  <2>1. PICK k \in 1..MaxCalls : calls \in [1..k -> Scripts \cup Missing]
    BY <1>3 DEF Sessions, CallSeqs
  <2>2. k \in Nat /\ Len(calls) = k /\ calls \in Seq(Scripts \cup Missing)
    BY <2>1, ScriptsAssumption
  <2> QED BY <1>1, <2>1, <2>2 DEF Begun
<1> QED BY <1>2, <1>3 DEF CallsOK

LEMMA BegunStays ==
    ASSUME CallsOK, StackOK, Next,
           ~UnknownScript, ~BeginCall, ~\E q \in Sessions, d \in BOOLEAN : BeginSession(q, d)
    PROVE  Begun' = Begun /\ UNCHANGED <<gen, dry, calls, commit, called>>
<1>1. Len(replies) \in Nat /\ replies \in Seq({"ok", "fail"})
  BY Lengths DEF CallsOK
<1>2. ASSUME UNCHANGED <<phase, replies>> PROVE Begun' = Begun
  BY <1>2 DEF Begun
<1>3. ASSUME NEW x \in {"ok", "fail"}, replies' = Append(replies, x), phase' = "next",
             phase \in {"run", "frr"}
      PROVE  Begun' = Begun
  <2>1. Len(replies') = Len(replies) + 1
    BY <1>1, <1>3, ReplyAppended
  <2> QED BY <1>1, <1>3, <2>1 DEF Begun
<1>4. ASSUME NEW n \in Nat, Cut(n) PROVE Begun' = Begun
  <2>1. CASE n # 0
    BY <1>2, <1>4, <2>1 DEF Cut
  <2>2. CASE n = 0 /\ LastCall
    <3>1. phase = "run" /\ phase' = "frr" /\ replies' = replies
      BY <1>4, <2>2 DEF Cut, ReplyOk
    <3> QED BY <3>1 DEF Begun
  <2>3. CASE n = 0 /\ ~LastCall
    <3>1. phase = "run" /\ phase' = "next" /\ replies' = Append(replies, "ok")
      BY <1>4, <2>3 DEF Cut, ReplyOk
    <3> QED BY <1>3, <3>1
  <2> QED BY <2>1, <2>2, <2>3
<1>5. CASE EndSession
  <2>1. phase = "next" /\ phase' = "idle" /\ replies' = replies
        /\ UNCHANGED <<gen, dry, calls, commit, called>>
    BY <1>5 DEF EndSession, sessionVars
  <2> QED BY <2>1 DEF Begun
<1>6. CASE SetDependents \/ Verify \/ CallDependent \/ Exhausted
  BY <1>2, <1>6 DEF SetDependents, Verify, CallDependent, Exhausted, sessionVars, vars
<1>7. CASE Apply \/ DependentsDone \/ Caught
  <2>1. UNCHANGED <<gen, dry, calls, commit, called>>
    BY <1>7 DEF Apply, DependentsDone, Caught, sessionVars
  <2> QED BY <1>2, <1>4, <1>7, <2>1, Cuts
<1>8. CASE Raised
  BY <1>3, <1>8 DEF Raised, MayRaise, sessionVars
<1>9. ASSUME NEW ok \in BOOLEAN, FrrRender(ok)
      PROVE  Begun' = Begun /\ UNCHANGED <<gen, dry, calls, commit, called>>
  BY <1>3, <1>9 DEF FrrRender, sessionVars
<1> QED BY <1>5, <1>6, <1>7, <1>8, <1>9 DEF Next, Step

LEMMA BegunGrows ==
    ASSUME CallsOK, StackOK, UnknownScript \/ BeginCall
    PROVE  /\ Begun = Len(replies) /\ Begun' = Begun + 1 /\ Begun + 1 \in DOMAIN calls
           /\ Call = calls[Begun + 1] /\ gen \in Gens
           /\ UNCHANGED <<gen, dry, calls, commit>>
<1>1. /\ Len(replies) \in Nat /\ Len(calls) \in Nat /\ DOMAIN calls = 1..Len(calls)
      /\ replies \in Seq({"ok", "fail"})
  BY Lengths DEF CallsOK
<1>2. /\ phase = "next" /\ Len(replies) < Len(calls)
      /\ UNCHANGED <<gen, dry, calls, commit>>
  BY DEF UnknownScript, BeginCall, sessionVars
<1>3. gen \in Gens /\ Begun = Len(replies)
  BY <1>2, ScriptsAssumption DEF CallsOK, Gens, Begun
<1>4. Call = calls[Begun + 1] /\ Begun + 1 \in DOMAIN calls
  BY <1>1, <1>2, <1>3 DEF Call
<1>5. CASE UnknownScript
  <2>1. replies' = Append(replies, "fail") /\ phase' = "next"
    BY <1>2, <1>5 DEF UnknownScript
  <2>2. Len(replies') = Len(replies) + 1
    BY <1>1, <2>1, ReplyAppended
  <2> QED BY <1>1, <1>2, <1>3, <1>4, <2>1, <2>2 DEF Begun
<1>6. CASE BeginCall
  <2>1. replies' = replies /\ phase' = "run"
    BY <1>6 DEF BeginCall
  <2> QED BY <1>1, <1>2, <1>3, <1>4, <2>1 DEF Begun
<1> QED BY <1>5, <1>6

\* The two sets that run_conditionally consults.
LEMMA CallsKnownKept ==
    ASSUME CallsOK, ConfigsOK, StackOK, CallsKnown, Next
    PROVE  CallsKnown'
<1>1. CASE ~UnknownScript /\ ~BeginCall /\ ~\E q \in Sessions, d \in BOOLEAN : BeginSession(q, d)
  <2>1. Begun' = Begun /\ UNCHANGED <<gen, dry, calls, commit, called>>
    BY <1>1, BegunStays
  <2> QED BY <2>1 DEF CallsKnown
<1>2. ASSUME NEW q \in Sessions, NEW d \in BOOLEAN, BeginSession(q, d) PROVE CallsKnown'
  <2>1. gen' = gen + 1 /\ gen + 1 \in Gens
    BY <1>2, ScriptsAssumption DEF BeginSession, CallsOK, Gens
  <2>2. commit'[gen'] = ToSet(q) /\ calls' = q
    BY <1>2, <2>1 DEF BeginSession, ConfigsOK
  <2>3. Begun' = 0
    <3>1. replies' = <<>> /\ phase' = "next"
      BY <1>2 DEF BeginSession
    <3> QED BY <3>1 DEF Begun
  <2>4. DOMAIN calls' \subseteq Nat \ {0}
    BY <2>2 DEF Sessions, CallSeqs
  <2>5. UNCHANGED called /\ gen \in Nat
    BY <1>2, ScriptsAssumption DEF BeginSession, CallsOK
  <2>6. \A g \in Gens : g >= gen' => called'[g] = {}
    BY <2>1, <2>5 DEF CallsKnown, Gens
  <2>7. called'[gen'] = {} /\ \A g \in Gens : g > gen' => called'[g] = {}
    BY <2>1, <2>5, <2>6 DEF Gens
  <2> QED BY <2>2, <2>3, <2>4, <2>7 DEF CallsKnown
<1>3. CASE UnknownScript \/ BeginCall
  <2>1. /\ Begun' = Begun + 1 /\ Begun + 1 \in DOMAIN calls
        /\ Call = calls[Begun + 1] /\ gen \in Gens
        /\ UNCHANGED <<gen, dry, calls, commit>>
    BY <1>3, BegunGrows
  <2>2. Begun \in Nat /\ DOMAIN calls \subseteq Nat
    BY Lengths
  <2>3. /\ called[gen] \subseteq called'[gen] /\ (Call \in Scripts => Call \in called'[gen])
        /\ called'[gen] \subseteq called[gen] \cup {Call}
        /\ \A g \in Gens : g # gen => called'[g] = called[g]
    <3>1. CASE UnknownScript
      BY <3>1 DEF UnknownScript
    <3>2. CASE BeginCall
      BY <2>1, <3>2 DEF BeginCall, ConfigsOK
    <3> QED BY <1>3, <3>1, <3>2
  <2>4. gen > 0 /\ gen # 0
    BY <2>1 DEF Gens
  <2>5. ASSUME NEW k \in DOMAIN calls, k <= Begun + 1, calls[k] \in Scripts
        PROVE  calls[k] \in called'[gen]
    <3>1. k <= Begun \/ k = Begun + 1
      BY <2>2, <2>5
    <3> QED BY <2>1, <2>3, <2>4, <2>5, <3>1 DEF CallsKnown
  <2>6. ASSUME NEW s \in called'[gen]
        PROVE  \E k \in DOMAIN calls : k <= Begun + 1 /\ calls[k] = s
    <3>1. CASE s \in called[gen]
      <4>1. PICK k \in DOMAIN calls : k <= Begun /\ calls[k] = s
        BY <2>4, <3>1 DEF CallsKnown
      <4>2. k <= Begun + 1
        BY <2>2, <4>1
      <4> QED BY <4>1, <4>2
    <3>2. CASE s = Call
      BY <2>1, <2>2, <3>2
    <3> QED BY <2>3, <2>6, <3>1, <3>2
  <2>7. \A g \in Gens : g > gen' => called'[g] = {}
    BY <2>1, <2>3 DEF CallsKnown, Gens
  <2> QED BY <2>1, <2>4, <2>5, <2>6, <2>7 DEF CallsKnown
<1> QED BY <1>1, <1>2, <1>3

-----------------------------------------------------------------------------
(* What was registered is pending, running or has its call to come.        *)

\* Only the innermost script is running in the sense of Running.
LEMMA RunningIsTop ==
    ASSUME StackOK, NEW s, Running(s)
    PROVE  /\ phase = "run" /\ Top.script = s /\ Top.cfg = gen /\ Top.at # "call_dependents"
<1>1. PICK i \in DOMAIN stack :
        stack[i].script = s /\ stack[i].cfg = gen /\ stack[i].at # "call_dependents"
  BY DEF Running
<1>2. stack \in Seq(Frame) /\ phase = "run"
  BY <1>1 DEF StackOK
<1>3. i = Len(stack)
  BY <1>1, <1>2 DEF StackOK
<1> QED BY <1>1, <1>2, <1>3 DEF Top

LEMMA OwedKept ==
    ASSUME CallsOK, ListsOK, StackOK, ConfigsOK, HistoryOK, Drained, CallsKnown, OwedAccounted, Next
    PROVE  OwedAccounted'
<1>1. gen \in 0..MaxCommits /\ gen \in Nat
  BY ScriptsAssumption DEF CallsOK
<1>2. ASSUME flaw' # "none" PROVE OwedAccounted'
  BY <1>2 DEF OwedAccounted
<1>3. ASSUME NEW q \in Sessions, NEW d \in BOOLEAN, BeginSession(q, d) PROVE OwedAccounted'
  BY <1>3 DEF BeginSession, OwedAccounted
<1>4. CASE UnknownScript \/ Raised \/ Caught
  <2>1. flaw' # "none"
    BY <1>4 DEF UnknownScript, Raised, Caught
  <2> QED BY <1>2, <2>1
<1>5. CASE EndSession \/ Exhausted \/ \E ok \in BOOLEAN : FrrRender(ok)
  <2>1. UNCHANGED <<gen, dry, list, stack, owed, calls>> /\ (flaw' = flaw \/ flaw' = "failed")
    BY <1>5 DEF EndSession, Exhausted, FrrRender, sessionVars, vars
  <2>2. Begun' = Begun
    <3>1. ~UnknownScript /\ ~BeginCall /\ ~\E q \in Sessions, d \in BOOLEAN : BeginSession(q, d)
      <4>1. gen + 1 # gen
        BY <1>1
      <4>2. EndSession \/ Exhausted \/ phase = "frr"
        BY <1>5 DEF FrrRender
      <4> QED BY <2>1, <4>1, <4>2, Lengths
              DEF EndSession, Exhausted, UnknownScript, BeginCall, BeginSession
    <3> QED BY <3>1, BegunStays
  <2> QED BY <2>1, <2>2 DEF OwedAccounted, Pending, Running, ToCome
<1>6. CASE BeginCall
  <2> SUFFICES ASSUME flaw = "none", ~dry[gen], NEW s \in owed
               PROVE  Running(s)' \/ ToCome(s)'
    BY <1>6 DEF BeginCall, sessionVars, OwedAccounted
  <2>1. /\ Begun' = Begun + 1 /\ Begun + 1 \in DOMAIN calls /\ Call = calls[Begun + 1]
        /\ gen \in Gens /\ UNCHANGED <<gen, calls>>
    BY <1>6, BegunGrows
  <2>2. gen > 0 /\ stack = <<>>
    BY <1>6, <2>1 DEF Gens, StackOK, BeginCall
  <2>3. ~Pending(s) /\ ~Running(s)
    <3>1. list[gen] = <<>>
      BY <2>2 DEF Drained
    <3> QED BY <2>2, <3>1 DEF Pending, Running, ToSet
  <2>4. PICK k \in DOMAIN calls : k > Begun /\ calls[k] = s
    BY <2>2, <2>3 DEF OwedAccounted, ToCome
  <2>5. CASE k = Begun + 1
    <3>1. PICK f \in NewFrames(Call, gen) : stack' = <<f>>
      BY <1>6 DEF BeginCall
    <3>2. f.script = s /\ f.cfg = gen /\ f.at = "get_config"
      BY <2>1, <2>4, <2>5 DEF NewFrames
    <3>3. 1 \in DOMAIN stack' /\ stack'[1] = f
      BY <3>1
    <3> QED BY <2>1, <3>2, <3>3 DEF Running
  <2>6. CASE k # Begun + 1
    <3>1. k > Begun'
      BY <2>1, <2>4, <2>6, Lengths
    <3> QED BY <2>1, <2>4, <3>1 DEF ToCome
  <2> QED BY <2>5, <2>6
\* The steps of a script that is running.
<1>7. ASSUME SetDependents \/ Verify \/ Apply \/ CallDependent \/ DependentsDone
      PROVE  /\ Begun' = Begun /\ UNCHANGED <<gen, dry, calls, commit, called, flaw>> /\ phase = "run"
             /\ \A s : ToCome(s) => ToCome(s)'
  <2>1. phase = "run" /\ UNCHANGED flaw /\ UNCHANGED gen
    BY <1>7 DEF SetDependents, Verify, Apply, CallDependent, DependentsDone, At, sessionVars
  <2>2. Begun' = Begun /\ UNCHANGED <<gen, dry, calls, commit, called>>
    <3>1. ~UnknownScript /\ ~BeginCall /\ ~\E q \in Sessions, d \in BOOLEAN : BeginSession(q, d)
      BY <2>1 DEF UnknownScript, BeginCall, BeginSession
    <3> QED BY <3>1, BegunStays
  <2> QED BY <2>1, <2>2 DEF ToCome
<1>8. ASSUME SetDependents \/ Verify \/ Apply \/ CallDependent \/ DependentsDone,
             \A s \in owed' : /\ s \in owed /\ Pending(s) => Pending(s)' \/ Running(s)' \/ ToCome(s)'
                              /\ s \in owed /\ Running(s) => Pending(s)' \/ Running(s)' \/ ToCome(s)'
                              /\ s \notin owed => Pending(s)'
      PROVE  OwedAccounted'
  BY <1>7, <1>8 DEF OwedAccounted
<1>9. ASSUME NEW f \in Frame, stack' = SetTop(f), f.script = Top.script, f.cfg = Top.cfg,
             f.at # "call_dependents", gen' = gen, NEW s, Running(s)
      PROVE  Running(s)'
  <2>1. phase = "run" /\ Top.script = s /\ Top.cfg = gen
    BY <1>9, RunningIsTop
  <2>2. Len(stack) \in DOMAIN stack' /\ stack'[Len(stack)] = f
    BY <1>9, <2>1, TopFacts, SetElements
  <2> QED BY <1>9, <2>1, <2>2 DEF Running
<1>10. CASE SetDependents
  <2>1. PICK f \in Frame, e \in Scripts :
           /\ stack' = SetTop(f) /\ f.script = Top.script /\ f.cfg = Top.cfg /\ f.at = Top.at
           /\ Top.at = "get_config" /\ Top.cfg \in Gens
           /\ list' = [list EXCEPT ![Top.cfg] = AppendUniq(list[Top.cfg], e)]
           /\ ToSet(AppendUniq(list[Top.cfg], e)) = ToSet(list[Top.cfg]) \cup {e}
           /\ owed' = IF Top.cfg = gen THEN owed \cup {e} ELSE owed
    BY <1>10, SetDependentsEffect
  <2>2. gen' = gen
    BY <1>7, <1>10
  <2>3. ToSet(list[gen]) \subseteq ToSet(list'[gen]) /\ (Top.cfg = gen => e \in ToSet(list'[gen]))
    BY <1>1, <2>1 DEF ListsOK
  <2>4. \A s : Pending(s) => Pending(s)'
    BY <2>2, <2>3 DEF Pending
  <2>5. \A s : Running(s) => Running(s)'
    BY <1>9, <2>1, <2>2
  <2>6. \A s \in owed' : s \notin owed => Pending(s)'
    BY <2>1, <2>2, <2>3 DEF Pending
  <2> QED BY <1>8, <1>10, <2>4, <2>5, <2>6
<1>11. CASE Verify
  <2>1. UNCHANGED <<gen, list, owed>>
    BY <1>11 DEF Verify, sessionVars
  <2>2. PICK f \in Frame : /\ stack' = SetTop(f) /\ f.script = Top.script /\ f.cfg = Top.cfg
                           /\ f.at = "apply"
    BY <1>11, StepEffect
  <2>3. \A s : Pending(s) => Pending(s)'
    BY <2>1 DEF Pending
  <2>4. \A s : Running(s) => Running(s)'
    BY <1>9, <2>1, <2>2
  <2> QED BY <1>8, <1>11, <2>1, <2>3, <2>4
<1>12. CASE Apply
  <2>1. UNCHANGED <<gen, list, dry>> /\ owed' \subseteq owed
    BY <1>12 DEF Apply, sessionVars
  <2>2. CASE dry[gen]
    BY <2>1, <2>2 DEF OwedAccounted
  <2>3. CASE ~dry[gen]
    <3>1. \A s \in owed' : ~Running(s)
      <4> SUFFICES ASSUME NEW s \in owed', Running(s) PROVE FALSE
        OBVIOUS
      <4>1. Top.script = s /\ Top.cfg = gen
        BY RunningIsTop
      <4> QED BY <1>12, <2>3, <4>1 DEF Apply
    <3>2. \A s : Pending(s) => Pending(s)'
      BY <2>1 DEF Pending
    <3> QED BY <1>8, <1>12, <2>1, <3>1, <3>2
  <2> QED BY <2>2, <2>3
<1>13. CASE DependentsDone
  <2>1. UNCHANGED <<gen, list, owed>> /\ Top.at = "call_dependents"
    BY <1>13 DEF DependentsDone, At, sessionVars
  <2>2. \A s : ~Running(s)
    BY <2>1, RunningIsTop
  <2>3. \A s : Pending(s) => Pending(s)'
    BY <2>1 DEF Pending
  <2> QED BY <1>8, <1>13, <2>1, <2>2, <2>3
<1>14. CASE CallDependent
  <2>1. PICK t \in Scripts :
        /\ Top.at = "call_dependents" /\ Top.l \in Gens /\ phase = "run"
        /\ list' = [list EXCEPT ![Top.l] = Tail(list[Top.l])]
        /\ ToSet(list[Top.l]) = {t} \cup ToSet(Tail(list[Top.l]))
        /\ \/ Deferred(t, Top.l) /\ stack' = stack
           \/ \E f \in Frame : /\ stack' = Append(stack, f) /\ f.script = t /\ f.cfg = Top.l
                               /\ f.at = "get_config"
    BY <1>14, CallDependentEffect
  <2>2. UNCHANGED <<gen, owed>> /\ \A s : ~Running(s)
    BY <1>7, <1>14, <2>1, RunningIsTop DEF CallDependent
  <2>3. CASE Top.l # gen
    <3>1. list'[gen] = list[gen]
      BY <1>1, <2>1, <2>3 DEF ListsOK
    <3>2. \A s : Pending(s) => Pending(s)'
      BY <2>2, <3>1 DEF Pending
    <3> QED BY <1>8, <1>14, <2>2, <3>2
  <2>4. CASE Top.l = gen
    <3>1. \A s : Pending(s) => Pending(s)' \/ s = t
      BY <1>1, <2>1, <2>2, <2>4 DEF ListsOK, Pending
    <3>2. Running(t)' \/ ToCome(t)'
      <4>1. CASE Deferred(t, Top.l)
        <5>1. gen > 0
          BY <2>1, <2>4 DEF Gens
        <5>2. t \in ToSet(calls) /\ t \notin called[gen]
          BY <2>4, <4>1, <5>1 DEF Deferred, CallsKnown
        <5>3. PICK k \in DOMAIN calls : calls[k] = t
          BY <5>2 DEF ToSet
        <5>4. ~(k <= Begun)
          BY <2>1, <5>1, <5>2, <5>3 DEF CallsKnown
        <5>5. k > Begun
          BY <5>4, Lengths
        <5> QED BY <1>7, <1>14, <5>3, <5>5 DEF ToCome
      <4>2. ASSUME NEW f \in Frame, stack' = Append(stack, f), f.script = t, f.cfg = Top.l,
                   f.at = "get_config"
            PROVE  Running(t)'
        <5>1. Len(stack) + 1 \in DOMAIN stack' /\ stack'[Len(stack) + 1] = f
          BY <2>1, <4>2, PushElements
        <5> QED BY <2>2, <2>4, <4>2, <5>1 DEF Running
      <4> QED BY <2>1, <4>1, <4>2
    <3> QED BY <1>8, <1>14, <2>2, <3>1, <3>2
  <2> QED BY <2>3, <2>4
<1> QED
  BY <1>3, <1>4, <1>5, <1>6, <1>10, <1>11, <1>12, <1>13, <1>14 DEF Next, Step

-----------------------------------------------------------------------------
(* FRR is rendered, and a call sees what it registered itself.             *)

LEMMA RenderedKept ==
    ASSUME CallsOK, StackOK, RenderedWhenDone, Next
    PROVE  RenderedWhenDone'
<1>1. ASSUME UNCHANGED <<gen, calls, replies, rendered>> PROVE RenderedWhenDone'
  BY <1>1 DEF RenderedWhenDone
<1>2. ASSUME Len(replies') # Len(calls') PROVE RenderedWhenDone'
  BY <1>2 DEF RenderedWhenDone
<1>3. replies \in Seq({"ok", "fail"}) /\ Len(replies) \in Nat
  BY Lengths DEF CallsOK
<1>4. ASSUME replies' = Append(replies, "fail") PROVE RenderedWhenDone'
  <2>1. "fail" \in ToSet(replies')
    BY <1>3, <1>4, ReplyAppended
  <2> QED BY <2>1 DEF RenderedWhenDone
<1>5. ASSUME NEW q \in Sessions, NEW d \in BOOLEAN, BeginSession(q, d) PROVE RenderedWhenDone'
  <2>1. PICK k \in 1..MaxCalls : q \in [1..k -> Scripts \cup Missing]
    BY DEF Sessions, CallSeqs
  <2>2. Len(q) = k /\ k \in Nat /\ k > 0
    BY <2>1, ScriptsAssumption
  <2>3. calls' = q /\ replies' = <<>>
    BY <1>5 DEF BeginSession
  <2> QED BY <1>2, <2>2, <2>3
<1>6. CASE UnknownScript \/ Raised
  BY <1>4, <1>6 DEF UnknownScript, Raised
<1>7. CASE BeginCall \/ EndSession \/ SetDependents \/ Verify \/ CallDependent \/ Exhausted
  BY <1>1, <1>7
     DEF BeginCall, EndSession, SetDependents, Verify, CallDependent, Exhausted, sessionVars, vars
<1>8. ASSUME NEW n \in Nat, Cut(n), UNCHANGED <<gen, calls, rendered>> PROVE RenderedWhenDone'
  <2>1. CASE replies' = replies
    BY <1>1, <1>8, <2>1
  <2>2. CASE replies' # replies
    <3>1. ~LastCall /\ replies' = Append(replies, "ok")
      BY <1>8, <2>2 DEF Cut, ReplyOk
    <3>2. Len(replies') = Len(replies) + 1
      BY <1>3, <3>1, ReplyAppended
    <3> QED BY <1>2, <1>8, <3>1, <3>2 DEF LastCall
  <2> QED BY <2>1, <2>2
<1>9. CASE Apply \/ DependentsDone \/ Caught
  <2>1. UNCHANGED <<gen, calls, rendered>>
    BY <1>9 DEF Apply, DependentsDone, Caught, sessionVars
  <2> QED BY <1>1, <1>8, <1>9, <2>1, Cuts
<1>10. ASSUME NEW ok \in BOOLEAN, FrrRender(ok) PROVE RenderedWhenDone'
  <2>1. CASE ok
    BY <1>10, <2>1 DEF FrrRender, sessionVars, RenderedWhenDone
  <2>2. CASE ~ok
    BY <1>4, <1>10, <2>2 DEF FrrRender
  <2> QED BY <2>1, <2>2
<1> QED BY <1>5, <1>6, <1>7, <1>9, <1>10 DEF Next, Step

LEMMA FlawlessKept ==
    ASSUME CallsOK, StackOK, FlawlessReplies, Next
    PROVE  FlawlessReplies'
<1>1. ASSUME flaw' # "none" PROVE FlawlessReplies'
  BY <1>1 DEF FlawlessReplies
<1>2. ASSUME UNCHANGED <<flaw, replies>> PROVE FlawlessReplies'
  BY <1>2 DEF FlawlessReplies
<1>3. ASSUME UNCHANGED flaw, replies' = Append(replies, "ok") PROVE FlawlessReplies'
  <2>1. ToSet(replies') = ToSet(replies) \cup {"ok"}
    BY <1>3, ReplyAppended DEF CallsOK
  <2> QED BY <1>3, <2>1 DEF FlawlessReplies
<1>4. ASSUME NEW q \in Sessions, NEW d \in BOOLEAN, BeginSession(q, d) PROVE FlawlessReplies'
  BY <1>4 DEF BeginSession, FlawlessReplies, ToSet
<1>5. CASE UnknownScript \/ Raised \/ Caught
  BY <1>1, <1>5 DEF UnknownScript, Raised, Caught
<1>6. CASE BeginCall \/ EndSession \/ SetDependents \/ Verify \/ CallDependent \/ Exhausted
  BY <1>2, <1>6
     DEF BeginCall, EndSession, SetDependents, Verify, CallDependent, Exhausted, vars
<1>7. CASE Apply \/ DependentsDone
  <2>1. UNCHANGED flaw
    BY <1>7 DEF Apply, DependentsDone
  <2>2. ASSUME NEW n \in Nat, Cut(n) PROVE replies' = replies \/ replies' = Append(replies, "ok")
    BY <2>2 DEF Cut, ReplyOk
  <2>3. replies' = replies \/ replies' = Append(replies, "ok")
    BY <1>7, <2>2, Cuts
  <2> QED BY <1>2, <1>3, <2>1, <2>3
<1>8. ASSUME NEW ok \in BOOLEAN, FrrRender(ok) PROVE FlawlessReplies'
  BY <1>1, <1>3, <1>8 DEF FrrRender
<1> QED BY <1>4, <1>5, <1>6, <1>7, <1>8 DEF Next, Step

LEMMA IsolatedKept ==
    ASSUME CallsOK, ListsOK, StackOK, CallIsolated, Next
    PROVE  CallIsolated'
<1>1. gen \in 0..MaxCommits
  BY DEF CallsOK
<1>2. ASSUME phase' # "run" PROVE CallIsolated'
  BY <1>2 DEF CallIsolated
<1>3. ASSUME UNCHANGED <<gen, list, current>>, phase = "run" PROVE CallIsolated'
  BY <1>3 DEF CallIsolated
<1>4. ASSUME NEW q \in Sessions, NEW d \in BOOLEAN, BeginSession(q, d) PROVE CallIsolated'
  BY <1>2, <1>4 DEF BeginSession
<1>5. CASE UnknownScript \/ EndSession \/ Raised \/ (\E ok \in BOOLEAN : FrrRender(ok))
  BY <1>2, <1>5 DEF UnknownScript, EndSession, Raised, FrrRender
<1>6. CASE BeginCall
  <2>1. list' = [list EXCEPT ![gen] = <<>>] /\ gen' = gen
    BY <1>6 DEF BeginCall, sessionVars
  <2>2. list'[gen'] = <<>>
    BY <1>1, <2>1 DEF ListsOK
  <2>3. ToSet(list'[gen']) = {}
    BY <2>2 DEF ToSet
  <2> QED BY <2>3 DEF CallIsolated
<1>7. CASE SetDependents
  <2>1. PICK e \in Scripts :
           /\ Top.cfg \in Gens /\ phase = "run"
           /\ list' = [list EXCEPT ![Top.cfg] = AppendUniq(list[Top.cfg], e)]
           /\ ToSet(AppendUniq(list[Top.cfg], e)) = ToSet(list[Top.cfg]) \cup {e}
           /\ current' = IF Top.cfg = gen THEN current \cup {e} ELSE current
    BY <1>7, SetDependentsEffect
  <2>2. gen' = gen
    BY <1>7 DEF SetDependents, sessionVars
  <2>3. CASE Top.cfg = gen
    BY <1>1, <2>1, <2>2, <2>3 DEF ListsOK, CallIsolated
  <2>4. CASE Top.cfg # gen
    BY <1>1, <2>1, <2>2, <2>4 DEF ListsOK, CallIsolated
  <2> QED BY <2>3, <2>4
<1>8. CASE CallDependent
  <2>1. /\ Top.l \in Gens /\ phase = "run"
        /\ list' = [list EXCEPT ![Top.l] = Tail(list[Top.l])]
        /\ ToSet(Tail(list[Top.l])) \subseteq ToSet(list[Top.l])
    BY <1>8, CallDependentEffect
  <2>2. gen' = gen /\ current' = current
    BY <1>8 DEF CallDependent, sessionVars
  <2> QED BY <1>1, <2>1, <2>2 DEF ListsOK, CallIsolated
<1>9. CASE Verify \/ Apply \/ DependentsDone \/ Caught
  BY <1>3, <1>9 DEF Verify, Apply, DependentsDone, Caught, MayRaise, At, sessionVars
<1>10. CASE Exhausted
  BY <1>10 DEF Exhausted, vars, CallIsolated
<1> QED BY <1>4, <1>5, <1>6, <1>7, <1>8, <1>9, <1>10 DEF Next, Step

-----------------------------------------------------------------------------
(* The invariant and what follows from it.                                 *)

LEMMA CommitdInit == Init => CommitdInv
<1> SUFFICES ASSUME Init PROVE CommitdInv
  OBVIOUS
<1>1. MaxCommits \in Nat /\ 0 \in 0..MaxCommits /\ gen = 0
  BY ScriptsAssumption DEF Init
<1>2. \A x : x \notin ToSet(<<>>)
  BY DEF ToSet
<1>3. CallsOK /\ RenderedWhenDone /\ FlawlessReplies
  BY <1>1, <1>2 DEF Init, CallsOK, RenderedWhenDone, FlawlessReplies
<1>4. ConfigsOK
  BY DEF Init, ConfigsOK
<1>5. ListsOK
  <2>1. IsInjective(<<>>) /\ <<>> \in Seq(Scripts)
    BY DEF IsInjective
  <2> QED BY <1>1, <2>1 DEF Init, ListsOK
<1>6. StackOK /\ OwnConfig
  BY DEF Init, StackOK, OwnConfig
<1>7. HistoryOK
  BY <1>1 DEF Init, HistoryOK
<1>8. Drained /\ NoLeftovers
  BY <1>1 DEF Init, Drained, NoLeftovers
<1>9. CallsKnown /\ OwedAccounted
  BY <1>1 DEF Init, CallsKnown, OwedAccounted
<1>10. CallIsolated
  BY DEF Init, CallIsolated
<1> QED BY <1>3, <1>4, <1>5, <1>6, <1>7, <1>8, <1>9, <1>10 DEF CommitdInv

LEMMA CommitdInductive == CommitdInv /\ [Next]_vars => CommitdInv'
<1>1. CASE UNCHANGED vars
  <2> SUFFICES ASSUME CommitdInv PROVE CommitdInv'
    BY <1>1
  <2>1. (CallsOK /\ ConfigsOK /\ ListsOK /\ StackOK /\ HistoryOK)'
    BY <1>1 DEF CommitdInv, vars, CallsOK, ConfigsOK, ListsOK, StackOK, HistoryOK
  <2>2. /\ (Drained /\ NoLeftovers /\ CallsKnown /\ RenderedWhenDone)'
        /\ (FlawlessReplies /\ CallIsolated /\ OwnConfig)'
    BY <1>1 DEF CommitdInv, vars, Drained, NoLeftovers, CallsKnown, Begun, RenderedWhenDone,
                FlawlessReplies, CallIsolated, OwnConfig
  <2>3. OwedAccounted'
    BY <1>1 DEF CommitdInv, vars, OwedAccounted, Pending, Running, ToCome, Begun
  <2> QED BY <2>1, <2>2, <2>3 DEF CommitdInv
<1>2. ASSUME CommitdInv, Next PROVE CommitdInv'
  <2> USE <1>2 DEF CommitdInv
  <2>1. CallsOK'
    BY CallsKept
  <2>2. ConfigsOK'
    BY ConfigsKept
  <2>3. ListsOK'
    BY ListsKept
  <2>4. StackOK'
    BY StackKept
  <2>5. HistoryOK'
    BY HistoryKept
  <2>6. Drained'
    BY DrainedKept
  <2>7. NoLeftovers' /\ OwnConfig'
    BY OwnConfigKept
  <2>8. CallsKnown'
    BY CallsKnownKept
  <2>9. OwedAccounted'
    BY OwedKept
  <2>10. RenderedWhenDone'
    BY RenderedKept
  <2>11. CallIsolated'
    BY IsolatedKept
  <2>12. FlawlessReplies'
    BY FlawlessKept
  <2> QED BY <2>1, <2>2, <2>3, <2>4, <2>5, <2>6, <2>7, <2>8, <2>9, <2>10, <2>11, <2>12
<1> QED BY <1>1, <1>2

\* The inductive invariant holds in every state of the daemon.
THEOREM CommitdInvariant == Spec => []CommitdInv
BY CommitdInit, CommitdInductive, PTL DEF Spec

\* The types of the state of vyos-commitd, and that append_uniq keeps a
\* pending list free of duplicates.
THEOREM CommitdTypes == Spec => []TypeOK
<1>1. CommitdInv => TypeOK
  <2> SUFFICES ASSUME CommitdInv PROVE TypeOK
    OBVIOUS
  <2> USE DEF CommitdInv
  <2>1. ToSet(replies) \subseteq {"ok", "fail"}
    BY DEF CallsOK, ToSet
  <2>2. \A g \in 0..MaxCommits : ToSet(list[g]) \subseteq Scripts
    BY DEF ListsOK, ToSet
  <2>3. bound \in 0..MaxCommits
    BY ScriptsAssumption DEF ListsOK, CallsOK
  <2>4. \A g \in Gens : commit[g] \subseteq Scripts \cup Missing /\ called[g] \subseteq Scripts
    BY DEF ConfigsOK
  <2> QED BY <2>1, <2>2, <2>3, <2>4 DEF TypeOK, CallsOK, ConfigsOK, ListsOK, StackOK, HistoryOK
<1> QED BY <1>1, CommitdInvariant, PTL

\* After a commit without an error every script registered with
\* set_dependents has been applied, at once or at its own call.
THEOREM DependentsApplied == Spec => []Settled
<1>1. CommitdInv => Settled
  <2> SUFFICES ASSUME CommitdInv, phase = "idle", gen > 0, flaw = "none", ~dry[gen], NEW s \in owed
               PROVE  FALSE
    BY DEF Settled, AllOk
  <2> USE DEF CommitdInv
  <2>1. stack = <<>> /\ Begun = Len(calls) /\ DOMAIN calls = 1..Len(calls)
    BY Lengths DEF StackOK, CallsOK, Begun
  <2>2. list[gen] = <<>>
    BY <2>1 DEF Drained
  <2>3. ~Pending(s) /\ ~Running(s)
    BY <2>1, <2>2 DEF Pending, Running, ToSet
  <2>4. PICK k \in DOMAIN calls : k > Begun
    BY <2>3 DEF OwedAccounted, ToCome
  <2> QED BY <2>1, <2>4, Lengths
<1> QED BY <1>1, CommitdInvariant, PTL

\* What a failed call left in the list is not run by a later call of the
\* session: process_call_data clears the list.
THEOREM CallsAreIsolated == Spec => []CallIsolated
<1>1. CommitdInv => CallIsolated
  BY DEF CommitdInv
<1> QED BY <1>1, CommitdInvariant, PTL

\* call_dependents finds its list through a variable of the module that
\* outlives the session; a script still runs with the Config object of its
\* own session, as long as no session before it had an error.
THEOREM ScriptsRunWithOwnConfig == Spec => []OwnConfig
<1>1. CommitdInv => OwnConfig
  BY DEF CommitdInv
<1> QED BY <1>1, CommitdInvariant, PTL

\* Success of all calls means that call_frr_render ran and succeeded.
THEOREM RenderedBeforeSuccess == Spec => []FrrFollows
<1>1. CommitdInv => FrrFollows
  BY DEF CommitdInv, RenderedWhenDone, FrrFollows, AllOk, CallsOK
<1> QED BY <1>1, CommitdInvariant, PTL

-----------------------------------------------------------------------------
(* A session as a set of scripts to run.                                   *)

LEMMA WorkInit == Init => Work!Init
<1> SUFFICES ASSUME Init PROVE Work!Init
  OBVIOUS
<1>1. work = {}
  <2>1. gen \in 0..MaxCommits /\ calls = <<>> /\ list = [g \in 0..MaxCommits |-> <<>>]
    BY ScriptsAssumption DEF Init
  <2>2. list[gen] = <<>> /\ DOMAIN calls = {}
    BY <2>1
  <2>3. \A t : ~Pending(t) /\ ~ToCome(t)
    BY <2>2 DEF Pending, ToCome, ToSet
  <2> QED BY <2>3 DEF work
<1>2. active = {}
  BY DEF Init, active
<1> QED BY <1>1, <1>2 DEF Init, Work!Init

\* When nothing is running, or the innermost script is in call_dependents.
LEMMA NotActive ==
    ASSUME flaw # "none" \/ phase # "run" \/ Top.at = "call_dependents" \/ Top.cfg # gen
    PROVE  active = {}
  BY DEF active

LEMMA NotActiveAfterCut ==
    ASSUME StackOK, NEW n \in Nat, Cut(n)
    PROVE  active' = {}
<1>1. CASE n = 0
  <2>1. phase' # "run"
    BY <1>1 DEF Cut, ReplyOk
  <2> QED BY <2>1 DEF active
<1>2. CASE n # 0
  <2>1. Top' = stack'[n] /\ n \in DOMAIN stack' /\ stack'[n] = stack[n]
    BY <1>2, CutElements DEF Top, Cut
  <2>2. n \in DOMAIN stack /\ n < Len(stack)
    BY <2>1, CutElements DEF Cut
  <2>3. (Top').at = "call_dependents"
    BY <2>1, <2>2 DEF StackOK
  <2> QED BY <2>3 DEF active
<1> QED BY <1>1, <1>2

LEMMA ActiveAfterSet ==
    ASSUME StackOK, phase = "run", NEW f \in Frame, stack' = SetTop(f), UNCHANGED <<phase, gen, flaw>>
    PROVE  /\ f.at = "call_dependents" => active' = {}
           /\ f.script = Top.script /\ f.cfg = Top.cfg /\ f.at # "call_dependents"
                /\ Top.at # "call_dependents" => active' = active
<1>1. Len(stack) \in Nat \ {0} /\ Len(stack) \in DOMAIN stack /\ stack \in Seq(Frame)
  BY TopFacts DEF StackOK
<1>2. Len(stack') = Len(stack) /\ stack'[Len(stack)] = f
  BY <1>1, StackSteps DEF SetTop
<1>3. Top' = f
  BY <1>2 DEF Top
<1> QED BY <1>3 DEF active

\* Nothing is to be done when all calls have begun and no script runs.
LEMMA NoWorkAtEnd ==
    ASSUME CommitdInv, Begun = Len(calls), stack = <<>>
    PROVE  work = {}
<1>1. ASSUME flaw = "none", NEW s PROVE ~Pending(s) /\ ~ToCome(s)
  <2>1. list[gen] = <<>>
    BY <1>1 DEF CommitdInv, Drained
  <2>2. ~Pending(s)
    BY <2>1 DEF Pending, ToSet
  <2>3. \A k \in DOMAIN calls : ~(k > Begun)
    BY Lengths DEF CommitdInv
  <2> QED BY <2>2, <2>3 DEF ToCome
<1> QED BY <1>1 DEF work

LEMMA WorkKept ==
    ASSUME UNCHANGED <<gen, calls, flaw>>, Begun' = Begun, ToSet(list'[gen]) = ToSet(list[gen])
    PROVE  work' = work
  BY DEF work, Pending, ToCome

\* After an error there is nothing to do.
LEMMA NoWorkWhenFlawed ==
    /\ flaw # "none" => work = {} /\ active = {}
    /\ flaw' # "none" => work' = {} /\ active' = {}
  BY DEF work, active

\* The calls of a session are distinct.
LEMMA CallsInjective ==
    ASSUME CallsOK
    PROVE  \A j, k \in DOMAIN calls : calls[j] = calls[k] => j = k
<1>1. CASE calls = <<>>
  BY <1>1
<1>2. CASE calls \in Sessions
  BY <1>2 DEF Sessions
<1> QED BY <1>1, <1>2 DEF CallsOK

\* What the steps of a script leave alone.
LEMMA ScriptStep ==
    ASSUME CommitdInv, SetDependents \/ Verify \/ Apply \/ CallDependent \/ DependentsDone
    PROVE  /\ phase = "run" /\ phase' # "idle"
           /\ UNCHANGED <<gen, calls, commit, called, flaw, rendered>> /\ Begun' = Begun
<1>1. phase = "run" /\ UNCHANGED <<flaw, rendered, gen>>
  BY DEF SetDependents, Verify, Apply, CallDependent, DependentsDone, At, sessionVars
<1>2. ~UnknownScript /\ ~BeginCall /\ ~\E q \in Sessions, d \in BOOLEAN : BeginSession(q, d)
  BY <1>1 DEF UnknownScript, BeginCall, BeginSession
<1>3. Begun' = Begun /\ UNCHANGED <<gen, dry, calls, commit, called>>
  BY <1>2, BegunStays DEF CommitdInv, Next, Step
<1>4. ASSUME SetDependents \/ Verify \/ CallDependent PROVE phase' # "idle"
  BY <1>1, <1>4 DEF SetDependents, Verify, CallDependent
<1>5. ASSUME Apply \/ DependentsDone PROVE phase' # "idle"
  <2>1. ASSUME NEW n \in Nat, Cut(n) PROVE phase' # "idle"
    BY <2>1 DEF Cut, ReplyOk
  <2> QED BY <1>1, <1>5, <2>1, Cuts DEF CommitdInv
<1> QED BY <1>1, <1>3, <1>4, <1>5

\* A step that does nothing to the set of scripts.
Stutters == UNCHANGED Work!work_vars

\* Steps of scripts of other sessions, and those that only change the stack.
LEMMA StutterFacts ==
    ASSUME SetDependents \/ Verify \/ Apply \/ CallDependent \/ DependentsDone, CommitdInv,
           ToSet(list'[gen]) = ToSet(list[gen]), active' = active
    PROVE  Stutters
<1>1. /\ phase = "run" /\ phase' # "idle"
      /\ UNCHANGED <<gen, calls, flaw, rendered>> /\ Begun' = Begun
  BY ScriptStep
<1>2. work' = work
  BY <1>1, WorkKept
<1> QED BY <1>1, <1>2 DEF Stutters, Work!work_vars

LEMMA BeginSessionWork ==
    ASSUME CommitdInv, NEW q \in Sessions, NEW d \in BOOLEAN, BeginSession(q, d)
    PROVE  Work!Next
<1>1. gen \in Nat /\ gen + 1 \in 0..MaxCommits /\ phase = "idle"
  BY ScriptsAssumption DEF CommitdInv, CallsOK, BeginSession
<1>2. /\ gen' = gen + 1 /\ phase' = "next" /\ calls' = q /\ replies' = <<>>
      /\ flaw' = "none" /\ list' = list /\ rendered' = rendered
  BY DEF BeginSession
<1>3. list'[gen'] = <<>>
  BY <1>1, <1>2 DEF CommitdInv, ListsOK
<1>4. Begun' = 0
  BY <1>2 DEF Begun
<1>5. DOMAIN q \subseteq Nat \ {0} /\ ToSet(q) \subseteq Scripts \cup Missing
  BY DEF Sessions, CallSeqs, ToSet
<1>6. \A s : ~Pending(s)' /\ (ToCome(s)' <=> s \in ToSet(q))
  BY <1>2, <1>3, <1>4, <1>5 DEF Pending, ToCome, ToSet
<1>7. work' = ToSet(q)
  BY <1>2, <1>5, <1>6 DEF work
<1>8. active' = {}
  BY <1>2 DEF active
<1>9. Work!Begin(ToSet(q))
  BY <1>1, <1>2, <1>7, <1>8 DEF Work!Begin
<1> QED BY <1>5, <1>9 DEF Work!Next

LEMMA FailedWork ==
    ASSUME CommitdInv, UnknownScript \/ Raised \/ Caught
    PROVE  Work!Next
<1>1. phase # "idle" /\ flaw' # "none" /\ UNCHANGED <<gen, rendered>>
  BY DEF UnknownScript, Raised, Caught, MayRaise, sessionVars
<1>2. phase' # "idle"
  <2>1. CASE UnknownScript \/ Raised
    BY <2>1 DEF UnknownScript, Raised
  <2>2. CASE Caught
    <3>1. PICK n \in Nat : Cut(n)
      BY <2>2, CaughtCuts DEF CommitdInv
    <3> QED BY <3>1 DEF Cut, ReplyOk
  <2> QED BY <2>1, <2>2
<1>3. Work!Fail
  BY <1>1, <1>2, NoWorkWhenFlawed DEF Work!Fail
<1> QED BY <1>3 DEF Work!Next

LEMMA BeginCallWork ==
    ASSUME CommitdInv, BeginCall
    PROVE  Work!Next \/ Stutters
<1>1. /\ phase = "next" /\ phase' = "run" /\ UNCHANGED <<gen, flaw, rendered, calls>>
      /\ list' = [list EXCEPT ![gen] = <<>>] /\ Call \in Scripts /\ stack = <<>>
  BY DEF CommitdInv, BeginCall, sessionVars, StackOK
<1>2. /\ Begun' = Begun + 1 /\ Begun + 1 \in DOMAIN calls /\ Call = calls[Begun + 1] /\ gen \in Gens
  BY BegunGrows DEF CommitdInv
<1>3. CASE flaw # "none"
  BY <1>1, <1>3, NoWorkWhenFlawed DEF Stutters, Work!work_vars
<1>4. CASE flaw = "none"
  <2>1. list[gen] = <<>> /\ list'[gen] = <<>>
    BY <1>1, <1>2, <1>4 DEF CommitdInv, Drained, ListsOK
  <2>2. \A s : ~Pending(s) /\ ~Pending(s)'
    BY <1>1, <2>1 DEF Pending, ToSet
  <2>3. \A s : ToCome(s)' <=> ToCome(s) /\ s # Call
    <3>1. ASSUME NEW s, ToCome(s), s # Call PROVE ToCome(s)'
      <4>1. PICK k \in DOMAIN calls : k > Begun /\ calls[k] = s
        BY <3>1 DEF ToCome
      <4>2. k > Begun'
        BY <1>2, <3>1, <4>1, Lengths DEF CommitdInv
      <4> QED BY <1>1, <4>1, <4>2 DEF ToCome
    <3>2. ASSUME NEW s, ToCome(s)' PROVE ToCome(s) /\ s # Call
      <4>1. PICK k \in DOMAIN calls : k > Begun + 1 /\ calls[k] = s
        BY <1>1, <1>2, <3>2 DEF ToCome
      <4>2. k > Begun
        BY <4>1, Lengths DEF CommitdInv
      <4>3. k # Begun + 1
        BY <4>1, Lengths DEF CommitdInv
      <4>4. s # Call
        BY <1>2, <4>1, <4>3, CallsInjective DEF CommitdInv
      <4> QED BY <4>1, <4>2, <4>4 DEF ToCome
    <3> QED BY <3>1, <3>2
  <2>4. ToCome(Call)
    <3>1. Begun + 1 > Begun
      BY Lengths DEF CommitdInv
    <3> QED BY <1>2, <3>1 DEF ToCome
  <2>5. Call \in work /\ work' = work \ {Call}
    BY <1>1, <1>4, <2>2, <2>3, <2>4 DEF work
  <2>6. active = {}
    BY <1>1, NotActive
  <2>7. active' = {Call}
    <3>1. PICK f \in NewFrames(Call, gen) : stack' = <<f>>
      BY DEF BeginCall
    <3>2. Top' = f
      BY <3>1 DEF Top
    <3>3. f.script = Call /\ f.cfg = gen /\ f.at = "get_config"
      BY DEF NewFrames
    <3> QED BY <1>1, <1>4, <3>2, <3>3 DEF active
  <2>8. Work!Start(Call)
    BY <1>1, <1>4, <2>5, <2>6, <2>7 DEF Work!Start
  <2> QED BY <1>1, <2>8 DEF Work!Next
<1> QED BY <1>3, <1>4

LEMMA EndWork ==
    ASSUME CommitdInv, EndSession \/ \E ok \in BOOLEAN : FrrRender(ok)
    PROVE  Work!Next
<1>1. /\ phase \in {"next", "frr"} /\ stack = <<>> /\ UNCHANGED <<gen, calls, list, stack>>
      /\ gen > 0
  <2>1. phase \in {"next", "frr"} /\ UNCHANGED <<gen, calls, list, stack>>
    BY DEF EndSession, FrrRender, sessionVars
  <2> QED BY <2>1, ScriptsAssumption DEF CommitdInv, StackOK, CallsOK
<1>2. active = {} /\ active' = {}
  BY <1>1 DEF EndSession, FrrRender, active
<1>3. Begun' = Begun
  <2>1. ~UnknownScript /\ ~BeginCall /\ ~\E q \in Sessions, d \in BOOLEAN : BeginSession(q, d)
    <3>1. Len(replies) \in Nat /\ gen \in Nat
      BY Lengths, ScriptsAssumption DEF CommitdInv, CallsOK
    <3> QED BY <1>1, <3>1 DEF EndSession, FrrRender, UnknownScript, BeginCall, BeginSession
  <2> QED BY <2>1, BegunStays DEF CommitdInv, Next, Step
<1>4. CASE EndSession
  <2>1. /\ phase = "next" /\ phase' = "idle" /\ Len(replies) = Len(calls)
        /\ UNCHANGED <<flaw, rendered>>
    BY <1>4 DEF EndSession
  <2>2. Begun = Len(calls)
    BY <2>1, Lengths DEF CommitdInv, Begun
  <2>3. work = {} /\ work' = work
    BY <1>1, <1>3, <2>1, <2>2, NoWorkAtEnd, WorkKept
  <2>4. flaw = "none" => rendered = gen
    BY <1>1, <2>1 DEF CommitdInv, RenderedWhenDone, FlawlessReplies
  <2>5. Work!Finish
    BY <1>1, <1>2, <2>1, <2>3, <2>4 DEF Work!Finish, Work!Idle
  <2> QED BY <2>5 DEF Work!Next
<1>5. ASSUME NEW ok \in BOOLEAN, FrrRender(ok) PROVE Work!Next
  <2>1. phase = "frr" /\ phase' = "next"
    BY <1>5 DEF FrrRender
  <2>2. CASE ok
    <3>1. flaw' = flaw /\ rendered' = gen
      BY <1>5, <2>2 DEF FrrRender
    <3>2. work' = work
      BY <1>1, <1>3, <3>1, WorkKept
    <3>3. flaw = "none" => work = {}
      <4>1. ASSUME flaw = "none", NEW s PROVE ~ToCome(s) /\ ~Pending(s)
        <5>1. list[gen] = <<>>
          BY <1>1, <4>1 DEF CommitdInv, Drained
        <5>2. Begun = Len(calls)
          BY <2>1 DEF CommitdInv, CallsOK, Begun
        <5>3. \A k \in DOMAIN calls : ~(k > Begun)
          BY <5>2, Lengths DEF CommitdInv
        <5> QED BY <5>1, <5>3 DEF ToCome, Pending, ToSet
      <4> QED BY <4>1 DEF work
    <3>4. Work!Render
      BY <1>1, <1>2, <2>1, <3>1, <3>2, <3>3 DEF Work!Render, Work!Idle
    <3> QED BY <3>4 DEF Work!Next
  <2>3. CASE ~ok
    <3>1. flaw' # "none" /\ rendered' = rendered
      BY <1>5, <2>3 DEF FrrRender
    <3>2. Work!Fail
      BY <1>1, <2>1, <3>1, NoWorkWhenFlawed DEF Work!Fail
    <3> QED BY <3>2 DEF Work!Next
  <2> QED BY <2>2, <2>3
<1> QED BY <1>4, <1>5

LEMMA OwnStepsWork ==
    ASSUME CommitdInv, SetDependents \/ Verify \/ Apply \/ DependentsDone
    PROVE  Work!Next \/ Stutters
<1>1. /\ phase = "run" /\ phase' # "idle" /\ Begun' = Begun
      /\ UNCHANGED <<gen, calls, flaw, rendered>> /\ gen \in 0..MaxCommits
  BY ScriptStep DEF CommitdInv, CallsOK
<1>2. CASE flaw # "none"
  BY <1>1, <1>2, NoWorkWhenFlawed DEF Stutters, Work!work_vars
<1>3. CASE flaw = "none" /\ SetDependents
  <2>1. PICK f \in Frame, e \in Scripts :
           /\ stack' = SetTop(f) /\ f.script = Top.script /\ f.cfg = Top.cfg /\ f.at = Top.at
           /\ Top.at = "get_config" /\ Top.cfg \in Gens
           /\ list' = [list EXCEPT ![Top.cfg] = AppendUniq(list[Top.cfg], e)]
           /\ ToSet(AppendUniq(list[Top.cfg], e)) = ToSet(list[Top.cfg]) \cup {e}
    BY <1>3, SetDependentsEffect DEF CommitdInv
  <2>2. phase' = phase
    BY <1>3 DEF SetDependents
  <2>3. active' = active
    BY <1>1, <2>1, <2>2, ActiveAfterSet DEF CommitdInv
  <2>4. CASE Top.cfg # gen
    <3>1. list'[gen] = list[gen]
      BY <1>1, <2>1, <2>4 DEF CommitdInv, ListsOK
    <3> QED BY <1>3, <2>3, <3>1, StutterFacts
  <2>5. CASE Top.cfg = gen
    <3>1. ToSet(list'[gen]) = ToSet(list[gen]) \cup {e}
      BY <1>1, <2>1, <2>5 DEF CommitdInv, ListsOK
    <3>2. \A s : /\ Pending(s)' <=> Pending(s) \/ s = e
                 /\ ToCome(s)' <=> ToCome(s)
      BY <1>1, <3>1 DEF Pending, ToCome
    <3>3. work' = work \cup {e}
      BY <1>1, <1>3, <3>2 DEF work
    <3>4. active # {}
      BY <1>1, <1>3, <2>1, <2>5 DEF active
    <3>5. Work!Register(e)
      BY <1>1, <2>2, <2>3, <3>3, <3>4 DEF Work!Register
    <3> QED BY <3>5 DEF Work!Next
  <2> QED BY <2>4, <2>5
<1>4. CASE Verify
  <2>1. PICK f \in Frame : /\ stack' = SetTop(f) /\ f.script = Top.script /\ f.cfg = Top.cfg
                           /\ f.at = "apply" /\ Top.at = "get_config"
    BY <1>4, StepEffect DEF CommitdInv
  <2>2. phase' = phase /\ list' = list
    BY <1>4 DEF Verify
  <2>3. active' = active
    BY <1>1, <2>1, <2>2, ActiveAfterSet DEF CommitdInv
  <2> QED BY <1>4, <2>2, <2>3, StutterFacts
<1>5. CASE flaw = "none" /\ (Apply \/ DependentsDone)
  <2>1. list' = list
    BY <1>5 DEF Apply, DependentsDone
  <2>2. active' = {}
    <3>1. ASSUME NEW n \in Nat, Cut(n) PROVE active' = {}
      BY <3>1, NotActiveAfterCut DEF CommitdInv
    <3>2. ASSUME Apply, CallsDependents(Top), phase' = phase,
                 stack' = SetTop([Top EXCEPT !.at = "call_dependents", !.l = bound])
          PROVE  active' = {}
      <4>1. PICK f \in Frame : stack' = SetTop(f) /\ f.at = "call_dependents"
        BY <3>2, StepEffect DEF CommitdInv
      <4> QED BY <1>1, <3>2, <4>1, ActiveAfterSet DEF CommitdInv
    <3> QED BY <1>5, <3>1, <3>2, Cuts DEF CommitdInv
  <2>3. CASE active = {}
    BY <1>5, <2>1, <2>2, <2>3, StutterFacts
  <2>4. CASE active # {}
    <3>1. work' = work
      BY <1>1, <2>1, WorkKept
    <3>2. Work!Done
      BY <1>1, <2>2, <2>4, <3>1 DEF Work!Done
    <3> QED BY <3>2 DEF Work!Next
  <2> QED BY <2>3, <2>4
<1> QED BY <1>2, <1>3, <1>4, <1>5

LEMMA CallDependentWork ==
    ASSUME CommitdInv, CallDependent
    PROVE  Work!Next \/ Stutters
<1>1. /\ phase = "run" /\ phase' = phase /\ Begun' = Begun
      /\ UNCHANGED <<gen, calls, flaw, rendered>> /\ gen \in 0..MaxCommits
  BY ScriptStep DEF CommitdInv, CallsOK, CallDependent
<1>2. PICK t \in Scripts :
        /\ t = Head(list[Top.l]) /\ list[Top.l] # <<>>
        /\ Top.at = "call_dependents" /\ Top.l \in Gens
        /\ list' = [list EXCEPT ![Top.l] = Tail(list[Top.l])]
        /\ ToSet(list[Top.l]) = {t} \cup ToSet(Tail(list[Top.l]))
        /\ \/ Deferred(t, Top.l) /\ stack' = stack
           \/ /\ ~Deferred(t, Top.l)
              /\ \E f \in Frame : /\ stack' = Append(stack, f) /\ f.script = t /\ f.cfg = Top.l
                                  /\ f.at = "get_config"
  BY CallDependentEffect DEF CommitdInv
<1>3. active = {}
  BY <1>2, NotActive
<1>4. ASSUME stack' = stack PROVE active' = {}
  BY <1>1, <1>2, <1>4 DEF active, Top
<1>5. ASSUME NEW f \in Frame, stack' = Append(stack, f) PROVE Top' = f
  <2>1. stack \in Seq(Frame) /\ stack # <<>>
    BY <1>1 DEF CommitdInv, StackOK
  <2>2. Len(stack') = Len(stack) + 1 /\ stack'[Len(stack) + 1] = f
    BY <1>5, <2>1, StackSteps
  <2> QED BY <2>2 DEF Top
<1>6. CASE flaw # "none"
  BY <1>1, <1>6, NoWorkWhenFlawed DEF Stutters, Work!work_vars
<1>7. CASE Top.l # gen
  <2>1. list'[gen] = list[gen]
    BY <1>1, <1>2, <1>7 DEF CommitdInv, ListsOK
  <2>2. active' = {}
    <3>1. ASSUME NEW f \in Frame, stack' = Append(stack, f), f.cfg = Top.l PROVE active' = {}
      BY <1>1, <1>5, <1>7, <3>1 DEF active
    <3> QED BY <1>2, <1>4, <3>1
  <2> QED BY <1>3, <2>1, <2>2, StutterFacts
<1>8. CASE flaw = "none" /\ Top.l = gen
  <2>1. gen > 0 /\ list[gen] \in Seq(Scripts) /\ IsInjective(list[gen])
    BY <1>1, <1>2, <1>8 DEF CommitdInv, ListsOK, Gens
  <2>2. list'[gen] = Tail(list[gen]) /\ t \notin ToSet(Tail(list[gen]))
    <3>1. list'[gen] = Tail(list[gen])
      BY <1>1, <1>2, <1>8 DEF CommitdInv, ListsOK
    <3> QED BY <1>2, <1>8, <2>1, <3>1, TailNew
  <2>3. \A s : Pending(s)' <=> Pending(s) /\ s # t
    BY <1>1, <1>2, <1>8, <2>2 DEF Pending
  <2>4. \A s : ToCome(s)' <=> ToCome(s)
    BY <1>1 DEF ToCome
  <2>5. Pending(t)
    BY <1>2, <1>8 DEF Pending
  <2>6. ASSUME Deferred(t, gen) PROVE ToCome(t)
    <3>1. t \in ToSet(calls) /\ t \notin called[gen]
      BY <2>1, <2>6 DEF Deferred, CommitdInv, CallsKnown
    <3>2. PICK k \in DOMAIN calls : calls[k] = t
      BY <3>1 DEF ToSet
    <3>3. ~(k <= Begun)
      BY <2>1, <3>1, <3>2 DEF CommitdInv, CallsKnown
    <3>4. k > Begun
      BY <3>3, Lengths DEF CommitdInv
    <3> QED BY <3>2, <3>4 DEF ToCome
  <2>7. ASSUME ~Deferred(t, gen) PROVE ~ToCome(t)
    <3> SUFFICES ASSUME NEW k \in DOMAIN calls, k > Begun, calls[k] = t PROVE FALSE
      BY DEF ToCome
    <3>1. t \in commit[gen]
      BY <2>1 DEF CommitdInv, CallsKnown, ToSet
    <3>2. t \in called[gen]
      BY <2>7, <3>1 DEF Deferred
    <3>3. PICK j \in DOMAIN calls : j <= Begun /\ calls[j] = t
      BY <2>1, <3>2 DEF CommitdInv, CallsKnown
    <3>4. j # k
      BY <3>3, Lengths DEF CommitdInv
    <3> QED BY <3>3, <3>4, CallsInjective DEF CommitdInv
  <2>8. CASE Deferred(t, gen) /\ stack' = stack
    <3>1. work' = work
      BY <1>1, <1>8, <2>3, <2>4, <2>6, <2>8 DEF work
    <3> QED BY <1>1, <1>3, <1>4, <2>8, <3>1 DEF Stutters, Work!work_vars
  <2>9. ASSUME ~Deferred(t, gen), NEW f \in Frame, stack' = Append(stack, f), f.script = t,
               f.cfg = gen, f.at = "get_config"
        PROVE  Work!Next
    <3>1. t \in work /\ work' = work \ {t}
      BY <1>1, <1>8, <2>3, <2>4, <2>5, <2>7, <2>9 DEF work
    <3>2. active' = {t}
      BY <1>1, <1>5, <1>8, <2>9 DEF active
    <3>3. Work!Start(t)
      BY <1>1, <1>3, <1>8, <3>1, <3>2 DEF Work!Start
    <3> QED BY <3>3 DEF Work!Next
  <2> QED BY <1>2, <1>8, <2>8, <2>9
<1> QED BY <1>6, <1>7, <1>8

LEMMA WorkStep == CommitdInv /\ [Next]_vars => [Work!Next]_(Work!work_vars)
<1> SUFFICES ASSUME CommitdInv, [Next]_vars PROVE Work!Next \/ Stutters
  BY DEF Stutters
<1>1. CASE Exhausted \/ UNCHANGED vars
  <2>1. UNCHANGED vars
    BY <1>1 DEF Exhausted
  <2>2. UNCHANGED <<gen, phase, flaw, rendered, calls, replies, list, stack>>
    BY <2>1 DEF vars
  <2>3. work' = work /\ active' = active
    BY <2>2 DEF work, active, Pending, ToCome, Begun, Top
  <2> QED BY <2>2, <2>3 DEF Stutters, Work!work_vars
<1>2. ASSUME NEW q \in Sessions, NEW d \in BOOLEAN, BeginSession(q, d) PROVE Work!Next
  BY <1>2, BeginSessionWork
<1>3. CASE UnknownScript \/ Raised \/ Caught
  BY <1>3, FailedWork
<1>4. CASE BeginCall
  BY <1>4, BeginCallWork
<1>5. CASE EndSession \/ \E ok \in BOOLEAN : FrrRender(ok)
  BY <1>5, EndWork
<1>6. CASE SetDependents \/ Verify \/ Apply \/ DependentsDone
  BY <1>6, OwnStepsWork
<1>7. CASE CallDependent
  BY <1>7, CallDependentWork
<1> QED BY <1>1, <1>2, <1>3, <1>4, <1>5, <1>6, <1>7 DEF Next, Step

\* A session without an error runs each script once for each time it was
\* asked for, its own calls and what was registered, before call_frr_render
\* and the reply, however the dependents nest and are deferred.
THEOREM SessionIsWork == Spec => RefinesWork
BY WorkInit, WorkStep, CommitdInvariant, PTL DEF Spec, RefinesWork, Work!Spec
=============================================================================
