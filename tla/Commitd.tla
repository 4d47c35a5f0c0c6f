------------------------------ MODULE Commitd ------------------------------
(***************************************************************************)
(* vyos-commitd running the configuration scripts of a commit, and the     *)
(* list of dependent scripts that vyos.configdep keeps for them.           *)
(*                                                                         *)
(* One session is one commit: a Config object and a list of calls, one per *)
(* script, run in order by a single thread.  A script registers scripts    *)
(* that depend on it (set_dependents) while it reads its configuration and *)
(* runs them (call_dependents) when it has applied it; they may in turn    *)
(* register and run dependents.  The list of pending dependents belongs to *)
(* the Config object, but call_dependents finds it through a variable of   *)
(* the module vyos.configdep, which outlives the session.                  *)
(*                                                                         *)
(* Config objects are numbered by their session; a script stands for the   *)
(* script together with the tag node it is called for.                     *)
(***************************************************************************)
EXTENDS Naturals, Sequences, SequencesExt

CONSTANTS
    Scripts,        \* the configuration scripts of the daemon
    Missing,        \* script names a session may hold that were not loaded
    Registers,      \* [Scripts -> SUBSET Seq(Scripts)]: the dependents a
                    \* script may register, in order, while it reads its part
                    \* of the configuration
    Callers,        \* scripts that import call_dependents
    Guarded,        \* callers that call it only if they registered something
    Ignorers,       \* callers that ignore a ConfigError of call_dependents
    MaxCommits,     \* bound: sessions in a behaviour
    MaxCalls        \* bound: calls in a session

ASSUME ScriptsAssumption ==
    /\ Missing \cap Scripts = {}
    /\ \A s \in Scripts : Registers[s] \subseteq Seq(Scripts) /\ <<>> \in Registers[s]
    /\ \A s \in Scripts \ Callers : Registers[s] = {<<>>}
    /\ Guarded \subseteq Callers /\ Ignorers \subseteq Callers
    /\ MaxCommits \in Nat /\ MaxCalls \in Nat

Gens == 1..MaxCommits

\* The calls of a session: scripts of the nodes that changed.
CallSeqs == UNION {[1..n -> Scripts \cup Missing] : n \in 1..MaxCalls}
Sessions == {q \in CallSeqs : \A i, j \in DOMAIN q : q[i] = q[j] => i = j}

VARIABLES
    gen,        \* the current session, 0 before the first one
    phase,      \* "idle", "next" (between two calls), "run", "frr"
    dry,        \* dry_run of each Config object
    calls,      \* the calls of the current session
    replies,    \* their replies so far
    commit,     \* commit_scripts of each Config object
    called,     \* scripts_called of each Config object
    list,       \* dependency_list of each Config object; list[0] is the list
                \* that vyos.configdep is loaded with
    bound,      \* whose list the variable of vyos.configdep is
    stack,      \* the running scripts, the innermost one last
    owed,       \* history: registered in this session, not applied since
    current,    \* history: registered since the current call began
    flaw,       \* history: "none", or the first error in this session: one
                \* that failed a call ("failed") or was ignored ("ignored")
    tainted,    \* history: sessions with a flaw before this one
    ignored,    \* history: <<ignoring script, failed dependent>> pairs
    rendered    \* history: the session whose Config FRR was rendered from last

vars == <<gen, phase, dry, calls, replies, commit, called, list, bound, stack,
          owed, current, flaw, tainted, ignored, rendered>>

sessionVars == <<gen, dry, calls, commit, tainted>>

\* A running script: deps is what it still has to register, reg whether it has
\* registered anything, l the list that its call_dependents works off.
Frame == [script: Scripts, cfg: Gens, at: {"get_config", "apply", "call_dependents"},
          deps: Seq(Scripts), reg: BOOLEAN, l: 0..MaxCommits]

\* What a script registers is settled by the configuration it is started with.
NewFrames(s, g) ==
    {[script |-> s, cfg |-> g, at |-> "get_config", deps |-> d, reg |-> FALSE, l |-> 0] :
        d \in Registers[s]}

Init ==
    /\ gen = 0 /\ phase = "idle"
    /\ dry = [g \in Gens |-> FALSE]
    /\ calls = <<>> /\ replies = <<>>
    /\ commit = [g \in Gens |-> {}]
    /\ called = [g \in Gens |-> {}]
    /\ list = [g \in 0..MaxCommits |-> <<>>]
    /\ bound = 0
    /\ stack = <<>>
    /\ owed = {} /\ current = {}
    /\ flaw = "none" /\ tainted = {} /\ ignored = {}
    /\ rendered = 0

-----------------------------------------------------------------------------
\* read_message and initialization: a Config object for the new session.
BeginSession(q, d) ==
    /\ phase = "idle" /\ gen < MaxCommits
    /\ gen' = gen + 1
    /\ phase' = "next"
    /\ dry' = [dry EXCEPT ![gen + 1] = d]
    /\ calls' = q
    /\ replies' = <<>>
    /\ commit' = [commit EXCEPT ![gen + 1] = ToSet(q)]
    /\ tainted' = IF flaw = "none" THEN tainted ELSE tainted \cup {gen}
    /\ owed' = {} /\ current' = {} /\ flaw' = "none" /\ ignored' = {}
    /\ UNCHANGED <<called, list, bound, stack, rendered>>

Call == calls[Len(replies) + 1]
LastCall == Len(replies) + 1 = Len(calls)

\* process_call_data for a script that the daemon did not load.
UnknownScript ==
    /\ phase = "next" /\ Len(replies) < Len(calls)
    /\ Call \notin Scripts
    /\ replies' = Append(replies, "fail")
    /\ flaw' = "failed"
    /\ UNCHANGED <<sessionVars, phase, called, list, bound, stack, owed, current,
                   ignored, rendered>>

\* Mutant: process_call_data without dependency_list.clear().
BeginCallUncleared ==
    /\ phase = "next" /\ Len(replies) < Len(calls)
    /\ Call \in Scripts
    /\ called' = [called EXCEPT ![gen] = @ \cup {Call}]
    /\ \E f \in NewFrames(Call, gen) : stack' = <<f>>
    /\ phase' = "run"
    /\ current' = {}
    /\ UNCHANGED <<sessionVars, replies, list, bound, owed, flaw, ignored, rendered>>

\* process_call_data up to run_script.
BeginCall ==
    /\ phase = "next" /\ Len(replies) < Len(calls)
    /\ Call \in Scripts
    /\ list' = [list EXCEPT ![gen] = <<>>]
    /\ called' = [called EXCEPT ![gen] = @ \cup {Call}]
    /\ \E f \in NewFrames(Call, gen) : stack' = <<f>>
    /\ phase' = "run"
    /\ current' = {}
    /\ UNCHANGED <<sessionVars, replies, bound, owed, flaw, ignored, rendered>>

\* The end of process_session_data: the reply is written.
EndSession ==
    /\ phase = "next" /\ Len(replies) = Len(calls)
    /\ phase' = "idle"
    /\ UNCHANGED <<sessionVars, replies, called, list, bound, stack, owed, current,
                   flaw, ignored, rendered>>

-----------------------------------------------------------------------------
Top == stack[Len(stack)]
At(p) == phase = "run" /\ Top.at = p
SetTop(f) == [stack EXCEPT ![Len(stack)] = f]

\* Mutant: append_uniq without remove_redundant.
AppendOnly(l, e) == Append(l, e)

\* append_uniq: the name that is in the list already moves to its end.
AppendUniq(l, e) ==
    Append(IF e \in ToSet(l) THEN RemoveAt(l, CHOOSE i \in DOMAIN l : l[i] = e) ELSE l, e)

\* set_dependents, which get_config calls, for one target.
SetDependents ==
    /\ At("get_config") /\ Top.deps # <<>>
    /\ LET e == Head(Top.deps) IN
       /\ list' = [list EXCEPT ![Top.cfg] = AppendUniq(@, e)]
       /\ owed' = IF Top.cfg = gen THEN owed \cup {e} ELSE owed
       /\ current' = IF Top.cfg = gen THEN current \cup {e} ELSE current
    /\ stack' = SetTop([Top EXCEPT !.deps = Tail(@), !.reg = TRUE])
    /\ bound' = Top.cfg
    /\ UNCHANGED <<sessionVars, phase, replies, called, flaw, ignored, rendered>>

\* get_config returns, and verify.
Verify ==
    /\ At("get_config") /\ Top.deps = <<>>
    /\ stack' = SetTop([Top EXCEPT !.at = "apply"])
    /\ UNCHANGED <<sessionVars, phase, replies, called, list, bound, owed, current,
                   flaw, ignored, rendered>>

\* The innermost script returns: to the call_dependents that ran it or, when
\* it is the script of the call, to process_call_data.
ReplyOk ==
    IF LastCall THEN phase' = "frr" /\ replies' = replies
                ELSE phase' = "next" /\ replies' = Append(replies, "ok")

Return ==
    /\ stack' = Front(stack)
    /\ IF Len(stack) = 1 THEN ReplyOk ELSE UNCHANGED <<phase, replies>>

CallsDependents(f) ==
    /\ f.script \in Callers
    /\ dry[f.cfg] \/ f.script \notin Guarded \/ f.reg

\* generate and apply, which a dry run leaves out.
Apply ==
    /\ At("apply")
    /\ owed' = IF dry[Top.cfg] \/ Top.cfg # gen THEN owed ELSE owed \ {Top.script}
    /\ IF CallsDependents(Top)
       THEN /\ stack' = SetTop([Top EXCEPT !.at = "call_dependents", !.l = bound])
            /\ UNCHANGED <<phase, replies>>
       ELSE Return
    /\ UNCHANGED <<sessionVars, called, list, bound, current, flaw, ignored, rendered>>

\* Mutant: scripts_called is not consulted.
DeferredWhenCalled(t, g) == t \in commit[g]

\* Mutant: every target is run at once.
DeferredNever(t, g) == FALSE

\* run_conditionally: the target has its own call later in the session.
Deferred(t, g) == t \in commit[g] /\ t \notin called[g]

\* Mutants of call_dependents: a deferred target goes back to the list; the
\* loop stops before the last element.
RequeueDependent ==
    /\ At("call_dependents") /\ list[Top.l] # <<>>
    /\ LET t == Head(list[Top.l]) IN
       IF Deferred(t, Top.l)
       THEN /\ list' = [list EXCEPT ![Top.l] = Append(Tail(@), t)]
            /\ stack' = stack
       ELSE /\ list' = [list EXCEPT ![Top.l] = Tail(@)]
            /\ \E f \in NewFrames(t, Top.l) : stack' = Append(stack, f)
    /\ UNCHANGED <<sessionVars, phase, replies, called, bound, owed, current, flaw,
                   ignored, rendered>>

DependentsDoneEarly ==
    /\ At("call_dependents") /\ Len(list[Top.l]) <= 1
    /\ Return
    /\ UNCHANGED <<sessionVars, called, list, bound, owed, current, flaw, ignored,
                   rendered>>

\* One pass of the loop of call_dependents.
CallDependent ==
    /\ At("call_dependents") /\ list[Top.l] # <<>>
    /\ LET t == Head(list[Top.l]) IN
       IF Deferred(t, Top.l) THEN stack' = stack
       ELSE \E f \in NewFrames(t, Top.l) : stack' = Append(stack, f)
    /\ list' = [list EXCEPT ![Top.l] = Tail(@)]
    /\ UNCHANGED <<sessionVars, phase, replies, called, bound, owed, current, flaw,
                   ignored, rendered>>

DependentsDone ==
    /\ At("call_dependents") /\ list[Top.l] = <<>>
    /\ Return
    /\ UNCHANGED <<sessionVars, called, list, bound, owed, current, flaw, ignored,
                   rendered>>

\* The running scripts that would catch a ConfigError of the innermost one:
\* their apply encloses call_dependents in a try; a dry run does not enter it.
Catchers ==
    {i \in 1..(Len(stack) - 1) : stack[i].script \in Ignorers /\ ~dry[stack[i].cfg]}

\* A script raises in get_config (before, between or after its set_dependents
\* calls), in verify, generate or apply, or in what follows call_dependents in
\* its apply; a dry run leaves the last three out.
MayRaise ==
    /\ phase = "run"
    /\ dry[Top.cfg] => Top.at = "get_config"
    /\ Top.at = "call_dependents" => list[Top.l] = <<>>

\* A ConfigError ends every script up to the nearest one that ignores it,
\* which then returns.
Caught ==
    /\ MayRaise
    /\ \E i \in Catchers :
       /\ \A k \in Catchers : k <= i
       /\ stack' = SubSeq(stack, 1, i - 1)
       /\ IF i = 1 THEN ReplyOk ELSE UNCHANGED <<phase, replies>>
       /\ ignored' = ignored \cup {<<stack[i].script, stack[i + 1].script>>}
    /\ flaw' = IF flaw = "none" THEN "ignored" ELSE flaw
    /\ UNCHANGED <<sessionVars, called, list, bound, owed, current, rendered>>

\* Any other exception, or a ConfigError nobody ignores, fails the call.
Raised ==
    /\ MayRaise
    /\ stack' = <<>>
    /\ phase' = "next"
    /\ replies' = Append(replies, "fail")
    /\ flaw' = "failed"
    /\ UNCHANGED <<sessionVars, called, list, bound, owed, current, ignored, rendered>>

\* Mutant: the result of call_frr_render is not returned.
FrrRenderUnchecked(ok) ==
    /\ phase = "frr"
    /\ phase' = "next"
    /\ replies' = Append(replies, "ok")
    /\ rendered' = IF ok THEN gen ELSE rendered
    /\ UNCHANGED <<sessionVars, called, list, bound, stack, owed, current, flaw, ignored>>

\* call_frr_render after the last call, if that call succeeded.
FrrRender(ok) ==
    /\ phase = "frr"
    /\ phase' = "next"
    /\ replies' = Append(replies, IF ok THEN "ok" ELSE "fail")
    /\ rendered' = IF ok THEN gen ELSE rendered
    /\ flaw' = IF ok THEN flaw ELSE "failed"
    /\ UNCHANGED <<sessionVars, called, list, bound, stack, owed, current, ignored>>

Step ==
    \/ UnknownScript \/ BeginCall \/ EndSession
    \/ SetDependents \/ Verify \/ Apply \/ CallDependent \/ DependentsDone
    \/ Caught \/ Raised
    \/ \E ok \in BOOLEAN : FrrRender(ok)

\* The bound on the number of sessions is reached.
Exhausted == phase = "idle" /\ gen = MaxCommits /\ UNCHANGED vars

Next ==
    \/ \E q \in Sessions, d \in BOOLEAN : BeginSession(q, d)
    \/ Step
    \/ Exhausted

\* The daemon works off a session in one thread.
Spec == Init /\ [][Next]_vars /\ WF_vars(Step)

-----------------------------------------------------------------------------
\* The types of the state of vyos-commitd and vyos.configdep; a pending list
\* names each script once, as append_uniq promises.
TypeOK ==
    /\ gen \in 0..MaxCommits
    /\ phase \in {"idle", "next", "run", "frr"}
    /\ dry \in [Gens -> BOOLEAN]
    /\ calls \in Sessions \cup {<<>>}
    /\ Len(replies) <= Len(calls) /\ ToSet(replies) \subseteq {"ok", "fail"}
    /\ \A g \in Gens : commit[g] \subseteq Scripts \cup Missing /\ called[g] \subseteq Scripts
    /\ \A g \in 0..MaxCommits : IsInjective(list[g]) /\ ToSet(list[g]) \subseteq Scripts
    /\ bound \in 0..MaxCommits
    /\ stack \in Seq(Frame) /\ (stack # <<>> <=> phase = "run")
    /\ owed \subseteq Scripts /\ current \subseteq Scripts
    /\ flaw \in {"none", "failed", "ignored"}
    /\ rendered \in 0..MaxCommits

AllOk == phase = "idle" /\ ToSet(replies) \subseteq {"ok"}

\* A commit whose calls all succeeded, with no error ignored, has applied every
\* script that was registered as a dependent since it was registered: run at
\* once by call_dependents, or deferred to its own call and run there.
Settled ==
    AllOk /\ gen > 0 /\ flaw = "none" /\ ~dry[gen] => owed = {}

\* The dependents that a failed call left behind are never run by a later call
\* of the session: the list holds what this call registered.
CallIsolated == phase = "run" => ToSet(list[gen]) \subseteq current

\* A script runs with the Config object of the current session, unless an
\* earlier session failed or ignored an error.
OwnConfig ==
    tainted = {} => \A i \in DOMAIN stack : stack[i].cfg = gen

\* A commit that reports success for all its calls has had FRR rendered from
\* its own Config object.
FrrFollows == AllOk /\ gen > 0 => rendered = gen

\* Every session gets its reply: dependents do not run each other for ever.
SessionEnds == phase # "idle" ~> phase = "idle"

\* The calls that have begun.
Begun == Len(replies) + (IF phase \in {"run", "frr"} THEN 1 ELSE 0)

\* A script is pending in the list of the session, or has its call to come.
Pending(s) == s \in ToSet(list[gen])
ToCome(s) == \E k \in DOMAIN calls : k > Begun /\ calls[k] = s

\* Until its first error a session is a set of scripts to run.
work == IF flaw = "none" THEN {s \in Scripts \cup Missing : Pending(s) \/ ToCome(s)} ELSE {}

\* Of the scripts in progress the innermost may be between its get_config and
\* the end of its apply; it is the session's if it runs with its Config.
active ==
    IF flaw = "none" /\ phase = "run" /\ Top.cfg = gen /\ Top.at # "call_dependents"
    THEN {Top.script} ELSE {}

Work == INSTANCE CommitWork
            WITH Scripts <- Scripts \cup Missing, session <- gen, open <- phase # "idle",
                 sound <- flaw = "none"

\* A dependent is registered, deferred by run_conditionally or run inside
\* another script, but each is run once for each time it was asked for, before
\* FRR is rendered and the session ends, unless a call failed.
RefinesWork == Work!Spec

\* A dependent never runs before its own call, when it has one in the session
\* (the comment of test_configdep_prio_queue in test_config_dependency.py).
DeferredToPriority ==
    \A i \in DOMAIN stack :
        i > 1 /\ stack[i].script \in commit[gen] => stack[i].script \in called[gen]

\* The errors that a script ignores are those of the dependents it registers,
\* "due to being called too early" (the comment in system_conntrack.py and
\* vpn_ipsec.py).
IgnoresOwnDependents ==
    \A p \in ignored : \E deps \in Registers[p[1]] : p[2] \in ToSet(deps)
=============================================================================
