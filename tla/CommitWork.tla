----------------------------- MODULE CommitWork -----------------------------
(***************************************************************************)
(* What a commit may expect of the daemon that runs its scripts: a set of  *)
(* scripts that are still to run, which running scripts add to, worked off *)
(* one at a time, and FRR rendered after the last of them.  Neither that   *)
(* dependents run inside the script that registered them nor that some of  *)
(* them wait for their own call is visible here.  An error voids the rest  *)
(* of the commit, but nothing of the next one.                             *)
(***************************************************************************)
EXTENDS Naturals

CONSTANT Scripts

VARIABLES
    session,    \* the number of the commit, 0 before the first one
    open,       \* it is in progress
    sound,      \* it had no error so far
    work,       \* the scripts still to run
    active,     \* the script that runs, if any
    rendered    \* the commit that FRR was rendered for last

work_vars == <<session, open, sound, work, active, rendered>>

Init ==
    /\ session = 0 /\ open = FALSE /\ sound = TRUE
    /\ work = {} /\ active = {} /\ rendered = 0

Begin(S) ==
    /\ ~open
    /\ session' = session + 1 /\ open' = TRUE /\ sound' = TRUE
    /\ work' = S /\ active' = {}
    /\ UNCHANGED rendered

Start(s) ==
    /\ open /\ sound /\ active = {} /\ s \in work
    /\ active' = {s}
    /\ work' = work \ {s}
    /\ UNCHANGED <<session, open, sound, rendered>>

\* The running script registers a dependent.
Register(s) ==
    /\ active # {}
    /\ work' = work \cup {s}
    /\ UNCHANGED <<session, open, sound, active, rendered>>

Done ==
    /\ active # {} /\ active' = {}
    /\ UNCHANGED <<session, open, sound, work, rendered>>

Fail ==
    /\ open /\ sound' = FALSE
    /\ work' = {} /\ active' = {}
    /\ UNCHANGED <<session, open, rendered>>

Idle == work = {} /\ active = {}

Render ==
    /\ open /\ (sound => Idle)
    /\ rendered' = session
    /\ UNCHANGED <<session, open, sound, work, active>>

Finish ==
    /\ open /\ (sound => Idle /\ rendered = session)
    /\ open' = FALSE
    /\ UNCHANGED <<session, sound, work, active, rendered>>

Next ==
    \/ \E S \in SUBSET Scripts : Begin(S)
    \/ \E s \in Scripts : Start(s) \/ Register(s)
    \/ Done \/ Fail \/ Render \/ Finish

Spec == Init /\ [][Next]_work_vars

=============================================================================
