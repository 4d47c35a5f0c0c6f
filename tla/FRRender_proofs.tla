-------------------------- MODULE FRRender_proofs --------------------------
(***************************************************************************)
(* Proofs about FRRender for every set of dictionaries and gateways and    *)
(* every number of reload attempts.                                        *)
(***************************************************************************)
EXTENDS FRRender, TLAPS

\* A new renderer, with its empty cache, satisfies the inductive invariant.
LEMMA InitInv == Init => Inv
  BY CountMaxAssumption
  DEF Init, Inv, TypeOK, InFlight, Carried, Compared, Confs

\* Every step of a call, of the DHCP client, of FRR and of systemd preserves
\* the inductive invariant.
LEMMA NextInv == Inv /\ [Next]_vars => Inv'
<1> SUFFICES ASSUME Inv, [Next]_vars
             PROVE  Inv'
  OBVIOUS
<1> USE CountMaxAssumption, DictsAssumption, EmptyAssumption
    DEF Inv, TypeOK, InFlight, Carried, Compared, Tracks, Text, Confs, Entries
<1>1. ASSUME NEW d \in Dicts, GenerateUnchanged(d)
      PROVE  Inv'
  BY <1>1 DEF GenerateUnchanged, SameDict, SameGateways
<1>2. ASSUME NEW d \in Dicts, GenerateChanged(d)
      PROVE  Inv'
  BY <1>2 DEF GenerateChanged
<1>3. CASE Render
  BY <1>3 DEF Render, RenderedKeys
<1>4. CASE RenderFail
  BY <1>4 DEF RenderFail, Fail, RenderedKeys
<1>5. CASE TestOk
  BY <1>5 DEF TestOk
<1>6. CASE TestFail
  BY <1>6 DEF TestFail, Fail
<1>7. CASE ReloadOk
  BY <1>7 DEF ReloadOk, Fail
<1>8. CASE ReloadFail
  BY <1>8 DEF ReloadFail, Fail
<1>9. CASE WriteConfig
  BY <1>9 DEF WriteConfig
<1>10. CASE WriteConfigFail
  BY <1>10 DEF WriteConfigFail, Fail
<1>11. CASE LeaseChange
  BY <1>11 DEF LeaseChange
<1>12. CASE FrrRestart
  BY <1>12 DEF FrrRestart
<1>13. CASE DaemonRestart
  BY <1>13 DEF DaemonRestart
<1>14. CASE UNCHANGED vars
  BY <1>14 DEF vars
<1>15. QED
  BY <1>1, <1>2, <1>3, <1>4, <1>5, <1>6, <1>7, <1>8, <1>9, <1>10, <1>11,
     <1>12, <1>13, <1>14 DEF Next, Step

\* The inductive invariant holds in every reachable state of the renderer.
THEOREM Invariance == Spec => []Inv
  BY InitInv, NextInv, PTL DEF Spec

\* Every reachable state of the renderer has the types that TypeOK states:
\* in particular count never passes count_max.
THEOREM Typing == Spec => []TypeOK
<1>1. Inv => TypeOK
  BY DEF Inv
<1>2. QED
  BY <1>1, Invariance, PTL

\* A success of call_frr_render is true: FRR runs and has saved the requested
\* dictionary with the gateway of the moment, if the call that filled the
\* cache of FRRender was itself applied and nothing interfered with it.
THEOREM Truthful == Spec => []SuccessIsApplied
<1>1. Inv => SuccessIsApplied
  BY DEF Inv, Carried, Tracks, SuccessIsApplied
<1>2. QED
  BY <1>1, Invariance, PTL

\* FRR is rendered and reloaded again only if the renderer is new, the dictionary
\* or the gateway differs from the latest call's, or the dictionary has VRF
\* protocols, which the rendering marks in the cached object.
THEOREM ReloadHasCause == Spec => ReloadsForCause
<1>1. ASSUME Inv, [Next]_vars, pc = "idle", pc' = "render", cache # Empty, target' = target
      PROVE  target'.dict \in VrfDicts
  <2>1. PICK d \in Dicts : GenerateChanged(d)
    BY <1>1 DEF Next, Step, GenerateUnchanged, Render, RenderFail, TestOk, TestFail,
       ReloadOk, ReloadFail, WriteConfig, WriteConfigFail, LeaseChange, FrrRestart,
       DaemonRestart, vars
  <2>2. cache.dict = d /\ cache.gw = lease /\ target.dict = d
    BY <1>1, <2>1 DEF GenerateChanged, Inv, Compared, Tracks
  <2>3. cache.keys = "added"
    BY <1>1, <2>1, <2>2, EmptyAssumption
    DEF GenerateChanged, SameDict, SameGateways, Inv, TypeOK, Entries
  <2> QED BY <1>1, <2>2, <2>3 DEF Inv, Compared
<1>2. Inv /\ [Next]_vars =>
        (pc = "idle" /\ pc' = "render" =>
            cache = Empty \/ target' # target \/ target'.dict \in VrfDicts)
  BY <1>1
<1> QED BY <1>2, Invariance, PTL DEF Spec, ReloadsForCause
============================================================================
