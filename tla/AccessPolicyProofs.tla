-------------------------- MODULE AccessPolicyProofs --------------------------
(***************************************************************************)
(* Proofs about the access policy: for every profile, every evidence and   *)
(* every combination of risks.                                             *)
(***************************************************************************)
EXTENDS AccessPolicyProperties, TLAPS

(* What the policy is given is well-typed whatever happens to the request. *)
LEMMA InputsTyped == Spec => []TypeOK
<1>1. Init => TypeOK
  BY CasesAssumption DEF Init, TypeOK, PolicyInput
<1>2. TypeOK /\ [Next]_in => TypeOK'
  BY CasesAssumption
  DEF TypeOK, PolicyInput, Next, Attach, RiskStarts, RiskEnds, EvaluatorChanges
<1>3. QED
  BY <1>1, <1>2, PTL DEF Spec

(* The durations that may be asked for can be compared.                    *)
LEMMA DurationsAreIntegers == Duration \subseteq Int
<1>1. MinDuration \in Int /\ MaxDuration \in Int
  BY DEF MinDuration, MaxDuration
<1>2. QED
  BY <1>1 DEF Duration

(* Asking the policy about another profile changes only the profile.       *)
LEMMA OnlyProfileDiffers ==
  ASSUME TypeOK, NEW p \in RequestProfile
  PROVE  /\ With(p).profile = p
         /\ With(p).evidence = in.evidence
         /\ With(p).risks = in.risks
         /\ With(p).isAdmin = in.isAdmin
BY DEF With, TypeOK, PolicyInput

(* Declaring another sensitivity changes nothing else of what is asked.    *)
LEMMA OnlySensitivityDiffers ==
  ASSUME TypeOK, NEW s \in Sensitivity
  PROVE  /\ in.profile \in RequestProfile
         /\ AskingFor(s) \in RequestProfile
         /\ AskingFor(s).sensitivity = s
         /\ AskingFor(s).device = in.profile.device
         /\ AskingFor(s).location = in.profile.location
         /\ AskingFor(s).authentication = in.profile.authentication
         /\ AskingFor(s).breakGlass = in.profile.breakGlass
         /\ AskingFor(s).justified = in.profile.justified
         /\ AskingFor(s).duration = in.profile.duration
<1>1. in.profile \in RequestProfile
  BY DEF TypeOK, PolicyInput
<1>2. QED
  BY <1>1 DEF AskingFor, RequestProfile

(* No evidence, risk or profile makes a resource easier to get at, open    *)
(* longer or approved by fewer when it is declared more sensitive.         *)
THEOREM SensitivityTightens == Spec => []SensitivityOnlyTightens
<1>1. ASSUME TypeOK, NEW low \in Sensitivity, NEW high \in Sensitivity,
             Level[low] <= Level[high]
      PROVE  /\ Eligible(With(AskingFor(high))) => Eligible(With(AskingFor(low)))
             /\ MaximumDuration(AskingFor(high)) <= MaximumDuration(AskingFor(low))
             /\ RequiredRoles(AskingFor(low)) \subseteq RequiredRoles(AskingFor(high))
  <2> DEFINE l == AskingFor(low)
             h == AskingFor(high)
  <2>1. \/ low = high
        \/ low = "public" /\ high # "public"
        \/ low = "internal" /\ high \in {"restricted", "critical"}
        \/ low = "restricted" /\ high = "critical"
    BY <1>1 DEF Level, Sensitivity
  <2>2. /\ l \in RequestProfile /\ h \in RequestProfile
        /\ l.sensitivity = low /\ h.sensitivity = high
        /\ l.device = h.device /\ l.location = h.location
        /\ l.authentication = h.authentication /\ l.breakGlass = h.breakGlass
        /\ l.justified = h.justified /\ l.duration = h.duration
    BY <1>1, OnlySensitivityDiffers
  <2>3. /\ With(l).profile = l /\ With(h).profile = h
        /\ With(l).evidence = With(h).evidence /\ With(l).risks = With(h).risks
        /\ With(l).isAdmin = With(h).isAdmin
    BY <1>1, <2>2, OnlyProfileDiffers
  <2> HIDE DEF l, h
  <2>4. Blocking(With(h)) = {} => Blocking(With(l)) = {}
    BY <2>1, <2>2, <2>3 DEF Blocking, When
  <2>5. Missing(With(h)) = {} => Missing(With(l)) = {}
    BY <2>1, <2>2, <2>3 DEF Missing, When, ScopedTypes
  <2>6. MaximumDuration(h) <= MaximumDuration(l)
    <3>1. l.duration \in Int
      BY <2>2, DurationsAreIntegers DEF RequestProfile
    <3>2. SensitivityTTL[high] <= SensitivityTTL[low]
      BY <1>1, <2>1 DEF SensitivityTTL, Sensitivity
    <3>3. SensitivityTTL[high] \in Nat /\ SensitivityTTL[low] \in Nat
      BY <1>1 DEF SensitivityTTL, Sensitivity
    <3>4. ASSUME NEW d \in Int, NEW c \in Int, NEW e \in Int, c <= e
          PROVE  (IF d < c THEN d ELSE c) <= (IF d < e THEN d ELSE e)
      BY <3>4
    <3>5. CASE l.breakGlass
      <4>1. MaximumDuration(h) = MaximumDuration(l)
        BY <2>2, <3>5 DEF MaximumDuration
      <4>2. MaximumDuration(l) \in Int
        BY <3>1, <3>5 DEF MaximumDuration
      <4>3. QED
        BY <4>1, <4>2
    <3>6. CASE ~l.breakGlass
      <4>1. /\ MaximumDuration(h) =
                 IF l.duration < SensitivityTTL[high] THEN l.duration ELSE SensitivityTTL[high]
            /\ MaximumDuration(l) =
                 IF l.duration < SensitivityTTL[low] THEN l.duration ELSE SensitivityTTL[low]
        BY <2>2, <3>6 DEF MaximumDuration
      <4>2. QED
        BY <3>1, <3>2, <3>3, <3>4, <4>1
    <3>7. QED
      BY <3>5, <3>6
  <2>7. RequiredRoles(l) \subseteq RequiredRoles(h)
    BY <2>1, <2>2 DEF RequiredRoles
  <2>8. QED
    BY <2>4, <2>5, <2>6, <2>7 DEF Eligible, l, h
<1>2. TypeOK => SensitivityOnlyTightens
  BY <1>1 DEF SensitivityOnlyTightens
<1>3. QED
  BY <1>2, InputsTyped, PTL

(* Breaking the glass never turns a refusal into an approval.              *)
THEOREM BreakGlassIsNoBypass == Spec => []BreakGlassWaivesNoCheck
<1>1. TypeOK => BreakGlassWaivesNoCheck
  <2> SUFFICES ASSUME TypeOK PROVE BreakGlassWaivesNoCheck
    OBVIOUS
  <2> DEFINE b == GlassBroken
             i == GlassIntact
  <2>1. in.profile \in RequestProfile
    BY DEF TypeOK, PolicyInput
  <2>2. /\ b \in RequestProfile /\ i \in RequestProfile
        /\ b.breakGlass /\ ~i.breakGlass
        /\ b.sensitivity = i.sensitivity /\ b.device = i.device /\ b.location = i.location
        /\ b.authentication = i.authentication /\ b.duration = i.duration
    BY <2>1 DEF GlassBroken, GlassIntact, RequestProfile
  <2>3. /\ With(b).profile = b /\ With(i).profile = i
        /\ With(b).evidence = With(i).evidence /\ With(b).risks = With(i).risks
        /\ With(b).isAdmin = With(i).isAdmin
    BY <2>2, OnlyProfileDiffers
  <2> HIDE DEF b, i
  <2>4. Blocking(With(b)) = {} => Blocking(With(i)) = {}
    BY <2>2, <2>3 DEF Blocking, When
  <2>5. Missing(With(b)) = Missing(With(i))
    BY <2>2, <2>3 DEF Missing
  <2>6. MaximumDuration(b) <= MaximumDuration(i)
    <3>1. b.duration \in Int /\ b.sensitivity \in Sensitivity
      BY <2>2, DurationsAreIntegers DEF RequestProfile
    <3>2. SensitivityTTL[b.sensitivity] \in Nat /\ 900 <= SensitivityTTL[b.sensitivity]
      BY <3>1 DEF SensitivityTTL, Sensitivity
    <3>3. /\ MaximumDuration(b) = IF b.duration < 900 THEN b.duration ELSE 900
          /\ MaximumDuration(i) = IF b.duration < SensitivityTTL[b.sensitivity]
                                  THEN b.duration ELSE SensitivityTTL[b.sensitivity]
      BY <2>2 DEF MaximumDuration
    <3>4. QED
      BY <3>1, <3>2, <3>3
  <2>7. QED
    BY <2>4, <2>5, <2>6 DEF Eligible, BreakGlassWaivesNoCheck, b, i
<1>2. QED
  BY <1>1, InputsTyped, PTL

(* Attaching evidence only removes reasons from what is missing.           *)
THEOREM EvidenceCures == Spec => EvidenceOnlyCures
<1> DEFINE Cures(item) ==
      /\ Missing(in') \subseteq Missing(in)
      /\ Blocking(in') = Blocking(in)
      /\ item.status # "verified" \/ ~item.inScope => Missing(in') = Missing(in)
<1>1. ASSUME TypeOK, NEW item \in Catalog, Attach(item) PROVE Cures(item)
  <2>1. /\ in'.profile = in.profile /\ in'.risks = in.risks /\ in'.isAdmin = in.isAdmin
        /\ in'.evidence = in.evidence \cup {item}
    BY <1>1 DEF TypeOK, PolicyInput, Attach
  <2>2. Blocking(in') = Blocking(in)
    BY <2>1 DEF Blocking
  <2>3. Scoped(in.evidence) \subseteq Scoped(in'.evidence)
    BY <2>1 DEF Scoped
  <2>4. Missing(in') \subseteq Missing(in)
    BY <2>1, <2>3 DEF Missing, When, ScopedTypes
  <2>5. item.status # "verified" \/ ~item.inScope => Scoped(in'.evidence) = Scoped(in.evidence)
    BY <2>1 DEF Scoped
  <2>6. item.status # "verified" \/ ~item.inScope => Missing(in') = Missing(in)
    BY <2>1, <2>5 DEF Missing, ScopedTypes
  <2>7. QED
    BY <2>2, <2>4, <2>6
<1>2. TypeOK => [\A item \in Catalog : Attach(item) => Cures(item)]_in
  BY <1>1
<1>3. QED
  BY <1>2, InputsTyped, PTL DEF EvidenceOnlyCures
=============================================================================
