---------------------- MODULE CaseLifecycleProperties ----------------------
(* What the cases of an actor, their context and their scores must satisfy.*)
EXTENDS CaseLifecycle

(* Types of the variables; the threshold keeps its clamp (apply_feedback). *)
TypeOK ==
  /\ ingested \subseteq Events
  /\ approval \in [Entries -> Approval]
  /\ base \in [Entries -> Entries \cup {NoEntry}]
  /\ Cases \subseteq CaseIds
  /\ \A c \in Cases : Evidence(c) \subseteq ingested /\ case[c] \in CaseRow(Evidence(c))
  /\ regime \in {"nominal", "latched"}
  /\ threshold \in 20..180
  /\ now \in Instants
  /\ DOMAIN txn = Sessions
  /\ feedbacks \in 0..MaxFeedback /\ crashes \in 0..MaxCrashes

(* What a case grants its events is what the approved context grants them  *)
(* now, whatever was approved, revised, ingested, reopened or lost in a    *)
(* crash since its assessment: "Approval atomically ... reassesses         *)
(* affected cases" (API_CONTRACT.md).                                      *)
CreditIsCurrent ==
  \A c \in Cases : \A e \in Evidence(c) :
    LET event == EventOf[e]
    IN  case[c].credit[e] = IF event.resource # None /\ event.class = None THEN 0
                            ELSE BestScore(event, Rows(Approved(approval)))

(* The matched entries of a case that are still in force are the ones that *)
(* explain some of it: check_auto_reopen rests on them.                    *)
MatchedIsCurrent ==
  \A c \in Cases :
    {n \in Approved(approval) : \E e \in Evidence(c) :
       case[c].credit[e] > 0 /\ Score(EventOf[e], EntryOf[n]) > 0}
      = case[c].matched \cap Approved(approval)

(* No residual exceeds its raw risk, of an event or of a case, although    *)
(* the critical floor is added after the context; and no context takes a   *)
(* critical event below the floor ("critical floors survive full           *)
(* coverage"; fuse_event_residuals, event_category_risk).  Without context *)
(* the counterfactual is the raw path (get_counterfactual).                *)
RiskWithinBounds ==
  \A c \in Cases :
    LET raw      == RawOf(case[c])
        residual == ResidualOf(case[c])
    IN  /\ \A e \in Evidence(c) : residual[e] <= raw[e]
        /\ Complement(raw) <= Complement(residual)
        /\ ResidualOf(WithoutContext(case[c])) = raw
        /\ Covered(case[c]) <= Total(case[c])
        /\ (\E e \in Evidence(c) : CriticalReasons(EventOf[e]) # {}) => AtLeast(residual, 5)

(* Of the revisions of an entry one at most is ever in force, and then the *)
(* entry itself no longer is (review_context).                             *)
LinearRevisions ==
  \A m, n \in Entries :
    approval[n] \in {"approved", "superseded"} /\ base[n] # NoEntry =>
      /\ approval[base[n]] = "superseded"
      /\ approval[m] \in {"approved", "superseded"} /\ base[m] = base[n] => m = n

(* A larger alert budget hides no case, and no budget hides a live case    *)
(* with an unexplained event on a critical resource (rank_cases).          *)
BudgetOnlyAdds ==
  \A n \in 1..Cardinality(CaseIds) :
    /\ {c \in Live : HardRule(c)} \subseteq Ranked(n)
    /\ Ranked(n) \subseteq Ranked(n + 1)
    /\ Cardinality({c \in Ranked(n) : ~HardRule(c)}) <= n
    /\ Cardinality(Live) >= n => Cardinality(Ranked(n)) >= n

(* The latch that silences detection has a case to show for it, or an      *)
(* ingest on its way to one, or a crash lost it (detect_and_build_cases    *)
(* commits the latch first).                                               *)
LatchHasCase ==
  regime = "latched" => Cases # {} \/ crashes > 0 \/ \E p \in Sessions : txn[p].phase = "build"

(* Approving context that supersedes nothing never counts against an       *)
(* actor: no event loses credit, and no case is given a higher risk than   *)
(* the same assessment would give it with the credits it had before.  An   *)
(* approval assesses a case anew, and what histories say by then may raise *)
(* its risk; the context does not (classify_event, fuse_event_residuals).  *)
ContextNeverRaisesRisk ==
  [][\A n \in Entries :
       approval[n] = "pending" /\ approval'[n] = "approved" /\ base[n] = NoEntry =>
         \A c \in Cases :
           LET with    == ResidualOf(case'[c])
               without == ResidualOf([case'[c] EXCEPT !.credit = case[c].credit])
           IN  /\ DOMAIN with = Evidence(c) /\ DOMAIN without = Evidence(c)
               /\ \A e \in Evidence(c) : /\ case[c].credit[e] <= case'[c].credit[e]
                                          /\ with[e] <= without[e]
               /\ Complement(without) <= Complement(with)]_vars

(* Context is never credited after the fact unseen: no transaction gives   *)
(* an event of a case that is already past more credit, and the case a     *)
(* quarter more coverage, without flagging the case; and a flag stays      *)
(* ("retroactive_justification_review=true preserves the review            *)
(* requirement", API_CONTRACT.md).  Coverage that rises because the        *)
(* weights were computed anew is not context and asks for no flag.         *)
RetroactiveIsFlagged ==
  [][\A c \in Cases :
       /\ case[c].flagged => case'[c].flagged
       /\ /\ \E e \in Evidence(c) \cap DOMAIN case'[c].credit :
               Time(e) < now /\ case[c].credit[e] < case'[c].credit[e]
          /\ CoverageRises(case[c], case'[c])
          => case'[c].flagged]_vars
=============================================================================
