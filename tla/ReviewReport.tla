---------------------------- MODULE ReviewReport ----------------------------
(***************************************************************************)
(* The report of a reviewer, as `complete --role reviewer' and             *)
(* `record-consistency' take it: the command line checks it               *)
(* (check_review_report in main.rs), and the store checks it again together*)
(* with what it is a report on (validate_review_report_value in store.rs). *)
(*                                                                         *)
(* A field of the wrong type, or missing, is NotThere.                     *)
(***************************************************************************)
EXTENDS Wording, Integers, SequencesExt

\* pass_score of the policy: Store::validate rejects any other.
PassScore == 10

Criteria == {"coverage", "naturalness", "consistency", "context", "safety"}
Severities == {"blocker", "major", "minor", "nit"}
Lists == {"untranslated", "glossary_violations", "test_impact"}

Total(criteria) ==
  criteria["coverage"] + criteria["naturalness"] + criteria["consistency"]
    + criteria["context"] + criteria["safety"]

\* Of a finding: whether its five texts are there, its line (0 if it has none)
\* and its severity.
WellFormed(finding) ==
  finding.told /\ finding.line > 0 /\ finding.severity \in Severities

Blocks(findings) == \E i \in DOMAIN findings : findings[i].severity \in {"blocker", "major"}

\* Bug: the limit of a blocking finding is one point too high.
FindingsNearlyFit(report, score) ==
  /\ score = 10 => report.findings = <<>>
  /\ score < 10 => report.findings # <<>>
  /\ \A i \in DOMAIN report.findings : WellFormed(report.findings[i])
  /\ Blocks(report.findings) => score <= 8
FindingsFit(report, score) ==
  /\ score = 10 => report.findings = <<>>
  /\ score < 10 => report.findings # <<>>
  /\ \A i \in DOMAIN report.findings : WellFormed(report.findings[i])
  /\ Blocks(report.findings) => score <= 7

CriteriaFit(report, score) ==
  /\ report.criteria # NotThere /\ DOMAIN report.criteria = Criteria
  /\ \A c \in Criteria : report.criteria[c] \in 0..2
  /\ Total(report.criteria) = score

ListsFit(report, score) ==
  /\ \A l \in Lists : report[l] # NotThere
  /\ score = 10 => report.untranslated = "empty" /\ report.glossary_violations = "empty"

\* check_review_report: the command line knows neither unit nor round.
CheckReviewReport(report, score) ==
  /\ report.score = score
  /\ report.findings # NotThere
  /\ FindingsFit(report, score)
  /\ CriteriaFit(report, score)
  /\ ListsFit(report, score)

\* Both kinds of report name what they are on and the round that is due.
Addressed(report, target, round) ==
  report[target.kind] = target.id /\ report.round = round

\* validate_review_report_value, for a target [kind |-> "unit" or "category", id |-> ...]
ValidateReviewReport(report, score, target, round) ==
  /\ report.score = score
  /\ report.findings # NotThere
  /\ FindingsFit(report, score)
  /\ ~(report.findings # <<>> /\ score = 10)
  /\ CriteriaFit(report, score)
  /\ ListsFit(report, score)
  /\ Addressed(report, target, round)

\* The verdict of a report that is accepted.
Passed(score) == score = PassScore
=============================================================================
