----------------------------- MODULE BundleAudit -----------------------------
(* The audit of an archived evaluation: its report and its records          *)
(* (src/src/audit.rs).                                                      *)
(*                                                                          *)
(* A bundle is a file system, the directory of the evaluation in it, and    *)
(* what the two required files hold.  A path is a sequence of names; a node *)
(* of the file system is a directory, a file, or a link to another path.    *)
(* A record field is missing when it is absent, blank, or no string.  The   *)
(* bundle does not change while it is read, so that the cache of probes has *)
(* nothing to remember; no path goes on after a file and no link leads to   *)
(* itself, either of which ends the audit with an error.                    *)
EXTENDS Integers, Sequences, FiniteSets, SequencesExt

RequiredStringFields ==
  {"id", "artifact", "axis", "instrument", "procedure", "evidence", "verdict", "integrity"}

-----------------------------------------------------------------------------
(* The file system, as the code uses it.                                    *)

Missing == [kind |-> "missing"]

NodeAt(tree, path) == IF path \in DOMAIN tree THEN tree[path] ELSE Missing

(* The path without links; the set of no path when there is none.           *)
RECURSIVE Followed(_, _, _)
Followed(tree, path, hops) ==
  LET links == {i \in DOMAIN path : NodeAt(tree, SubSeq(path, 1, i)).kind = "link"}
      first == CHOOSE i \in links : \A j \in links : i <= j
  IN  IF links = {} THEN IF path \in DOMAIN tree THEN {path} ELSE {}
      ELSE IF hops = 0 THEN {}
      ELSE Followed(tree, tree[SubSeq(path, 1, first)].to \o SubSeq(path, first + 1, Len(path)),
                    hops - 1)

Canonicalize(tree, path) == Followed(tree, path, Cardinality(DOMAIN tree))

Metadata(tree, path) ==
  LET at == Canonicalize(tree, path)
  IN  IF at = {} THEN Missing ELSE tree[CHOOSE p \in at : TRUE]

-----------------------------------------------------------------------------
(* Fields.                                                                  *)

(* One identity, or two to compare; a commit has seven hexadecimal digits.  *)
ValidPinnedIdentity(i) == i.name = "plain" /\ i.hex /\ i.digits >= 7

ValidArtifactIdentity(identities) ==
  /\ Len(identities) \in {1, 2}
  /\ \A i \in DOMAIN identities : ValidPinnedIdentity(identities[i])

(* Either a zone or the letter Z ends a timestamp; the day is not compared  *)
(* to its month, and the second may be a leap second.                       *)
PlausibleRfc3339(t) ==
  /\ t.layout
  /\ t.month \in 1..12 /\ t.day \in 1..31
  /\ t.hour <= 23 /\ t.minute <= 59 /\ t.second <= 60
  /\ t.fraction # "empty"
  /\ t.zone = "Z" \/ (t.zone = "offset" /\ t.zoneHour <= 23 /\ t.zoneMinute <= 59)

Has(object, field) == object[field] # "missing"

(* A reference says where it goes, as relative path, and how it is written. *)
Unsafe(reference) == reference.form \in {"empty", "absolute", "parent"}

(* The name alone, before links are followed.                               *)
Escapes_ByName(tree, root, path) == ~IsPrefix(root, path)

(* A target that is not there is judged by the directory it would be in.    *)
Escapes(tree, root, path) ==
  LET at == Canonicalize(tree, path)
  IN  \E c \in IF at # {} THEN at ELSE Canonicalize(tree, Front(path)) : ~IsPrefix(root, c)

Probe(tree, path) ==
  LET node == Metadata(tree, path)
  IN  CASE node.kind = "missing"     -> "Missing"
        [] node.kind = "dir"         -> "NotRegular"
        [] node.content = "empty"    -> "Empty"
        [] node.content = "prompt"   -> "PresentWithPrompt"
        [] OTHER                     -> "Present"

(* What is said of one reference of a record.                               *)
AuditReference(bundle, root, reference) ==
  LET path == bundle.dir \o reference.path
  IN  IF Unsafe(reference) \/ Escapes(bundle.tree, root, path) THEN "unsafe_reference"
      ELSE CASE Probe(bundle.tree, path) \in {"Missing", "NotRegular"} -> "missing"
             [] Probe(bundle.tree, path) = "Empty" -> "empty"
             [] OTHER -> "ok"

-----------------------------------------------------------------------------
(* Records.  Issues are pairs of a code and a line.                         *)

Kinds == {"procedure", "evidence"}

ReferenceIssues(bundle, root, line, object) ==
  LET said == [k \in {f \in Kinds : Has(object, f)} |->
                 AuditReference(bundle, root, bundle.references[object[k]])]
  IN  {<<said[k], k, line>> : k \in {f \in DOMAIN said : said[f] # "ok"}}
        \cup (IF /\ object.instrument = "judged"
                 /\ "procedure" \in DOMAIN said /\ said["procedure"] = "ok"
                 /\ Probe(bundle.tree, bundle.dir \o bundle.references[object.procedure].path)
                      # "PresentWithPrompt"
              THEN {<<"exact_prompt_unproven", "procedure", line>>} ELSE {})

FieldIssues(object, line) ==
  {<<IF f = "id" THEN "missing_record_id" ELSE "invalid_record_field", f, line>> :
     f \in {g \in RequiredStringFields : ~Has(object, g)}}
    \cup (IF ~object.agent THEN {<<"invalid_agent", "agent", line>>} ELSE {})
    \cup (IF ~(object.ts.null \/ PlausibleRfc3339(object.ts))
          THEN {<<"invalid_timestamp", "ts", line>>} ELSE {})
    \cup (IF /\ Has(object, "instrument")
             /\ object.instrument \notin {"mechanical", "empirical", "judged"}
          THEN {<<"invalid_instrument", "instrument", line>>} ELSE {})
    \cup (IF Has(object, "artifact") /\ ~ValidArtifactIdentity(object.identities)
          THEN {<<"invalid_artifact_identity", "artifact", line>>} ELSE {})

(* Ids count whether or not anything else of the record is right.           *)
AuditRecordObject(bundle, root, state, line, object) ==
  [total |-> state.total + 1,
   ids |-> state.ids \cup (IF Has(object, "id") THEN {object.id} ELSE {}),
   instruments |-> state.instruments
                     \o (IF Has(object, "instrument") THEN <<object.instrument>> ELSE <<>>),
   issues |-> state.issues \cup FieldIssues(object, line)
                \cup ReferenceIssues(bundle, root, line, object)
                \cup (IF Has(object, "id") /\ object.id \in state.ids
                      THEN {<<"duplicate_record_id", "id", line>>} ELSE {})]

(* Blank lines are skipped, lines that are no object are an issue each.     *)
AuditRecords(bundle, root) ==
  FoldLeft(LAMBDA state, line :
             LET row == bundle.records[line]
             IN  CASE row.json = "blank"  -> state
                   [] row.json = "object" ->
                        AuditRecordObject(bundle, root, state, line, row.object)
                   [] OTHER -> [state EXCEPT !.issues = @ \cup {<<"invalid_json_record", "", line>>}],
           [total |-> 0, ids |-> {}, instruments |-> <<>>, issues |-> {}],
           [i \in DOMAIN bundle.records |-> i])

(* Punctuation after a reference is no part of it; only the first line that *)
(* has a reference is kept.                                                 *)
ReportReferences(bundle) ==
  LET On(i) == {bundle.report[i][j].id : j \in DOMAIN bundle.report[i]}
  IN  UNION {{<<id, i>> : id \in On(i) \ UNION {On(k) : k \in 1..(i - 1)}} :
               i \in DOMAIN bundle.report}

(* A required file: what the code gets of it and the issue it raises.       *)
RequiredFile(bundle, name) ==
  LET node == Metadata(bundle.tree, Append(bundle.dir, name))
  IN  CASE node.kind = "missing"  -> [read |-> FALSE, issue |-> {"missing_required_file"}]
        [] node.kind = "dir"      -> [read |-> FALSE, issue |-> {"invalid_required_file"}]
        [] node.content = "empty" -> [read |-> TRUE, issue |-> {"empty_required_file"}]
        [] OTHER                  -> [read |-> TRUE, issue |-> {}]

Audited(bundle, report, records, lines, referenced) ==
  LET issues == {<<i, "report.md", 0>> : i \in report.issue}
                  \cup {<<i, "records.jsonl", 0>> : i \in records.issue}
                  \cup lines.issues
                  \cup (IF lines.total = 0 THEN {<<"no_valid_records", "", 0>>} ELSE {})
                  \cup (IF report.read /\ ~bundle.utf8
                        THEN {<<"invalid_report_encoding", "", 0>>} ELSE {})
                  \cup {<<"unknown_report_record", r[1], r[2]>> :
                          r \in {x \in referenced : x[1] \notin lines.ids}}
  IN  [error |-> "ok", issues |-> issues, recordsTotal |-> lines.total,
       instrumentCounts |-> [n \in ToSet(lines.instruments) |->
         Cardinality({i \in DOMAIN lines.instruments : lines.instruments[i] = n})],
       referenced |-> {r[1] : r \in referenced},
       passed |-> lines.total > 0 /\ \A i \in issues : i[1] = "exact_prompt_unproven"]

AuditEvaluationDir(bundle) ==
  LET root == CHOOSE p \in Canonicalize(bundle.tree, bundle.dir) : TRUE
      Lines(records) == IF records.read THEN AuditRecords(bundle, root)
                        ELSE [total |-> 0, ids |-> {}, instruments |-> <<>>, issues |-> {}]
      Read(report, records) ==
        Audited(bundle, report, records, Lines(records),
                IF report.read THEN ReportReferences(bundle) ELSE {})
  IN  IF Metadata(bundle.tree, bundle.dir).kind # "dir"
      THEN [error |-> "InvalidRoot", passed |-> FALSE, issues |-> {}]
      ELSE Read(RequiredFile(bundle, "report.md"), RequiredFile(bundle, "records.jsonl"))

-----------------------------------------------------------------------------
(* What passes is an evaluation somebody else can check: the record named   *)
(* by each reference of the report is there and is one, and whatever links  *)
(* the archive holds, each procedure and each piece of evidence is a file   *)
(* inside of it with something in it.  And a reference to such a file is    *)
(* never called unsafe for the links it goes through (audit_reference).     *)
AuditVerdictSound(bundle, r) ==
  LET objects == {i \in DOMAIN bundle.records : bundle.records[i].json = "object"}
      Inside(path) == \E c \in Canonicalize(bundle.tree, path) :
                        \E root \in Canonicalize(bundle.tree, bundle.dir) :
                          /\ IsPrefix(root, c)
                          /\ bundle.tree[c].kind = "file" /\ bundle.tree[c].content # "empty"
  IN  /\ r.passed =>
           /\ \A i \in objects : \A k \in Kinds :
                Inside(bundle.dir \o bundle.references[bundle.records[i].object[k]].path)
           /\ \A id \in r.referenced :
                Cardinality({i \in objects : bundle.records[i].object.id = id}) = 1
           /\ r.recordsTotal = Cardinality(objects)
      /\ \A i \in r.issues : i[1] = "unsafe_reference" =>
           LET reference == bundle.references[bundle.records[i[3]].object[i[2]]]
               path == bundle.dir \o reference.path
           IN  Unsafe(reference) \/ ~Inside(path)

AuditSound(bundle) == AuditVerdictSound(bundle, AuditEvaluationDir(bundle))
=============================================================================
