-------------------------- MODULE ReviewedConclusions --------------------------
(* The reader page of one research question (research_atlas/rq_presentation.py):  *)
(* authors keep revising papers, reading notes, findings, syntheses, searches and *)
(* the question; a conclusion pins the revision of the question, a review pins    *)
(* the revision of every record the question rests on; the page decides at every  *)
(* projection what of it may still be shown.  Wording is left out: a record's     *)
(* content is what it refers to and the flags the rules read.                     *)
EXTENDS Integers, FiniteSets

CONSTANTS
    Papers, Notes, Findings, Syntheses, Searches, Question,
    Drafts,      \* record -> the contents its authors may give it
    First,       \* record -> its first content
    MaxEdits,    \* edits in a behaviour
    None

Records == Papers \union Notes \union Findings \union Syntheses \union Searches
Ids == Records \union {Question}
Maturities == {"draft", "in_review", "domain_accepted", "archived"}
\* The rules take unassessed as insufficient_evidence and narrowing_required as covered_by_prior_art.
Gaps == {"insufficient_evidence", "covered_by_prior_art", "candidate_gap"}

(* What a record of each kind may refer to.                                       *)
Fits(i, d) ==
    IF i = Question
    THEN /\ d.findings \subseteq Findings /\ d.syntheses \subseteq Syntheses
         /\ d.searches \subseteq Searches /\ d.establishes \subseteq Findings \union Syntheses
         /\ \A row \in d.literature :
              row.paper \in Papers /\ row.owner \in Papers \union Notes \union Findings
         /\ \A row \in d.nearest : row.paper \in Papers /\ row.evidence \subseteq Findings
    ELSE /\ d.sources \subseteq (IF i \in Notes \union Findings THEN Papers ELSE {})
         /\ d.notes \subseteq (IF i \in Findings THEN Notes ELSE {})
         /\ d.locations \subseteq (IF i \in Findings THEN Notes ELSE {})
         /\ d.findings \subseteq (IF i \in Syntheses THEN Findings ELSE {})
         /\ d.context # None =>
              /\ i \in Papers \union Notes \union Findings
              /\ d.context.finding \in Findings \union {None} /\ d.context.note \in Notes \union {None}

ReaderAssumption ==
    /\ Question \notin Records /\ None \notin Ids /\ MaxEdits \in Nat
    /\ Papers \intersect (Notes \union Findings \union Syntheses \union Searches) = {}
    /\ Notes \intersect (Findings \union Syntheses \union Searches) = {}
    /\ Findings \intersect (Syntheses \union Searches) = {} /\ Syntheses \intersect Searches = {}
    /\ \A i \in Ids : First[i] \in Drafts[i] /\ \A d \in Drafts[i] : Fits(i, d)
    /\ First \in [Ids -> UNION {Drafts[i] : i \in Ids}]
    /\ None \notin [Ids -> UNION {Drafts[i] : i \in Ids}]
    /\ None \notin [questionVersion : Nat, gap : Gaps, evidence : SUBSET Records, signed : BOOLEAN,
                    inputs : UNION {[S -> Nat] : S \in SUBSET Records}]

VARIABLES
    content,     \* what every record says
    version,     \* its record_version
    maturity,    \* its document_maturity
    conclusion,  \* None, or the authored conclusion of the question
    reviewed,    \* what every record said when the conclusion was reviewed, or None
    edits
vars == <<content, version, maturity, conclusion, reviewed, edits>>

-------------------------------------------------------------------------------
(* Rules of the page.                                                            *)
Eligible(i) == maturity[i] \in {"domain_accepted", "in_review"}
Asked == content[Question]

(* The context a literature row selects: of the paper, or of a note or a finding *)
(* that names the paper.                                                         *)
Context(row) ==
    IF row.owner = row.paper \/ row.paper \in content[row.owner].sources
    THEN content[row.owner].context ELSE None

(* Author findings need checked reading notes, of an eligible paper of theirs,   *)
(* for each of their locations; inferences need none; own results never appear.  *)
\* mutant: a withdrawn reading note still carries its findings
DeclaredNote(f, n, papers) ==
    /\ n \in content[f].notes /\ content[n].checked
    /\ content[n].sources \intersect {p \in papers : Eligible(p)} # {}

LocationOk(f, n, papers) ==
    /\ n \in content[f].notes /\ Eligible(n) /\ content[n].checked
    /\ content[n].sources \intersect {p \in papers : Eligible(p)} # {}

FindingOk(f, papers) ==
    /\ papers \subseteq content[f].sources /\ Eligible(f)
    /\ content[f].origin # "own_empirical_result"
    /\ content[f].origin # "our_inference" =>
         /\ content[f].locations # {}
         /\ \A n \in content[f].locations :
              LocationOk(f, n, IF papers = {} THEN content[f].sources ELSE papers)

StatementOk(s) ==
    IF s \in Findings THEN s \in Asked.findings /\ FindingOk(s, {})
    ELSE /\ s \in Asked.syntheses /\ content[s].question /\ Eligible(s)
         /\ \A f \in content[s].findings : FindingOk(f, {})

(* Everything the question selects, and what that rests on.                      *)
Below(i) ==
    CASE i \in Syntheses -> content[i].findings
      [] i \in Findings  -> content[i].notes \union content[i].sources
      [] i \in Notes     -> content[i].sources
      [] OTHER           -> {}

Dependencies ==
    LET contexts == {Context(row) : row \in Asked.literature} \ {None}
        selected == Asked.searches \union Asked.establishes
                      \union (UNION {{row.paper, row.owner} : row \in Asked.literature})
                      \union (UNION {{c.finding, c.note} \ {None} : c \in contexts})
                      \union (UNION {{row.paper} \union row.evidence : row \in Asked.nearest})
        Close(near) == near \union (UNION {Below(i) : i \in near})
    IN  Close(Close(Close(selected)))

EvidenceOk(row) ==
    /\ Eligible(Question) /\ Eligible(row.paper)
    /\ \A f \in row.evidence :
         f \in Asked.findings /\ content[f].origin = "authors_result" /\ FindingOk(f, {row.paper})

PinsCurrent ==
    /\ DOMAIN conclusion.inputs = Dependencies
    /\ \A i \in DOMAIN conclusion.inputs : Eligible(i) /\ version[i] = conclusion.inputs[i]

ReviewOk ==
    /\ conclusion # None /\ conclusion.signed
    /\ \A row \in Asked.literature :
         LET c == Context(row)
         IN  /\ c # None
             /\ c.finding # None => c.finding \in Asked.findings /\ FindingOk(c.finding, {row.paper})
             /\ c.note # None => row.paper \in content[c.note].sources
    /\ \A s \in Asked.establishes : StatementOk(s)
    /\ \A row \in Asked.nearest : EvidenceOk(row)
    /\ PinsCurrent
    /\ \A s \in Asked.searches : content[s].question

Attempted == conclusion # None /\ (conclusion.signed \/ DOMAIN conclusion.inputs # {})
NeedsReview == maturity[Question] = "domain_accepted" \/ Attempted

ComparisonOk(row) == EvidenceOk(row) /\ (NeedsReview => ReviewOk)

ConclusionOk ==
    /\ conclusion # None /\ Eligible(Question)
    /\ conclusion.questionVersion = version[Question]
    /\ NeedsReview => ReviewOk
    /\ \A s \in conclusion.evidence :
         /\ s \in Asked.establishes \union UNION {row.evidence : row \in Asked.nearest}
         /\ StatementOk(s)
    /\ conclusion.gap # "insufficient_evidence" =>
         conclusion.evidence # {} /\ \E row \in Asked.nearest : ComparisonOk(row)
    /\ conclusion.gap = "candidate_gap" => ReviewOk

(* What the page says of the conclusion it shows.                                *)
Label == IF maturity[Question] = "in_review" /\ ~conclusion.signed
         THEN "provisional" ELSE "reviewed inputs"
Compared == {row \in Asked.nearest : ComparisonOk(row)}
Established == {s \in Asked.establishes : Eligible(Question) /\ StatementOk(s)}

-------------------------------------------------------------------------------
(* Authors.                                                                      *)
Init ==
    /\ content = First
    /\ version = [i \in Ids |-> 1]
    /\ maturity = [i \in Ids |-> "in_review"]
    /\ conclusion = None /\ reviewed = None /\ edits = 0

Edit == edits < MaxEdits /\ edits' = edits + 1

(* A revision says something else and counts its record_version up.              *)
Revise(i, d) ==
    /\ Edit /\ d \in Drafts[i] \ {content[i]}
    /\ content' = [content EXCEPT ![i] = d]
    /\ version' = [version EXCEPT ![i] = @ + 1]
    /\ UNCHANGED <<maturity, conclusion, reviewed>>

Mature(i, m) ==
    /\ Edit /\ m # maturity[i]
    /\ maturity' = [maturity EXCEPT ![i] = m]
    /\ UNCHANGED <<content, version, conclusion, reviewed>>

Conclude(gap, evidence) ==
    /\ Edit
    /\ conclusion' = [questionVersion |-> version[Question], gap |-> gap, evidence |-> evidence,
                      signed |-> FALSE, inputs |-> [i \in {} |-> 0]]
    /\ reviewed' = None
    /\ UNCHANGED <<content, version, maturity>>

(* A reviewer pins what they looked at, all of it or not, and signs or not.      *)
Review(pinned, signed) ==
    /\ conclusion # None /\ reviewed = None
    /\ conclusion' = [conclusion EXCEPT !.signed = signed, !.inputs = [i \in pinned |-> version[i]]]
    /\ reviewed' = content
    /\ UNCHANGED <<content, version, maturity, edits>>

Next ==
    \/ \E i \in Ids : \E d \in Drafts[i] : Revise(i, d)
    \/ \E i \in Ids, m \in Maturities : Mature(i, m)
    \/ \E gap \in Gaps, evidence \in SUBSET Asked.establishes : Conclude(gap, evidence)
    \/ \E signed \in BOOLEAN, left \in SUBSET Dependencies :
          Cardinality(left) <= 1 /\ Review(Dependencies \ left, signed)

Spec == Init /\ [][Next]_vars

-------------------------------------------------------------------------------
(* Contents, revisions and conclusions are of their kinds.                       *)
TypeOK ==
    /\ \A i \in Ids : content[i] \in Drafts[i] /\ version[i] \in 1..MaxEdits + 1
    /\ maturity \in [Ids -> Maturities]
    /\ conclusion # None => DOMAIN conclusion.inputs \subseteq Records
    /\ reviewed # None => conclusion # None

(* Text that stands on a review stands on the records as they were reviewed: the *)
(* page shows a conclusion as reviewed, or a comparison while a review is        *)
(* claimed, only when everything the question selects, and everything that rests *)
(* on, down to the notes and the papers, says what it said at the review; and so *)
(* do the notes the locations of an author finding point to.  Any revision in    *)
(* between takes conclusion and comparisons off the page.                        *)
Rests(i) ==
    LET Close(near) == near \union UNION {content[j].findings \union content[j].notes
                                            \union content[j].sources : j \in near}
    IN  Close(Close(Close({i})))

Shown == Asked.establishes \union (UNION {row.evidence \union {row.paper} : row \in Asked.nearest})
           \union {row.owner : row \in Asked.literature} \union Asked.searches

Located ==
    LET said == Asked.establishes \union UNION {row.evidence : row \in Asked.nearest}
        found == said \union UNION {content[s].findings : s \in said}
    IN  UNION {content[f].locations : f \in {f \in found : content[f].origin = "authors_result"}}

ReviewedTextIsCurrent ==
    ((ConclusionOk /\ Label = "reviewed inputs") \/ (Attempted /\ Compared # {}))
      => /\ reviewed # None /\ conclusion.signed
         /\ \A i \in (UNION {Rests(j) : j \in Shown}) \union Located : content[i] = reviewed[i]

(* No gap is claimed without a review, and nothing provisional is shown of an    *)
(* accepted question or of a conclusion whose review has begun (conclusion_ok).  *)
GapsAreReviewed ==
    (ConclusionOk /\ (conclusion.gap = "candidate_gap" \/ maturity[Question] = "domain_accepted"
                        \/ conclusion.signed \/ DOMAIN conclusion.inputs # {}))
      => conclusion.signed /\ Label = "reviewed inputs" /\ PinsCurrent

(* A withdrawn source silences what was drawn from it, however far away: no      *)
(* statement, comparison or conclusion on the page rests, through a synthesis    *)
(* and its findings or directly, on an author finding one of whose reading notes *)
(* is withdrawn or unchecked, or none of whose papers is current.                *)
Sound(f) ==
    /\ Eligible(f)
    /\ content[f].origin = "authors_result" =>
         /\ \A n \in content[f].locations : Eligible(n) /\ content[n].checked
         /\ \E p \in content[f].sources : Eligible(p)

WithdrawnSourcesSilence ==
    LET said == Established \union (UNION {row.evidence : row \in Compared})
                  \union (IF ConclusionOk THEN conclusion.evidence ELSE {})
    IN  \A s \in said : \A f \in ({s} \union content[s].findings) \intersect Findings : Sound(f)
=============================================================================
