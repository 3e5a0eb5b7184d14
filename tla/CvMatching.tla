------------------------------- MODULE CvMatching -------------------------------
(***************************************************************************)
(* What MatchingProcessor makes of one CV: text extraction, the removal of *)
(* identity data, the language model with its fallback, the validation of  *)
(* its answer, scores, and what the database accepts of them.              *)
(*                                                                         *)
(* A CV is a sequence of lines of a few kinds, all taken for equally long: *)
(* the limit of the text sent is counted in lines.  Skills and domains are *)
(* spellings with a normalized key; role texts are sequences of normalized *)
(* words (a word inside another word is left out).  Points are exact       *)
(* fractions until they are rounded to hundredths.  Failing calls, deleted *)
(* jobs and other scans are in ScanLifecycle; the constraints of job_cache *)
(* leave no candidate that ScoreCandidate refuses.                         *)
(***************************************************************************)
EXTENDS Integers, Sequences, FiniteSets

CONSTANTS
  Documents,     \* uploaded files
  Answers,       \* what a language model may answer: profiles
  Candidates,    \* job_cache rows a location may have
  Spelling,      \* locationkey.Normalize on skills and domains
  RoleFamilies,  \* roleFamilyRules: per family, a set of terms
  MaxLines,      \* the limit of the text sent to the language model
  MaxItems,      \* the limit of a list in a profile
  MaxYears,
  Missing

VARIABLES
  cv,       \* the uploaded file
  stage,    \* how far Process has come
  text,     \* what is sent to the language model
  asked,    \* models that did not give a valid profile
  profile,  \* the structured profile
  listed,   \* the candidates of the scan
  scored,   \* their scores
  failure   \* the error code of a failed scan

cvVars == <<cv, stage, text, asked, profile, listed, scored, failure>>

\* What matching works with: a job title, other prose, prose behind a dash or colon,
\* prose with a word of an address ("road map"), a job title beside an e-mail address.
Evidence == {"role", "prose", "item", "place", "card"}

\* Digits alone: four or five of them, a period of years, a telephone number.
Numeric == {"year", "dates", "phone"}

\* A label has its colon and value on its line, a heading is the label's word alone; a
\* contact is an e-mail address or URL, an address starts with its number.
Line ==
  Evidence \union Numeric \union
  {"blank", "name", "phrase", "contact", "label", "heading", "address"}

\* A JSON list is a set of spellings or missing, a role text a sequence of words;
\* job_cache_experience_check keeps minimums from being negative.  Experience may
\* be counted in any unit, for only its share of the minimum matters.
ASSUME CvAssumption ==
  LET Lists == {Missing} \union SUBSET DOMAIN Spelling
      Words == Seq(STRING)
  IN
  /\ MaxLines \in Nat /\ MaxItems \in Nat /\ MaxYears \in Nat
  /\ \A S \in SUBSET DOMAIN Spelling : S # Missing
  /\ Answers \subseteq
       [skills : Lists, domains : Lists, education : {Missing, "list"},
        roles : {Missing} \union Seq(Words), years : Int, seniority : STRING,
        summary : STRING]
  /\ \A job \in Candidates :
       /\ \A field \in {job.required, job.preferred, job.domains} :
            field \in SUBSET DOMAIN Spelling /\ IsFiniteSet(field)
       /\ job.role \in Words /\ job.title \in Words
       /\ job.minimum \in {Missing} \union Nat
  /\ \A f \in Documents : f.lines \in Seq(Line)

CvTypeOK ==
  /\ cv \in Documents
  /\ stage \in {"context", "parse", "candidates", "score", "store", "completed", "failed"}
  /\ text \in Seq(Line \union {"[REDACTED]"}) /\ asked \in 0..2
  /\ profile \in Answers \union {Missing}
  /\ listed \subseteq Candidates
  /\ \A m \in scored : m.job \in listed /\ m.percent \in Nat /\ m.percent <= 10000
  /\ failure \in {Missing, "cv_extract_failed", "cv_text_empty", "deepseek_parse_failed",
                  "scan_results_failed"}

CvInit ==
  /\ cv \in Documents
  /\ stage = "context" /\ text = <<>> /\ asked = 0
  /\ profile = Missing /\ listed = {} /\ scored = {} /\ failure = Missing

-----------------------------------------------------------------------------
(* Text *)

Least(a, b) == IF a <= b THEN a ELSE b

\* The lines of some kinds in a text.
LinesOf(lines, kinds) == {i \in DOMAIN lines : lines[i] \in kinds}

Blank(lines) == \A i \in DOMAIN lines : lines[i] = "blank"

\* The lines of a text at the places of a set, in their order.
Selected(lines, places) ==
  LET nth(k) == CHOOSE i \in places : Cardinality({j \in places : j <= i}) = k
  IN [k \in 1..Cardinality(places) |-> lines[nth(k)]]

\* strings.TrimSpace: no blank line at an end.
TrimSpace(lines) ==
  LET full == {i \in DOMAIN lines : lines[i] # "blank"}
  IN Selected(lines, {i \in DOMAIN lines : \E j, k \in full : j <= i /\ i <= k})

\* extractDOCXText: the text runs of word/document.xml, which must be there.
DocxText(f) == IF f.intact THEN f.lines ELSE <<>>

\* extractPDFText: only literal strings; compressed content yields nothing.
PdfText(f) == IF f.intact THEN f.lines ELSE <<>>

\* ExtractCVText, and cleanExtractedText: no text is an error.
Extracted(f) ==
  TrimSpace(CASE f.format = "txt"  -> f.lines
              [] f.format = "docx" -> DocxText(f)
              [] f.format = "pdf"  -> PdfText(f)
              [] OTHER             -> <<>>)

\* emailPattern, phonePattern and urlPattern in one line.  Eight digits with spaces
\* and dashes between them are a telephone number: "2019 - 2023" is one as well.
MatchesContact(line) == line \in {"contact", "card", "dates", "phone"}

\* Mutant: job titles pass for names.
LooksLikePersonNameAny(line) == line \in {"name", "phrase", "role"}

\* looksLikePersonName: two to six words of letters, none of them a job title's.
LooksLikePersonName(line) == line \in {"name", "phrase"}

\* redactLikelyHeaderName: the first line with text, when something like contact
\* data is among the first ten lines and it could be a name.
RedactHeader(lines) ==
  LET head == {i \in DOMAIN lines : i <= 10 /\ lines[i] # "blank"}
      first == CHOOSE i \in head : \A j \in head : i <= j
  IN
  IF /\ head # {}
     /\ \E i \in head : MatchesContact(lines[i]) \/ lines[i] = "label"
     /\ LooksLikePersonName(lines[first])
  THEN [lines EXCEPT ![first] = "blank"] ELSE lines

\* Two lines with nothing between them but blank lines.
Adjacent(lines, i, j) ==
  /\ i < j /\ lines[i] # "blank" /\ lines[j] # "blank"
  /\ \A k \in i+1..j-1 : lines[k] = "blank"

\* In a pattern \s is a line end as well: the lines of all pairs, one of a kind
\* before and one of a kind behind it, that a pattern takes together.
Spanned(lines, before, behind) ==
  LET one == LinesOf(lines, before)
      two == LinesOf(lines, behind)
  IN {i \in one : \E j \in two : Adjacent(lines, i, j)}
       \union {j \in two : \E i \in one : Adjacent(lines, i, j)}

Erased(lines, places) == [i \in DOMAIN lines |-> IF i \in places THEN "blank" ELSE lines[i]]

\* identityLinePattern: a label and its value, or its word and a line that starts
\* with the colon or dash.
RedactIdentity(lines) ==
  Erased(lines, LinesOf(lines, {"label"}) \union Spanned(lines, {"heading"}, {"item"}))

\* addressLinePattern: a number and, behind it, a line with a word of an address.
RedactAddresses(lines) ==
  Erased(lines, LinesOf(lines, {"address"}) \union Spanned(lines, {"year"}, {"place", "address"}))

\* What is left of a line when its contact data are replaced.
WithoutContact(line) ==
  CASE line = "card"    -> "role"
    [] line = "contact" -> "[REDACTED]"
    [] OTHER            -> line

\* emailPattern, phonePattern, urlPattern in the text: neighbouring lines of digits are
\* one number and become one line (digits left of a number above fifteen are left out).
RedactContacts(lines) ==
  LET number == LinesOf(lines, {"dates", "phone"}) \union Spanned(lines, Numeric, Numeric)
      inside == {k \in DOMAIN lines : \E i, j \in LinesOf(lines, Numeric) :
                   Adjacent(lines, i, j) /\ k \in i+1..j}
      redacted == [i \in DOMAIN lines |->
                     IF i \in number THEN "[REDACTED]" ELSE WithoutContact(lines[i])]
  IN Selected(redacted, DOMAIN lines \ inside)

\* compactBlankLines: of several blank lines in a row the first stays.
CompactBlankLines(lines) ==
  Selected(lines, {i \in DOMAIN lines : lines[i] = "blank" => i = 1 \/ lines[i-1] # "blank"})

\* The limit maxCVTextRunes.
Truncate(lines) == SubSeq(lines, 1, Least(Len(lines), MaxLines))

\* sanitizeCVText.
Sanitize(lines) ==
  LET anonymous == RedactAddresses(RedactIdentity(RedactHeader(lines)))
  IN Truncate(TrimSpace(CompactBlankLines(RedactContacts(anonymous))))

-----------------------------------------------------------------------------
(* Answers of a language model.  A list that is missing in the JSON object is *)
(* Missing.                                                                   *)

Items(list) == IF list = Missing THEN {} ELSE list
Texts(list) == IF list = Missing THEN <<>> ELSE list

\* validateStringList.
FitsList(list) == Cardinality(Items(list)) <= MaxItems

\* StructuredProfilePayload.Validate: a missing list has no invalid item.
ValidProfile(a) ==
  /\ a.years \in 0..MaxYears
  /\ a.seniority \in {"JUNIOR", "MID", "SENIOR", "UNSPECIFIED"}
  /\ FitsList(a.skills) /\ FitsList(a.domains) /\ Len(Texts(a.roles)) <= MaxItems
  /\ a.summary = "fine"

\* The NOT NULL and shape constraints of structured_profiles: a nil slice is
\* written as NULL, a nil list of records as the JSON null.
StorableProfile(a) ==
  a.roles # Missing /\ a.skills # Missing /\ a.domains # Missing /\ a.education # Missing

-----------------------------------------------------------------------------
(* Scores *)

Plus(p, q) == <<p[1] * q[2] + q[1] * p[2], p[2] * q[2]>>

\* Mutant: whole points.
RoundScoreWhole(p) == 100 * ((2 * p[1] + p[2]) \div (2 * p[2]))

\* roundScore, in hundredths; halves are rounded up.
RoundScore(p) == (200 * p[1] + p[2]) \div (2 * p[2])

\* normalizedSet, uniqueNormalized.
NormalizedSet(values) == {Spelling[v] : v \in Items(values)} \ {Missing}

\* Mutant: the share of all keys instead of the wanted ones.
WeightedOverlapOfAll(have, want, weight) ==
  IF want = {} THEN <<0, 1>>
  ELSE <<weight * Cardinality(want \intersect have), Cardinality(want \union have)>>

\* weightedOverlap and preferredDomainPoints: the share of the wanted keys that
\* the profile has; a source without the field is no evidence.
WeightedOverlap(have, want, weight) ==
  IF want = {} THEN <<0, 1>> ELSE <<weight * Cardinality(want \intersect have), Cardinality(want)>>

PreferredDomainPoints(a, job) ==
  WeightedOverlap(NormalizedSet(a.skills) \union NormalizedSet(a.domains),
                  NormalizedSet(job.preferred \union job.domains), 10)

\* strings.Contains on texts of whole words.
Contains(s, t) ==
  \E i \in 0..(Len(s) - Len(t)) : \A k \in DOMAIN t : s[i + k] = t[k]

\* detectRoleFamily: the first family with a term in the text, 0 for none.
RoleFamily(words) ==
  LET hits == {i \in DOMAIN RoleFamilies : \E t \in RoleFamilies[i] : Contains(words, t)}
  IN IF hits = {} THEN 0 ELSE CHOOSE i \in hits : \A j \in hits : i <= j

WordsOf(s) == {s[i] : i \in DOMAIN s}

\* Token overlap of one role of the profile with a job, at most 1.
RoleOverlap(role, job) ==
  LET mine == WordsOf(role)
      other == WordsOf(job.role \o job.title)
      larger == IF Cardinality(mine) >= Cardinality(other) THEN mine ELSE other
  IN CASE mine = {} \/ other = {} -> <<0, 1>>
       [] Contains(job.role, role) \/ Contains(role, job.role) -> <<1, 1>>
       [] OTHER -> <<Cardinality(mine \intersect other), Cardinality(larger)>>

\* The roles of a profile are joined before their family is looked for.
JoinedRoles(roles) ==
  LET joined[n \in 0..Len(roles)] == IF n = 0 THEN <<>> ELSE joined[n-1] \o roles[n]
  IN joined[Len(roles)]

\* roleRelevance: families decide when both are known, otherwise the best overlap.
RoleRelevance(a, job) ==
  LET roles == Texts(a.roles)
      mine == RoleFamily(JoinedRoles(roles))
      other == RoleFamily(job.role \o job.title)
      overlaps == {RoleOverlap(roles[i], job) : i \in DOMAIN roles} \union {<<0, 1>>}
      best == CHOOSE p \in overlaps : \A q \in overlaps : q[1] * p[2] <= p[1] * q[2]
  IN CASE mine # 0 /\ other # 0 -> IF mine = other THEN <<25, 1>> ELSE <<0, 1>>
       [] OTHER -> <<25 * best[1], best[2]>>

\* experiencePoints: nothing without a minimum.
ExperiencePoints(years, minimum) ==
  IF minimum \in {Missing, 0} THEN <<0, 1>> ELSE <<15 * Least(years, minimum), minimum>>

SeniorityPoints(mine, wanted) ==
  IF wanted \notin {"", "UNSPECIFIED"} /\ mine = wanted THEN <<15, 1>> ELSE <<0, 1>>

\* ScoreCandidate: every part is rounded, and so is the sum of the exact parts.
ScoreCandidate(a, job) ==
  LET required == WeightedOverlap(NormalizedSet(a.skills), NormalizedSet(job.required), 35)
      role == RoleRelevance(a, job)
      experience == ExperiencePoints(a.years, job.minimum)
      seniority == SeniorityPoints(a.seniority, job.seniority)
      preferred == PreferredDomainPoints(a, job)
      total == Plus(Plus(Plus(Plus(required, role), experience), seniority), preferred)
  IN [job |-> job, required |-> RoundScore(required), role |-> RoundScore(role),
      experience |-> RoundScore(experience), seniority |-> RoundScore(seniority),
      preferred |-> RoundScore(preferred), percent |-> RoundScore(total)]

SumOfParts(m) == m.required + m.role + m.experience + m.seniority + m.preferred

\* The checks of scan_matches, among them scan_matches_score_sum_check.
StorableScore(m) ==
  /\ m.required <= 3500 /\ m.role <= 2500 /\ m.experience <= 1500
  /\ m.seniority <= 1500 /\ m.preferred <= 1000
  /\ m.percent = SumOfParts(m)

-----------------------------------------------------------------------------
(* MatchingProcessor.Process *)

Fail(code) == stage' = "failed" /\ failure' = code

ExtractText ==
  LET lines == Extracted(cv)
      sent == Sanitize(lines)
  IN
  /\ stage = "context"
  /\ \/ /\ Blank(lines)
        /\ Fail("cv_extract_failed")
        /\ UNCHANGED text
     \/ /\ ~Blank(lines) /\ Blank(sent)
        /\ Fail("cv_text_empty")
        /\ UNCHANGED text
     \/ /\ ~Blank(sent)
        /\ stage' = "parse" /\ text' = sent
        /\ UNCHANGED failure
  /\ UNCHANGED <<cv, asked, profile, listed, scored>>

\* DeepSeekParser.Parse, parseWithModel: the primary model, then the fallback.
ParseWithModel ==
  /\ stage = "parse"
  /\ \E a \in Answers :
       /\ ValidProfile(a)
       /\ profile' = a /\ stage' = "candidates"
  /\ UNCHANGED <<cv, text, asked, listed, scored, failure>>

\* No answer, one that is no JSON profile, or an invalid one.
ParseFails ==
  /\ stage = "parse"
  /\ asked' = asked + 1
  /\ IF asked = 1 THEN Fail("deepseek_parse_failed") ELSE UNCHANGED <<stage, failure>>
  /\ UNCHANGED <<cv, text, profile, listed, scored>>

ListMatchCandidates ==
  /\ stage = "candidates"
  /\ \E one, two \in Candidates : listed' = {one, two}
  /\ stage' = "score"
  /\ UNCHANGED <<cv, text, asked, profile, scored, failure>>

ScoreCandidates ==
  /\ stage = "score"
  /\ scored' = {ScoreCandidate(profile, job) : job \in listed}
  /\ stage' = "store"
  /\ UNCHANGED <<cv, text, asked, profile, listed, failure>>

\* CompleteScan: one transaction for the profile and every score.
CompleteScan ==
  /\ stage = "store"
  /\ IF StorableProfile(profile) /\ \A m \in scored : StorableScore(m)
     THEN stage' = "completed" /\ UNCHANGED failure
     ELSE Fail("scan_results_failed")
  /\ UNCHANGED <<cv, text, asked, profile, listed, scored>>

CvNext ==
  \/ ExtractText \/ ParseWithModel \/ ParseFails
  \/ ListMatchCandidates \/ ScoreCandidates \/ CompleteScan

CvSpec == CvInit /\ [][CvNext]_cvVars

-----------------------------------------------------------------------------
(* Properties *)

\* "Make the total equal the sum stored in scan_matches": what the constraint
\* scan_matches_score_sum_check demands of every score.
TotalsAddUp == \A m \in scored : m.percent = SumOfParts(m)

\* What holds instead: up to four fractions are rounded apart from their sum, so
\* the total is at most two hundredths away from the parts shown with it.
TotalsNearSum ==
  \A m \in scored : m.percent - SumOfParts(m) \in -2..2

\* Another skill in the profile never lowers the score of a job, whatever the
\* rounding, the spelling and the other parts do.
MoreEvidenceNeverHurts ==
  \A m \in scored : \A s \in DOMAIN Spelling :
    LET richer == [profile EXCEPT !.skills = Items(@) \union {s}]
    IN ScoreCandidate(richer, m.job).percent >= m.percent

Relevant(lines) == LinesOf(lines, Evidence)

\* Evidence that a pattern takes for identity data: an item behind a heading, and a
\* line with a word of an address behind a number.
TakenForIdentity(lines, i) ==
  \/ lines[i] = "item" /\ \E j \in LinesOf(lines, {"heading"}) : Adjacent(lines, j, i)
  \/ /\ lines[i] = "place"
     /\ \E j \in LinesOf(lines, {"year"}) :
          j < i /\ \A k \in j+1..i-1 : lines[k] \in {"blank", "label", "heading", "item"}

\* Every line with evidence is sent without its contact data, in the order of the
\* CV, but for those that are taken for identity data and the end of a text that
\* reaches the limit.
EvidenceIsSent(sent, original) ==
  \E at \in [Relevant(sent) -> Relevant(original)] :
    /\ \A k \in Relevant(sent) : sent[k] = WithoutContact(original[at[k]])
    /\ \A k, l \in Relevant(sent) : k < l => at[k] < at[l]
    /\ \A i \in Relevant(original) \ {at[k] : k \in Relevant(sent)} :
         \/ TakenForIdentity(original, i)
         \/ Len(sent) = MaxLines /\ \A k \in Relevant(sent) : at[k] < i

\* "Job titles are deliberately excluded so matching-relevant text remains
\* available" (deepseek.go:287-289): what the removal of identity data and the
\* limit of 80 000 runes (deepseek.go:280-283) leave of the text of a CV.
MatchingTextSurvives ==
  stage \in {"parse", "candidates", "score", "store", "completed"} =>
    EvidenceIsSent(text, Extracted(cv))

\* Why: a profile was validated before anything was scored by it, every score is
\* ScoreCandidate's, and none is there while profile and candidates may still change.
ScoresAreComputed ==
  /\ stage \in {"candidates", "score", "store", "completed"} \/ scored # {} =>
       profile \in Answers /\ ValidProfile(profile)
  /\ stage \in {"context", "parse", "candidates", "score"} => scored = {}
  /\ \A m \in scored : \E job \in listed : m = ScoreCandidate(profile, job)

\* Parts keep their weights, so that the sum is all that the database may refuse
\* about a score.
OnlySumsAreRefused == \A m \in scored : StorableScore(m) \/ m.percent # SumOfParts(m)

\* A third model is never asked.
ModelIsLeft == stage \in {"context", "parse"} => asked < 2

\* The inductive invariant.
CvInv ==
  /\ CvTypeOK /\ TotalsNearSum /\ MoreEvidenceNeverHurts /\ MatchingTextSurvives
  /\ ScoresAreComputed /\ OnlySumsAreRefused /\ ModelIsLeft
=============================================================================
