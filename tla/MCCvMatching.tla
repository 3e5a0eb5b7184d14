----------------------------- MODULE MCCvMatching -----------------------------
(* Values of the constants of CvMatching for TLC: CVs, answers of a language *)
(* model and jobs with everything the code looks at.                         *)
EXTENDS CvMatching, TLC

\* Files of all formats, whole and damaged, with what the filters look at.
McDocuments ==
  { [format |-> "docx", intact |-> TRUE,
     lines |-> <<"card", "heading", "item", "prose", "year", "label", "place">>],
    [format |-> "docx", intact |-> FALSE, lines |-> <<"role">>],
    [format |-> "pdf", intact |-> TRUE,
     lines |-> <<"role", "phone", "blank", "label", "blank", "prose", "dates">>],
    [format |-> "pdf", intact |-> FALSE, lines |-> <<"role", "prose">>],
    [format |-> "txt", intact |-> TRUE,
     lines |-> <<"phrase", "role", "year", "blank", "year", "prose", "heading", "prose", "item">>],
    [format |-> "txt", intact |-> TRUE,
     lines |-> <<"blank", "name", "contact", "role", "address", "prose", "item", "prose", "role">>],
    [format |-> "txt", intact |-> TRUE, lines |-> <<"label", "address", "blank">>] }

\* Two spellings of one skill, and a text without a letter or digit.
McSpelling ==
  "Go" :> "go" @@ "GO" :> "go" @@ "Sql" :> "sql" @@ "Ml" :> "ml" @@ "--" :> Missing

\* Two families of roles, one with a term of two words.
McFamilies ==
  << {<<"help", "desk">>, <<"support">>}, {<<"software">>, <<"developer">>} >>

McAnswer(k, d, e, r, y, l, m) ==
  [skills |-> k, domains |-> d, education |-> e, roles |-> r, years |-> y,
   seniority |-> l, summary |-> m]

\* Valid profiles, and one for every way an answer can be refused.
McAnswers ==
  {McAnswer(k, d, "list", r, y, "MID", "fine") :
     k \in {{}, {"Go"}, {"Go", "Sql"}, {"--"}}, d \in {{}, {"Ml"}}, y \in {0, 1},
     r \in {<<>>, << <<"software", "tester">> >>, << <<"night", "clerk">> >>,
            << <<"night", "clerk">>, <<"help", "desk">> >>}}
  \union {McAnswer(Missing, {}, "list", <<>>, 1, "JUNIOR", "fine"),
          McAnswer({"Go"}, {}, Missing, <<>>, 1, "UNSPECIFIED", "fine"),
          McAnswer({"Go"}, {}, "list", Missing, 1, "MID", "fine"),
          McAnswer({"Go", "Sql", "Ml"}, {}, "list", <<>>, 1, "MID", "fine"),
          McAnswer({"Go"}, {}, "list", <<>>, 101, "MID", "fine"),
          McAnswer({"Go"}, {}, "list", <<>>, 1, "EXPERT", "fine"),
          McAnswer({"Go"}, {}, "list", <<>>, 1, "MID", "unfit")}

McJob(q, p, d, r, t, m, l) ==
  [required |-> q, preferred |-> p, domains |-> d, role |-> r, title |-> t,
   minimum |-> m, seniority |-> l]

\* Jobs with and without every field that is scored.
McCandidates ==
  { McJob({"GO", "Sql", "Ml"}, {"Go", "GO", "Sql"}, {"Ml"}, <<"software">>,
          <<"software", "developer">>, 3, "MID"),
    McJob({"GO", "Sql", "Ml"}, {}, {}, <<"clerk">>, <<"day", "clerk">>, Missing, "UNSPECIFIED"),
    McJob({}, {"Sql"}, {}, <<"night", "clerk">>, <<"clerk">>, 0, "MID"),
    McJob({"Go", "Ml"}, {"Sql", "--"}, {"Ml"}, <<"support">>, <<"agent">>, 3, ""),
    McJob({"Sql"}, {}, {}, <<>>, <<"day">>, 7, "SENIOR") }
=============================================================================
