----------------------------- MODULE LoreVisibility -----------------------------
(***************************************************************************)
(* What a story position lets a character know: retrieveLoreDialogue and   *)
(* dialogueLinesForSpeaker.  A scene is [order, available, lines]; a line  *)
(* tells whether a label of hers speaks it and whether it is a private     *)
(* thought (all of it in parentheses).  How well a scene or a line matches *)
(* a message is a choice; so is how much of each hit fits the budget of    *)
(* characters, except that the first line always does.                     *)
(***************************************************************************)
EXTENDS Naturals, FiniteSets

CONSTANTS
  TopK,      \* DEFAULT_DIALOGUE_RETRIEVAL_TOP_K
  LineWindow \* the 12 of selectLines

ASSUME LoreAssumption == {TopK, LineWindow} \subseteq Nat \ {0}

\* dialogueLinesForSpeaker: from her first line on, but for the private
\* thoughts of others.  A scene that she is not in has no visible line.
Entered(scene, i) == \E j \in DOMAIN scene.lines : j <= i /\ scene.lines[j].own

VisibleLines(scene) ==
  {i \in DOMAIN scene.lines :
     Entered(scene, i) /\ (scene.lines[i].private => scene.lines[i].own)}

\* Mutant: the scene at the cursor counts as seen.
Candidates_Inclusive(catalog, cursor) ==
  {s \in DOMAIN catalog :
     catalog[s].available /\ catalog[s].order <= cursor /\ VisibleLines(catalog[s]) # {}}

\* rankedCandidates.
Candidates(catalog, cursor) ==
  {s \in DOMAIN catalog :
     catalog[s].available /\ catalog[s].order < cursor /\ VisibleLines(catalog[s]) # {}}

\* The greatest order, and of those the least id.
Later(catalog, s, t) ==
  \/ catalog[s].order > catalog[t].order
  \/ catalog[s].order = catalog[t].order /\ s < t

LatestOf(catalog, scenes) ==
  CHOOSE s \in scenes : \A t \in scenes \ {s} : Later(catalog, s, t)

\* Mutant: the best TopK, whether the latest is among them or not.
Choices_BestOnly(catalog, candidates) ==
  {hits \in SUBSET candidates :
     \/ Cardinality(hits) = TopK
     \/ Cardinality(hits) < TopK /\ hits = candidates}

\* The latest for continuity, and the best TopK - 1 of the others.
Choices(catalog, candidates) ==
  IF candidates = {} THEN {{}}
  ELSE LET latest == LatestOf(catalog, candidates)
           others == candidates \ {latest}
       IN  {{latest} \cup best : best \in
              {b \in SUBSET others : \/ Cardinality(b) = TopK - 1
                                     \/ Cardinality(b) < TopK - 1 /\ b = others}}

\* lines.slice(-n)
LastOf(lines, n) == {i \in lines : Cardinality({j \in lines : j > i}) < n}

\* The matching lines, each with the line before and the line after it.
Around(lines, matching) ==
  {i \in lines : \E m \in matching :
     \/ i = m
     \/ \A j \in lines : ~(i < j /\ j < m) /\ ~(m < j /\ j < i)}

\* selectLines; with nothing matching, or no words to match, the end of the scene.
SelectLines(lines, matching) ==
  IF Cardinality(lines) <= LineWindow \/ matching = {}
  THEN LastOf(lines, LineWindow)
  ELSE Around(lines, matching)

\* limitHits: of each hit the lines that fit, up to the first that does not.
Prefixes(lines) == {p \in SUBSET lines : \A i \in p : \A j \in lines : j < i => j \in p}

Excerpts(scene) ==
  UNION {Prefixes(SelectLines(VisibleLines(scene), matching)) :
           matching \in SUBSET VisibleLines(scene)}

\* What retrieveLoreDialogue may return: of each hit an excerpt.
StoryContexts(catalog, cursor) ==
  LET candidates == Candidates(catalog, cursor)
  IN  UNION {{shown \in [hits -> UNION {Excerpts(catalog[s]) : s \in hits}] :
                \A s \in hits : /\ shown[s] \in Excerpts(catalog[s])
                                /\ s = LatestOf(catalog, candidates) => shown[s] # {}}
             : hits \in Choices(catalog, candidates)}
=============================================================================
