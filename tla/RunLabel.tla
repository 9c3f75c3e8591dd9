------------------------------ MODULE RunLabel ------------------------------
(***************************************************************************)
(* The labels of a speedrun category and the rules that turn the labels a  *)
(* run still holds into the ones a viewer reads: crates/ml2_trackers/src/  *)
(* label.rs.  A run label is a set of labels; the field `terminus` of the  *)
(* struct is kept by the caller.  The text itself is abstracted to the set *)
(* of labels it is made of and the one label that carries the percent      *)
(* sign.                                                                   *)
(***************************************************************************)
EXTENDS Naturals, FiniteSets

\* enum SaveableCategory: the categories a streamer may leave out
SaveableCategory == {"No", "NoGold", "Pacifist", "Score"}

\* Label::ALL: every label in declaration order, the order of the text
LabelOrder ==
  << "NoJetpack", "NoTeleporter", "NoGold", "Pacifist", "IceCavesShortcut",
     "Chain", "Low", "No", "Any", "SunkenCity", "Eggplant", "Death",
     "JungleTemple", "VolcanaTemple", "Duat", "Abzu", "Millionaire",
     "TrueCrown", "CosmicOcean", "Score", "NoCo" >>

Label ==
  {"NoJetpack", "NoTeleporter", "NoGold", "Pacifist", "IceCavesShortcut",
   "Chain", "Low", "No", "Any", "SunkenCity", "Eggplant", "Death",
   "JungleTemple", "VolcanaTemple", "Duat", "Abzu", "Millionaire",
   "TrueCrown", "CosmicOcean", "Score", "NoCo"}

\* Label::meta, one set or function per field
StartLabels ==
  {"NoJetpack", "NoTeleporter", "NoGold", "Pacifist", "Low", "No", "Any",
   "NoCo"}
HideEarly == {"NoJetpack", "NoTeleporter", "NoGold", "Pacifist"}
Termini   == {"Any", "SunkenCity", "Death", "CosmicOcean"}
AddOk     == (Label \ StartLabels) \cup {"NoCo"}
Priority(l) ==
  CASE l \in {"Low", "No"}                        -> 5
    [] l \in {"Any", "SunkenCity", "CosmicOcean"} -> 4
    [] l = "Eggplant"                             -> 3
    [] l = "Death"                                -> 2
    [] l \in {"Duat", "Abzu"}                     -> 1
    [] OTHER                                      -> 0

(***************************************************************************)
(* add, discard, set_terminus.  Every caller drops the error, so a refused *)
(* call is one that changes nothing.  `validate` runs after the change has *)
(* been made: its error undoes nothing.                                    *)
(***************************************************************************)

\* RunLabel::add, with its check of add_ok
Add(labels, l) ==
  IF l \in AddOk \ Termini THEN labels \cup {l} ELSE labels

\* RunLabel::discard
Discard(labels, S) == IF S \cap Termini = {} THEN labels \ S ELSE labels

\* RunLabel::set_terminus as it would be if it left the old terminus in
KeepTerminus(labels, old, new) ==
  IF new \in Termini THEN labels \cup {new} ELSE labels

SetTerminus(labels, old, new) ==
  IF new \in Termini /\ new # old THEN (labels \ {old}) \cup {new}
  ELSE labels

\* RunLabel::mutex_sets
MutexSets == { Termini, {"Abzu", "Duat"} }

\* RunLabel::validate
IsValid(labels) == \A M \in MutexSets : Cardinality(labels \cap M) <= 1

(***************************************************************************)
(* visible: what is left of the labels, in the order the code filters them *)
(***************************************************************************)

\* "SCORE swallows everything except Score + NoCo"
ScoreOnly(vis) == IF "Score" \in vis THEN vis \cap {"Score", "NoCo"} ELSE vis

\* RunLabel::hides_pairs: the labels each label hides
Hides(l) ==
  CASE l = "Eggplant"    -> {"SunkenCity"}
    [] l = "Low"         -> {"NoTeleporter", "NoJetpack", "Any"}
    [] l = "Chain"       -> {"JungleTemple", "VolcanaTemple"}
    [] l \in {"NoGold", "Pacifist", "Millionaire"} -> {"Any"}
    [] l = "CosmicOcean" -> {"NoTeleporter", "Abzu", "Duat"}
    [] OTHER             -> {}

\* No label of the first column of hides_pairs is in a second one, so the
\* order of the pairs does not matter.
ApplyHides(vis) == vis \ UNION { Hides(l) : l \in vis }

\* RunLabel::only_show_with_pairs: no label of the first column is in the
\* second one, so the order of these does not matter either
ShownWith(l) ==
  CASE l \in {"NoJetpack", "TrueCrown"}        -> {"CosmicOcean"}
    [] l \in {"JungleTemple", "VolcanaTemple"} -> {"Low"}
    [] l = "NoCo"                              -> {"Score"}
    [] OTHER                                   -> {l}
ApplyShownWith(vis) == { l \in vis : ShownWith(l) \cap vis # {} }

\* the chain gate looks at the labels the run holds, not at the visible ones
ChainGate(vis, labels) ==
  IF labels \cap {"Abzu", "Duat"} = {} THEN vis
  ELSE vis \ ({"SunkenCity"} \cup (IF "Low" \in vis THEN {} ELSE {"Chain"}))

\* No% swallows No Gold before the chain gate and Low%, with all that Low%
\* hides, after it
NoSwallowsGold(vis) == IF "No" \in vis THEN vis \ {"NoGold"} ELSE vis
NoSwallowsLow(vis) ==
  IF "No" \in vis THEN vis \ {"Low", "NoTeleporter", "NoJetpack", "Any"}
  ELSE vis

\* visible as it would be if No% only swallowed No Gold
VisibleLowKept(labels, hideEarly, excluded) ==
  LET v1 == ScoreOnly(labels \ excluded)
      v2 == IF hideEarly THEN v1 \ HideEarly ELSE v1
      v3 == NoSwallowsGold(ApplyShownWith(ApplyHides(v2)))
  IN  ChainGate(v3, labels)

Visible(labels, hideEarly, excluded) ==
  LET v1 == ScoreOnly(labels \ excluded)
      v2 == IF hideEarly THEN v1 \ HideEarly ELSE v1
      v3 == NoSwallowsGold(ApplyShownWith(ApplyHides(v2)))
  IN  NoSwallowsLow(ChainGate(v3, labels))

(***************************************************************************)
(* percent: the label with the percent sign.  The loop panics when a label *)
(* has the same priority as the best one before it.                        *)
(***************************************************************************)
Eligible(vis) == { l \in vis : Priority(l) > 0 }

Rank(l) == CHOOSE i \in DOMAIN LabelOrder : LabelOrder[i] = l

PercentPanics(vis) ==
  \E a, b \in Eligible(vis) :
    /\ Rank(a) < Rank(b)
    /\ Priority(a) = Priority(b)
    /\ \A c \in Eligible(vis) : Rank(c) < Rank(b) => Priority(c) <= Priority(b)

\* RunLabel::text: the labels of the text and the one with the sign
Text(labels, hideEarly, excluded) ==
  LET vis == Visible(labels, hideEarly, excluded) IN
  [ shown   |-> vis,
    percent |-> { l \in Eligible(vis) :
                    \A c \in Eligible(vis) : Priority(c) <= Priority(l) } ]
=============================================================================
