------------------------ MODULE CategoryTrackerProofs ------------------------
(***************************************************************************)
(* For every set of samples of the game, in any order a run allows: the    *)
(* category tracker keeps its types, its labels stay consistent with each  *)
(* other, with the terminus, with the sunken chains and with Low%, and a   *)
(* run does what CategoryRun promises.                                     *)
(*                                                                         *)
(* The argument is by transformers.  All but four methods of RunState are  *)
(* `Mild`: they leave the chains, the terminus and the labels of both      *)
(* alone, only lose modifiers and keep what Low% needs.  Mild is           *)
(* transitive, so the long composition Update is a Mild prefix, the        *)
(* steppers, a Mild middle, IsChain, a Mild tail and Terminus.             *)
(***************************************************************************)
EXTENDS CategoryTracker, FiniteSetTheorems, TLAPS

ChainLabel == {"Chain", "Abzu", "Duat"}

(* What Low% needs: the three conjuncts of LowNeedsItsChain of a run r *)
LowFacts(r) ==
  /\ r.lowIfChain /\ r.sunken # "InProgress" => ~r.low
  /\ r.low <=> "Low" \in r.labels
  /\ "No" \in r.labels => "Low" \in r.labels

(* s differs from r in what the chains and the terminus do not look at *)
Near(r, s) ==
  /\ s \in RunState
  /\ s.abzu = r.abzu /\ s.duat = r.duat /\ s.sunken = r.sunken
  /\ s.terminus = r.terminus
  /\ r.dead => s.dead
  /\ \A l \in Termini \cup ChainLabel : l \in s.labels <=> l \in r.labels
  /\ \A l \in StartModifiers : l \in s.labels => l \in r.labels

Mild(r, s) == Near(r, s) /\ (LowFacts(r) => LowFacts(s))

LEMMA NearSelf == ASSUME NEW r \in RunState PROVE Near(r, r) /\ Mild(r, r)
BY DEF Near, Mild

LEMMA NearTrans ==
  ASSUME NEW r, NEW s, NEW t, Near(r, s), Near(s, t)
  PROVE  Near(r, t)
BY DEF Near

LEMMA MildTrans ==
  ASSUME NEW r, NEW s, NEW t, Mild(r, s), Mild(s, t)
  PROVE  Mild(r, t)
BY NearTrans DEF Mild

LEMMA MildTyped ==
  ASSUME NEW r, NEW s, Mild(r, s)
  PROVE  s \in RunState
BY DEF Mild, Near

(***************************************************************************)
(* The three things done to labels                                         *)
(***************************************************************************)

(* adding a label that neither a chain nor the terminus owns *)
LEMMA AddMild ==
  ASSUME NEW r \in RunState, NEW l \in Label \ (Termini \cup ChainLabel)
  PROVE  /\ Mild(r, AddLabel(r, l))
         /\ AddLabel(r, l) = [r EXCEPT !.labels = Add(r.labels, l)]
<1>1. AddLabel(r, l) = [r EXCEPT !.labels = Add(r.labels, l)]
  BY DEF AddLabel
<1> DEFINE s == AddLabel(r, l)
<1>2. Add(r.labels, l) \in SUBSET Label
  BY DEF Add, RunState
<1>3. s \in RunState /\ s.labels = Add(r.labels, l)
  BY <1>1, <1>2 DEF RunState
<1>4. /\ s.abzu = r.abzu /\ s.duat = r.duat /\ s.sunken = r.sunken
      /\ s.terminus = r.terminus /\ s.dead = r.dead
      /\ s.low = r.low /\ s.lowIfChain = r.lowIfChain
  BY <1>1 DEF RunState
<1>5. \A k \in Termini \cup ChainLabel \cup StartModifiers :
        k \in s.labels <=> k \in r.labels
  BY <1>3 DEF Add, AddOk, StartModifiers, StartLabels
<1>6. "Low" \in StartModifiers /\ "No" \in StartModifiers
  BY DEF StartModifiers, StartLabels
<1> QED BY <1>1, <1>3, <1>4, <1>5, <1>6 DEF Mild, Near, LowFacts

(* dropping labels that neither a chain, the terminus nor Low% owns *)
LEMMA DropMild ==
  ASSUME NEW r \in RunState,
         NEW S \in SUBSET (Label \ (Termini \cup ChainLabel \cup {"Low"}))
  PROVE  Mild(r, DropLabels(r, S))
<1>1. DropLabels(r, S) = [r EXCEPT !.labels = r.labels \ S]
  BY DEF DropLabels, Discard
<1> DEFINE s == DropLabels(r, S)
<1>2. r.labels \ S \in SUBSET Label
  BY DEF RunState
<1>3. s \in RunState /\ s.labels = r.labels \ S
  BY <1>1, <1>2 DEF RunState
<1>4. /\ s.abzu = r.abzu /\ s.duat = r.duat /\ s.sunken = r.sunken
      /\ s.terminus = r.terminus /\ s.dead = r.dead
      /\ s.low = r.low /\ s.lowIfChain = r.lowIfChain
  BY <1>1 DEF RunState
<1> QED BY <1>3, <1>4 DEF Mild, Near, LowFacts

(* fail_low, from a run that is only Near the one before it *)
LEMMA FailMild ==
  ASSUME NEW r, NEW q, Near(r, q)
  PROVE  Mild(r, FailLow(q))
<1>0. q \in RunState
  BY DEF Near
<1>1. {"Low", "No"} \cap Termini = {}
  BY DEF Termini
<1>2. FailLow(q) = [q EXCEPT !.labels = q.labels \ {"Low", "No"}, !.low = FALSE]
  BY <1>0, <1>1 DEF FailLow, DropLabels, Discard, RunState
<1> DEFINE s == FailLow(q)
<1>3. q.labels \ {"Low", "No"} \in SUBSET Label
  BY <1>0 DEF RunState
<1>4. s \in RunState /\ s.labels = q.labels \ {"Low", "No"} /\ s.low = FALSE
  BY <1>0, <1>2, <1>3 DEF RunState
<1>5. /\ s.abzu = q.abzu /\ s.duat = q.duat /\ s.sunken = q.sunken
      /\ s.terminus = q.terminus /\ s.dead = q.dead
  BY <1>0, <1>2 DEF RunState
<1>6. \A l \in Termini \cup ChainLabel : l \notin {"Low", "No"}
  BY DEF Termini, ChainLabel
<1>7. Near(q, s)
  BY <1>4, <1>5, <1>6 DEF Near
<1>8. LowFacts(s)
  BY <1>4 DEF LowFacts
<1> QED BY <1>7, <1>8, NearTrans DEF Mild

LEMMA FailLowFacts ==
  ASSUME NEW q \in RunState
  PROVE  LowFacts(FailLow(q)) /\ FailLow(q) \in RunState
<1>1. {"Low", "No"} \cap Termini = {}
  BY DEF Termini
<1>2. FailLow(q) = [q EXCEPT !.labels = q.labels \ {"Low", "No"}, !.low = FALSE]
  BY <1>1 DEF FailLow, DropLabels, Discard, RunState
<1>3. q.labels \ {"Low", "No"} \in SUBSET Label
  BY DEF RunState
<1>4. /\ FailLow(q).labels = q.labels \ {"Low", "No"}
      /\ FailLow(q).low = FALSE /\ FailLow(q) \in RunState
  BY <1>2, <1>3 DEF RunState
<1> QED BY <1>4 DEF LowFacts

LEMMA FailSelf ==
  ASSUME NEW r \in RunState PROVE Mild(r, FailLow(r)) /\ FailLow(r) \in RunState
BY NearSelf, FailMild, MildTyped

(***************************************************************************)
(* The start of a tick                                                     *)
(***************************************************************************)
LEMMA GlobalStateMild ==
  ASSUME NEW r \in RunState, NEW in \in Sample
  PROVE  Mild(r, GlobalState(r, in))
<1> DEFINE s == GlobalState(r, in)
<1>1. in.stage.world \in Nat /\ in.stage.level \in Nat
  BY DEF Sample, Stage
<1>2. s \in RunState
  BY <1>1 DEF GlobalState, RunState
<1>3. /\ s.abzu = r.abzu /\ s.duat = r.duat /\ s.sunken = r.sunken
      /\ s.terminus = r.terminus /\ s.dead = r.dead /\ s.labels = r.labels
      /\ s.low = r.low /\ s.lowIfChain = r.lowIfChain
  BY DEF GlobalState, RunState
<1> QED BY <1>2, <1>3 DEF Mild, Near, LowFacts

LEMMA WorldThemesMild ==
  ASSUME NEW r \in RunState, NEW in \in Sample
  PROVE  Mild(r, WorldThemes(r, in))
<1> DEFINE w2 == World2(r, in)
           w4 == World4(r, in)
           r1 == [r EXCEPT !.world2 = w2, !.world4 = w4]
           r2 == When(w2 = "Volcana" /\ w4 = "Temple",
                      AddLabel(r1, "VolcanaTemple"), r1)
<1>1. w2 \in {"None", "Jungle", "Volcana"}
  BY DEF World2, RunState
<1>2. w4 \in {"None", "Temple", "TidePool"}
  BY DEF World4, RunState
<1> HIDE DEF w2, w4
<1>3. r1 \in RunState
  BY <1>1, <1>2 DEF RunState
<1>4. /\ r1.abzu = r.abzu /\ r1.duat = r.duat /\ r1.sunken = r.sunken
      /\ r1.terminus = r.terminus /\ r1.dead = r.dead /\ r1.labels = r.labels
      /\ r1.low = r.low /\ r1.lowIfChain = r.lowIfChain
  BY DEF RunState
<1>5. Mild(r, r1)
  BY <1>3, <1>4 DEF Mild, Near, LowFacts
<1> HIDE DEF r1
<1>6. {"VolcanaTemple", "JungleTemple"}
        \subseteq Label \ (Termini \cup ChainLabel \cup {"Low"})
  BY DEF Label, Termini, ChainLabel
<1>7. Mild(r1, r2)
  BY <1>3, <1>6, AddMild, NearSelf DEF When
<1>8. Mild(r, r2) /\ r2 \in RunState
  BY <1>5, <1>7, MildTrans, MildTyped
<1> HIDE DEF r2
<1>9. Mild(r2, AddLabel(r2, "JungleTemple"))
  BY <1>6, <1>8, AddMild
<1>10. Mild(r2, DropLabels(r2, {"JungleTemple"}))
  BY <1>6, <1>8, DropMild
<1>11. WorldThemes(r, in) \in
         {r, AddLabel(r2, "JungleTemple"), DropLabels(r2, {"JungleTemple"})}
  BY DEF WorldThemes, w2, w4, r1, r2
<1> QED BY <1>8, <1>9, <1>10, <1>11, MildTrans, NearSelf

LEMMA LevelStartMild ==
  ASSUME NEW r \in RunState, NEW in \in Sample
  PROVE  Mild(r, LevelStart(r, in))
<1> DEFINE r0 == WorldThemes(r, in)
           r1 == [r0 EXCEPT !.startRopes = r.ropes]
           r2 == When(r.ropes < 4, DropLabels(r1, {"No"}), r1)
           r3 == [r2 EXCEPT !.health = 4, !.poisoned = FALSE, !.cursed = FALSE]
<1>1. Mild(r, r0) /\ r0 \in RunState /\ r.ropes \in Nat
  BY WorldThemesMild, MildTyped DEF RunState
<1> HIDE DEF r0
<1>2. r1 \in RunState
  BY <1>1 DEF RunState
<1>3. /\ r1.abzu = r0.abzu /\ r1.duat = r0.duat /\ r1.sunken = r0.sunken
      /\ r1.terminus = r0.terminus /\ r1.dead = r0.dead
      /\ r1.labels = r0.labels
      /\ r1.low = r0.low /\ r1.lowIfChain = r0.lowIfChain
  BY <1>1 DEF RunState
<1>4. Mild(r0, r1)
  BY <1>2, <1>3 DEF Mild, Near, LowFacts
<1> HIDE DEF r1
<1>5. {"No"} \subseteq Label \ (Termini \cup ChainLabel \cup {"Low"})
  BY DEF Label, Termini, ChainLabel
<1>6. Mild(r1, r2) /\ r2 \in RunState
  BY <1>2, <1>5, DropMild, NearSelf, MildTyped DEF When
<1> HIDE DEF r2
<1>7. r3 \in RunState
  BY <1>6 DEF RunState
<1>8. /\ r3.abzu = r2.abzu /\ r3.duat = r2.duat /\ r3.sunken = r2.sunken
      /\ r3.terminus = r2.terminus /\ r3.dead = r2.dead
      /\ r3.labels = r2.labels
      /\ r3.low = r2.low /\ r3.lowIfChain = r2.lowIfChain
  BY <1>6 DEF RunState
<1>9. Mild(r2, r3)
  BY <1>7, <1>8 DEF Mild, Near, LowFacts
<1>10. LevelStart(r, in) \in {r2, r3}
  BY DEF LevelStart, When, r0, r1, r2
<1> QED BY <1>1, <1>4, <1>6, <1>9, <1>10, MildTrans

(* the items of the tick, and FinalDeath after them *)
LEMMA ItemsAndDeathMild ==
  ASSUME NEW r \in RunState, NEW in \in Sample
  PROVE  Mild(r, FinalDeath([r EXCEPT !.items = in.items \cap Remembered], in))
<1> DEFINE q == [r EXCEPT !.items = in.items \cap Remembered]
           s == [q EXCEPT !.dead = TRUE]
<1>1. q \in RunState /\ q.dead \in BOOLEAN
  BY DEF RunState
<1>2. /\ q.abzu = r.abzu /\ q.duat = r.duat /\ q.sunken = r.sunken
      /\ q.terminus = r.terminus /\ q.dead = r.dead /\ q.labels = r.labels
      /\ q.low = r.low /\ q.lowIfChain = r.lowIfChain
  BY DEF RunState
<1>3. Mild(r, q)
  BY <1>1, <1>2 DEF Mild, Near, LowFacts
<1> HIDE DEF q
<1>4. s \in RunState /\ s.dead = TRUE
  BY <1>1 DEF RunState
<1>5. /\ s.abzu = q.abzu /\ s.duat = q.duat /\ s.sunken = q.sunken
      /\ s.terminus = q.terminus /\ s.labels = q.labels
      /\ s.low = q.low /\ s.lowIfChain = q.lowIfChain
  BY <1>1 DEF RunState
<1>6. Mild(q, s)
  BY <1>4, <1>5 DEF Mild, Near, LowFacts
<1>7. FinalDeath(q, in) \in {q, s}
  BY DEF FinalDeath, When
<1> QED BY <1>3, <1>6, <1>7, MildTrans DEF q

LEMMA KnowUidMild ==
  ASSUME NEW r \in RunState, NEW in \in Sample
  PROVE  Mild(r, KnowUid(r, in))
<1> DEFINE s == [r EXCEPT !.uid = TRUE]
<1>1. s \in RunState
  BY DEF RunState
<1>2. /\ s.abzu = r.abzu /\ s.duat = r.duat /\ s.sunken = r.sunken
      /\ s.terminus = r.terminus /\ s.dead = r.dead /\ s.labels = r.labels
      /\ s.low = r.low /\ s.lowIfChain = r.lowIfChain
  BY DEF RunState
<1>3. Mild(r, s)
  BY <1>1, <1>2 DEF Mild, Near, LowFacts
<1> QED BY <1>3, NearSelf DEF KnowUid, When

(* the labels that detectors add and drop are not those of chain, terminus *)
(* and Low%                                                                *)
LEMMA FreeLabels ==
  {"NoJetpack", "NoTeleporter", "NoGold", "Pacifist", "IceCavesShortcut",
   "No", "Eggplant", "JungleTemple", "VolcanaTemple", "Millionaire",
   "TrueCrown", "Score", "NoCo"}
    = Label \ (Termini \cup ChainLabel \cup {"Low"})
BY DEF Label, Termini, ChainLabel

LEMMA ScoreAndIceMild ==
  ASSUME NEW r \in RunState, NEW in \in Sample, NEW started \in BOOLEAN
  PROVE  Mild(r, ScoreItems(r, in)) /\ Mild(r, IceCaves(r, in, started))
BY FreeLabels, AddMild, NearSelf DEF ScoreItems, IceCaves, When

(***************************************************************************)
(* The modifiers                                                           *)
(***************************************************************************)
LEMMA ModifyMild ==
  ASSUME NEW r \in RunState, NEW in \in Sample, NEW prev, NEW new
  PROVE  Mild(r, Modify(r, in, prev, new))
<1> DEFINE r1 == Pacifist(r, in)
           r2 == NoGold(r1, in)
           r3 == NoTp(r2, in, prev, new)
           r4 == EggplantLabel(r3)
           r5 == TrueCrown(r4, in)
<1>1. Mild(r, r1) /\ r1 \in RunState
  BY FreeLabels, DropMild, NearSelf, MildTyped DEF Pacifist, When
<1> HIDE DEF r1
<1>2. Mild(r1, r2) /\ r2 \in RunState
  BY <1>1, FreeLabels, DropMild, NearSelf, MildTyped DEF NoGold, When
<1> HIDE DEF r2
<1>3. Mild(r2, r3) /\ r3 \in RunState
  BY <1>2, FreeLabels, DropMild, NearSelf, MildTyped DEF NoTp, When
<1> HIDE DEF r3
<1>4. Mild(r3, r4) /\ r4 \in RunState
  BY <1>3, FreeLabels, DropMild, AddMild, MildTyped DEF EggplantLabel
<1> HIDE DEF r4
<1>5. Mild(r4, r5) /\ r5 \in RunState
  BY <1>4, FreeLabels, AddMild, NearSelf, MildTyped DEF TrueCrown, When
<1> HIDE DEF r5
<1>6. Mild(r5, LowCosmic(r5))
  BY <1>5, FailSelf, NearSelf DEF LowCosmic, When
<1>7. Modify(r, in, prev, new) = LowCosmic(r5)
  BY DEF Modify, r1, r2, r3, r4, r5
<1> QED BY <1>1, <1>2, <1>3, <1>4, <1>5, <1>6, <1>7, MildTrans

(***************************************************************************)
(* The low% detectors                                                      *)
(***************************************************************************)

(* remembering that Low% leans on a chain is Near, and Mild while the chain *)
(* is open                                                                  *)
LEMMA LeanNear ==
  ASSUME NEW r \in RunState, NEW q \in RunState,
         q.labels = r.labels, q.low = r.low, q.sunken = r.sunken,
         q.abzu = r.abzu, q.duat = r.duat, q.terminus = r.terminus,
         q.dead = r.dead
  PROVE  /\ Near(r, q)
         /\ q.sunken = "InProgress" \/ q.lowIfChain = r.lowIfChain => Mild(r, q)
BY DEF Near, Mild, LowFacts

LEMMA MountedTameMild ==
  ASSUME NEW r \in RunState, NEW in \in Sample
  PROVE  Mild(r, MountedTame(r, in))
<1> DEFINE q == [r EXCEPT !.lowIfChain = TRUE]
<1>1. q \in RunState
  BY DEF RunState
<1>2. /\ q.abzu = r.abzu /\ q.duat = r.duat /\ q.sunken = r.sunken
      /\ q.terminus = r.terminus /\ q.dead = r.dead /\ q.labels = r.labels
      /\ q.low = r.low
  BY DEF RunState
<1>3. Near(r, q) /\ (r.sunken = "InProgress" => Mild(r, q))
  BY <1>1, <1>2, LeanNear
<1>4. Mild(r, FailLow(q)) /\ Mild(r, FailLow(r)) /\ Mild(r, r)
  BY <1>3, FailMild, FailSelf, NearSelf
<1>5. MountedTame(r, in) \in {r, FailLow(r), FailLow(q)}
        \/ (MountedTame(r, in) = q /\ r.sunken = "InProgress")
  BY DEF MountedTame, When, q
<1> QED BY <1>3, <1>4, <1>5

LEMMA ResourcesMild ==
  ASSUME NEW r \in RunState, NEW in \in Sample
  PROVE  Mild(r, Resources(r, in))
<1> DEFINE r1 == When(Gained(r, in), FailLow(r), r)
           r2 == When(Used(in), DropLabels(r1, {"No"}), r1)
           r3 == [r2 EXCEPT !.health = in.health, !.bombs = in.bombs,
                            !.ropes = in.ropes]
<1>1. Mild(r, r1) /\ r1 \in RunState
  BY FailSelf, NearSelf, MildTyped DEF When
<1> HIDE DEF r1
<1>2. Mild(r1, r2) /\ r2 \in RunState
  BY <1>1, FreeLabels, DropMild, NearSelf, MildTyped DEF When
<1> HIDE DEF r2
<1>3. in.health \in Nat /\ in.bombs \in Nat /\ in.ropes \in Nat
  BY DEF Sample
<1>4. r3 \in RunState
  BY <1>2, <1>3 DEF RunState
<1>5. /\ r3.abzu = r2.abzu /\ r3.duat = r2.duat /\ r3.sunken = r2.sunken
      /\ r3.terminus = r2.terminus /\ r3.dead = r2.dead
      /\ r3.labels = r2.labels
      /\ r3.low = r2.low /\ r3.lowIfChain = r2.lowIfChain
  BY <1>2 DEF RunState
<1>6. Mild(r2, r3)
  BY <1>2, <1>4, <1>5, LeanNear
<1>7. Resources(r, in) \in {r, r3}
  BY DEF Resources, When, r1, r2
<1> QED BY <1>1, <1>2, <1>6, <1>7, MildTrans, NearSelf

LEMMA StatusEffectsMild ==
  ASSUME NEW r \in RunState, NEW in \in Sample
  PROVE  Mild(r, StatusEffects(r, in))
<1> DEFINE f == FailLow(r)
           s(q) == [q EXCEPT !.poisoned = Has(in, "Poison"),
                             !.cursed = Has(in, "Curse")]
<1>1. \A q \in RunState : Mild(q, s(q))
  <2> SUFFICES ASSUME NEW q \in RunState PROVE Mild(q, s(q))
    OBVIOUS
  <2>1. Has(in, "Poison") \in BOOLEAN /\ Has(in, "Curse") \in BOOLEAN
    BY DEF Has
  <2>2. s(q) \in RunState
    BY <2>1 DEF RunState
  <2>3. /\ s(q).abzu = q.abzu /\ s(q).duat = q.duat /\ s(q).sunken = q.sunken
        /\ s(q).terminus = q.terminus /\ s(q).dead = q.dead
        /\ s(q).labels = q.labels
        /\ s(q).low = q.low /\ s(q).lowIfChain = q.lowIfChain
    BY DEF RunState
  <2> QED BY <2>2, <2>3, LeanNear
<1>2. Mild(r, f) /\ f \in RunState
  BY FailSelf
<1>3. StatusEffects(r, in) \in {r, s(r), s(f)}
  BY DEF StatusEffects, When
<1>4. Mild(r, s(r)) /\ Mild(f, s(f)) /\ Mild(r, r)
  BY <1>1, <1>2, NearSelf
<1> HIDE DEF s, f
<1>5. Mild(r, s(f))
  BY <1>2, <1>4, MildTrans
<1> QED BY <1>3, <1>4, <1>5

LEMMA HadCloverMild ==
  ASSUME NEW r \in RunState, NEW in \in Sample, NEW started \in BOOLEAN,
         NEW new
  PROVE  Mild(r, HadClover(r, in, started, new))
<1> DEFINE q == [r EXCEPT !.ghost = (~started /\ @) \/ "Ghost" \in new]
<1>1. ((~started /\ r.ghost) \/ "Ghost" \in new) \in BOOLEAN
  OBVIOUS
<1>2. q \in RunState
  BY <1>1 DEF RunState
<1>3. /\ q.abzu = r.abzu /\ q.duat = r.duat /\ q.sunken = r.sunken
      /\ q.terminus = r.terminus /\ q.dead = r.dead /\ q.labels = r.labels
      /\ q.low = r.low /\ q.lowIfChain = r.lowIfChain
  BY DEF RunState
<1>4. Mild(r, q)
  BY <1>2, <1>3, LeanNear
<1>5. HadClover(r, in, started, new) \in {r, q, FailLow(q)}
  BY DEF HadClover, When
<1> QED BY <1>2, <1>4, <1>5, FailSelf, MildTrans, NearSelf

LEMMA BannedItemsMild ==
  ASSUME NEW r \in RunState, NEW in \in Sample
  PROVE  Mild(r, BannedItems(r, in))
<1> DEFINE r1 == When(Has(in, "Jetpack"), DropLabels(r, {"NoJetpack"}), r)
<1>1. Mild(r, r1) /\ r1 \in RunState
  BY FreeLabels, DropMild, NearSelf, MildTyped DEF When
<1>2. BannedItems(r, in) \in {r1, FailLow(r1)}
  BY DEF BannedItems, When
<1> QED BY <1>1, <1>2, FailSelf, MildTrans

LEMMA AttackedMild ==
  ASSUME NEW r \in RunState, NEW in \in Sample, NEW prev
  PROVE  Mild(r, Attacked(r, in, prev))
<1> DEFINE lean == r.lowIfChain \/ AbzuExcalibur(in)
           moon == r.mattock \/ MoonMattock(in)
           q == [r EXCEPT !.lowIfChain = lean, !.mattock = moon]
<1>1. /\ lean \in BOOLEAN /\ moon \in BOOLEAN
      /\ r.lowIfChain \in BOOLEAN
      /\ ~AbzuExcalibur(in) => lean = r.lowIfChain
  BY DEF AbzuExcalibur, Has, RunState
<1> HIDE DEF lean, moon
<1>2. q \in RunState
  BY <1>1 DEF RunState
<1>3. /\ q.abzu = r.abzu /\ q.duat = r.duat /\ q.sunken = r.sunken
      /\ q.terminus = r.terminus /\ q.dead = r.dead /\ q.labels = r.labels
      /\ q.low = r.low
  BY DEF RunState
<1>4. q.lowIfChain = lean
  BY <1>1 DEF RunState
<1>5. ~AbzuExcalibur(in) => q.lowIfChain = r.lowIfChain
  BY <1>1, <1>4
<1>6. Near(r, q)
  BY <1>2, <1>3, LeanNear
<1>7. ~AbzuExcalibur(in) \/ r.sunken = "InProgress" => Mild(r, q)
  BY <1>2, <1>3, <1>5, LeanNear
<1> HIDE DEF q
<1>8. \/ Attacked(r, in, prev) \in {r, FailLow(q)}
      \/ /\ Attacked(r, in, prev) = q
         /\ ~AbzuExcalibur(in) \/ r.sunken = "InProgress"
  BY DEF Attacked, When, q, lean, moon
<1> QED BY <1>6, <1>7, <1>8, FailMild, NearSelf

LEMMA LowPercentMild ==
  ASSUME NEW r \in RunState, NEW in \in Sample, NEW prev,
         NEW started \in BOOLEAN, NEW new
  PROVE  Mild(r, LowPercent(r, in, prev, started, new))
<1> DEFINE r1 == MountedTame(r, in)
           r2 == Resources(r1, in)
           r3 == StatusEffects(r2, in)
           r4 == HadClover(r3, in, started, new)
           r5 == BannedItems(r4, in)
           r6 == Attacked(r5, in, prev)
<1>1. Mild(r, r1) /\ r1 \in RunState
  BY MountedTameMild, MildTyped
<1> HIDE DEF r1
<1>2. Mild(r1, r2) /\ r2 \in RunState
  BY <1>1, ResourcesMild, MildTyped
<1> HIDE DEF r2
<1>3. Mild(r2, r3) /\ r3 \in RunState
  BY <1>2, StatusEffectsMild, MildTyped
<1> HIDE DEF r3
<1>4. Mild(r3, r4) /\ r4 \in RunState
  BY <1>3, HadCloverMild, MildTyped
<1> HIDE DEF r4
<1>5. Mild(r4, r5) /\ r5 \in RunState
  BY <1>4, BannedItemsMild, MildTyped
<1> HIDE DEF r5
<1>6. Mild(r5, r6) /\ r6 \in RunState
  BY <1>5, AttackedMild, MildTyped
<1> HIDE DEF r6
<1>7. Mild(r6, AttackedWithThrowables(r6, in, prev))
  BY <1>6, FailSelf, NearSelf DEF AttackedWithThrowables, When
<1>8. LowPercent(r, in, prev, started, new)
        = AttackedWithThrowables(r6, in, prev)
  BY DEF LowPercent, r1, r2, r3, r4, r5, r6
<1> QED
  BY <1>1, <1>2, <1>3, <1>4, <1>5, <1>6, <1>7, <1>8, MildTrans

(***************************************************************************)
(* The chains                                                              *)
(***************************************************************************)

(* the chain labels and the quest of a run, against the steps of the chains *)
ChainFacts(labels, sunken, a, d) ==
  /\ a = "Unstarted" <=> d = "Unstarted"
  /\ "Chain" \in labels <=> InProgress(a) \/ InProgress(d)
  /\ "Abzu" \in labels => InProgress(a) /\ d = "Failed"
  /\ "Duat" \in labels => InProgress(d) /\ a = "Failed"
  /\ sunken = "Failed" <=> a = "Failed" /\ d = "Failed"
  /\ sunken = "Unstarted" <=> a = "Unstarted"

(* a step never goes back to the start, and failed is final *)
Advance(a, b) ==
  /\ a # "Unstarted" => b # "Unstarted"
  /\ a = "Failed" => b = "Failed"

LEMMA AbzuAdvances ==
  ASSUME NEW a \in AbzuSteps, NEW in
  PROVE  AbzuStep(a, in) \in AbzuSteps /\ Advance(a, AbzuStep(a, in))
BY DEF AbzuSteps, Advance, AbzuStep, AbzuStart, CollectHeadwear, CollectAnkh,
       CollectTablet, CarryUshabti, WinViaHundunOrCo, FirstOf

LEMMA DuatAdvances ==
  ASSUME NEW d \in DuatSteps, NEW in
  PROVE  DuatStep(d, in) \in DuatSteps /\ Advance(d, DuatStep(d, in))
BY DEF DuatSteps, Advance, DuatStep, DuatStart, CollectHeadwear, CollectAnkh,
       CarryScepter, VisitCityOfGold, KeepAnkh, CollectTablet, CarryUshabti,
       WinViaHundunOrCo, FirstOf

(* two files, one start *)
LEMMA ChainsStartTogether ==
  ASSUME NEW a \in AbzuSteps, NEW d \in DuatSteps, NEW in,
         a = "Unstarted" <=> d = "Unstarted"
  PROVE  AbzuStep(a, in) = "Unstarted" <=> DuatStep(d, in) = "Unstarted"
<1>1. CASE a = "Unstarted"
  BY <1>1 DEF AbzuStep, DuatStep, AbzuStart, DuatStart, FirstOf
<1>2. CASE a # "Unstarted"
  BY <1>2, AbzuAdvances, DuatAdvances DEF Advance
<1> QED BY <1>1, <1>2

LEMMA CosmicTyped ==
  ASSUME NEW c \in CosmicSteps, NEW in
  PROVE  CosmicStep(c, in) \in CosmicSteps
BY DEF CosmicSteps, CosmicStep, CarryBow, FirstOf

LEMMA EggplantTyped ==
  ASSUME NEW e \in EggplantSteps, NEW in
  PROVE  EggplantStep(e, in) \in EggplantSteps
BY DEF EggplantSteps, EggplantStep, CollectEggplant, CarryEggplant, GuideChild,
       FirstOf

LEMMA SteppersStep ==
  ASSUME NEW r \in RunState, NEW in
  PROVE  LET s == Steppers(r, in) IN
         /\ s \in RunState
         /\ s.abzu = AbzuStep(r.abzu, in) /\ s.duat = DuatStep(r.duat, in)
         /\ s.labels = r.labels /\ s.sunken = r.sunken
         /\ s.terminus = r.terminus /\ s.dead = r.dead
         /\ s.low = r.low /\ s.lowIfChain = r.lowIfChain
<1> DEFINE a == AbzuStep(r.abzu, in)
           d == DuatStep(r.duat, in)
           c == CosmicStep(r.cosmic, in)
           e == EggplantStep(r.eggplant, in)
<1>1. /\ r.abzu \in AbzuSteps /\ r.duat \in DuatSteps
      /\ r.cosmic \in CosmicSteps /\ r.eggplant \in EggplantSteps
  BY DEF RunState
<1>2. /\ a \in AbzuSteps /\ d \in DuatSteps
      /\ c \in CosmicSteps /\ e \in EggplantSteps
  BY <1>1, AbzuAdvances, DuatAdvances, CosmicTyped, EggplantTyped
<1>3. Steppers(r, in) = [r EXCEPT !.abzu = a, !.duat = d, !.cosmic = c,
                                  !.eggplant = e]
  BY DEF Steppers
<1> HIDE DEF a, d, c, e
<1>4. [r EXCEPT !.abzu = a, !.duat = d, !.cosmic = c, !.eggplant = e]
        \in RunState
  BY <1>2 DEF RunState
<1>5. Steppers(r, in).abzu = a /\ Steppers(r, in).duat = d
  BY <1>3 DEF RunState
<1>6. LET s == Steppers(r, in) IN
         /\ s.labels = r.labels /\ s.sunken = r.sunken
         /\ s.terminus = r.terminus /\ s.dead = r.dead
         /\ s.low = r.low /\ s.lowIfChain = r.lowIfChain
  BY <1>3 DEF RunState
<1> QED BY <1>3, <1>4, <1>5, <1>6 DEF a, d

LEMMA ChainPowerupMild ==
  ASSUME NEW r \in RunState, NEW in \in Sample
  PROVE  Mild(r, ChainPowerup(r, in))
<1> DEFINE ankh == r.ankh \/ Has(in, "Ankh")
           q == [r EXCEPT !.ankh = ankh]
<1>1. ankh \in BOOLEAN
  BY DEF Has, RunState
<1>2. ChainPowerup(r, in) \in {q, FailLow(q)}
  BY DEF ChainPowerup, When
<1> HIDE DEF ankh
<1>3. q \in RunState
  BY <1>1 DEF RunState
<1>4. /\ q.abzu = r.abzu /\ q.duat = r.duat /\ q.sunken = r.sunken
      /\ q.terminus = r.terminus /\ q.dead = r.dead /\ q.labels = r.labels
      /\ q.low = r.low /\ q.lowIfChain = r.lowIfChain
  BY DEF RunState
<1>5. Mild(r, q)
  BY <1>3, <1>4, LeanNear
<1> QED BY <1>2, <1>3, <1>5, FailSelf, MildTrans

(* what update_is_chain may change: the chain labels and the quest *)
Quested(r, L, q, b) ==
  [r EXCEPT !.labels = L, !.sunken = q, !.lowIfChain = b]

LEMMA QuestedIs ==
  ASSUME NEW r \in RunState, NEW L \in SUBSET Label,
         NEW q \in {"Unstarted", "InProgress", "Failed"}, NEW b \in BOOLEAN
  PROVE  /\ Quested(r, L, q, b) \in RunState
         /\ Quested(r, L, q, b).labels = L
         /\ Quested(r, L, q, b).sunken = q
         /\ Quested(r, L, q, b).lowIfChain = b
         /\ Quested(r, L, q, b).abzu = r.abzu
         /\ Quested(r, L, q, b).duat = r.duat
         /\ Quested(r, L, q, b).terminus = r.terminus
         /\ Quested(r, L, q, b).dead = r.dead
         /\ Quested(r, L, q, b).low = r.low
<1> DEFINE s == Quested(r, L, q, b)
<1>1. s \in RunState
  BY DEF RunState, Quested
<1>2. s.labels = L /\ s.sunken = q /\ s.lowIfChain = b
  BY DEF RunState, Quested
<1>3. /\ s.abzu = r.abzu /\ s.duat = r.duat /\ s.terminus = r.terminus
      /\ s.dead = r.dead /\ s.low = r.low
  BY DEF RunState, Quested
<1> QED BY <1>1, <1>2, <1>3

(* r and s differ in the chain labels and the quest at most *)
Sides(r, s) ==
  /\ s \in RunState
  /\ s.abzu = r.abzu /\ s.duat = r.duat
  /\ s.terminus = r.terminus
  /\ r.dead => s.dead
  /\ \A l \in Termini : l \in s.labels <=> l \in r.labels
  /\ \A l \in StartModifiers : l \in s.labels => l \in r.labels
  /\ LowFacts(r) => LowFacts(s)

(* update_is_chain, after the steppers went from a and d to r.abzu, r.duat *)
LEMMA IsChainStep ==
  ASSUME NEW r \in RunState, NEW a \in AbzuSteps, NEW d \in DuatSteps,
         ChainFacts(r.labels, r.sunken, a, d),
         Advance(a, r.abzu), Advance(d, r.duat),
         r.abzu = "Unstarted" <=> r.duat = "Unstarted"
  PROVE  LET s == IsChain(r) IN
         /\ Sides(r, s)
         /\ ChainFacts(s.labels, s.sunken, s.abzu, s.duat)
         /\ r.sunken = "Failed" => s.sunken = "Failed"
         /\ r.sunken = "InProgress" => s.sunken # "Unstarted"
<1> DEFINE Goal0(s) ==
         /\ Sides(r, s)
         /\ ChainFacts(s.labels, s.sunken, s.abzu, s.duat)
         /\ r.sunken = "Failed" => s.sunken = "Failed"
         /\ r.sunken = "InProgress" => s.sunken # "Unstarted"
<1> SUFFICES Goal0(IsChain(r))
  OBVIOUS
<1>a. /\ r.labels \in SUBSET Label /\ r.lowIfChain \in BOOLEAN
      /\ r.sunken \in {"Unstarted", "InProgress", "Failed"}
      /\ r.low \in BOOLEAN
  BY DEF RunState
<1>b. ChainLabel \subseteq Label /\ ChainLabel \cap Termini = {}
      /\ ChainLabel \cap StartModifiers = {} /\ {"Low", "No"} \cap ChainLabel = {}
  BY DEF ChainLabel, Label, Termini, StartModifiers, StartLabels
<1>1. CASE r.sunken = "Failed"
  <2>1. r.abzu = "Failed" /\ r.duat = "Failed" /\ IsChain(r) = r
    BY <1>1 DEF ChainFacts, Advance, IsChain
  <2>2. ChainFacts(r.labels, r.sunken, r.abzu, r.duat)
    BY <1>1, <2>1 DEF ChainFacts
  <2>3. Sides(r, r)
    BY DEF Sides
  <2> QED BY <1>1, <2>1, <2>2, <2>3
<1>2. CASE r.sunken # "Failed" /\ r.abzu = "Unstarted"
  <2> DEFINE s == Quested(r, r.labels, "Unstarted", r.lowIfChain)
  <2>1. IsChain(r) = [r EXCEPT !.sunken = "Unstarted"]
    BY <1>2 DEF IsChain
  <2>2. [r EXCEPT !.sunken = "Unstarted"] = s
    BY <1>a DEF RunState, Quested
  <2>3. /\ s \in RunState
        /\ s.labels = r.labels /\ s.sunken = "Unstarted"
        /\ s.lowIfChain = r.lowIfChain
        /\ s.abzu = r.abzu /\ s.duat = r.duat /\ s.terminus = r.terminus
        /\ s.dead = r.dead /\ s.low = r.low
    BY <1>a, QuestedIs
  <2> HIDE DEF s
  <2>4. r.sunken = "Unstarted" /\ a = "Unstarted" /\ d = "Unstarted"
    BY <1>2, <1>a DEF ChainFacts, Advance
  <2>5. Sides(r, s)
    BY <2>3, <2>4 DEF Sides, LowFacts
  <2>6. ChainFacts(s.labels, s.sunken, s.abzu, s.duat)
    BY <1>2, <2>3, <2>4 DEF ChainFacts, InProgress, Status
  <2> QED BY <2>1, <2>2, <2>3, <2>4, <2>5, <2>6
<1>3. CASE /\ r.sunken # "Failed"
           /\ r.abzu = "Failed" /\ r.duat = "Failed"
  <2> DEFINE s == Quested(r, r.labels \ ChainLabel, "Failed", r.lowIfChain)
             t == FailLow(s)
  <2>1. IsChain(r) = ChainsFailed(r)
    BY <1>3 DEF IsChain
  <2>2. DropLabels(r, ChainLabel) = [r EXCEPT !.labels = r.labels \ ChainLabel]
    BY <1>b DEF DropLabels, Discard
  <2>3. [DropLabels(r, ChainLabel) EXCEPT !.sunken = "Failed"] = s
    BY <1>a, <2>2 DEF RunState, Quested
  <2>4. r.labels \ ChainLabel \in SUBSET Label
    BY <1>a
  <2>5. s.lowIfChain = r.lowIfChain
    BY <1>a, <2>4, QuestedIs
  <2>6. ChainsFailed(r) = IF r.lowIfChain THEN t ELSE s
    BY <2>3 DEF ChainsFailed, When, ChainLabel
  <2>7. /\ s \in RunState
        /\ s.labels = r.labels \ ChainLabel /\ s.sunken = "Failed"
        /\ s.abzu = r.abzu /\ s.duat = r.duat /\ s.terminus = r.terminus
        /\ s.dead = r.dead /\ s.low = r.low
    BY <1>a, <2>4, QuestedIs
  <2> HIDE DEF s
  <2>8. Mild(s, t)
    BY <2>7, FailSelf
  <2>9. "Chain" \notin s.labels /\ "Abzu" \notin s.labels
        /\ "Duat" \notin s.labels
    BY <2>7 DEF ChainLabel
  <2>10. ChainFacts(s.labels, s.sunken, s.abzu, s.duat)
    BY <1>3, <2>7, <2>9 DEF ChainFacts, InProgress, Status
  <2>11. ChainFacts(t.labels, t.sunken, t.abzu, t.duat)
    BY <2>8, <2>10 DEF ChainFacts, Mild, Near, ChainLabel
  <2>12. CASE r.lowIfChain
    <3>1. LowFacts(t) /\ t \in RunState
      BY <2>7, FailLowFacts
    <3>2. Sides(r, t)
      BY <1>b, <2>7, <2>8, <3>1 DEF Sides, Mild, Near
    <3> QED
      BY <2>1, <2>6, <2>7, <2>8, <2>11, <2>12, <3>2 DEF Mild, Near
  <2>13. CASE ~r.lowIfChain
    <3>1. Sides(r, s)
      BY <1>b, <2>5, <2>7, <2>13 DEF Sides, LowFacts
    <3> QED BY <2>1, <2>6, <2>7, <2>10, <2>13, <3>1
  <2> QED BY <2>12, <2>13
<1>4. CASE /\ r.sunken # "Failed" /\ r.abzu # "Unstarted"
           /\ ~(r.abzu = "Failed" /\ r.duat = "Failed")
  <2>0. PICK yes \in BOOLEAN : yes = TRUE
    OBVIOUS
  <2> DEFINE with(X) == Quested(r, r.labels \cup X, "InProgress", yes)
             r1 == [AddLabel(r, "Chain") EXCEPT !.sunken = "InProgress",
                                                !.lowIfChain = TRUE]
  <2>1. IsChain(r) = ChainLabels(r)
    BY <1>4 DEF IsChain
  <2>2. "Chain" \in AddOk \ Termini /\ "Abzu" \in AddOk \ Termini
        /\ "Duat" \in AddOk \ Termini
    BY DEF AddOk, Termini, Label, StartLabels
  <2>3. r1 = with({"Chain"})
    BY <2>0, <2>2 DEF AddLabel, Add, RunState, Quested
  <2>4. \A X \in SUBSET ChainLabel :
          /\ with(X) \in RunState
          /\ with(X).labels = r.labels \cup X /\ with(X).sunken = "InProgress"
          /\ with(X).abzu = r.abzu /\ with(X).duat = r.duat
          /\ with(X).terminus = r.terminus
          /\ with(X).dead = r.dead /\ with(X).low = r.low
    <3> SUFFICES ASSUME NEW X \in SUBSET ChainLabel
                 PROVE
          /\ with(X) \in RunState
          /\ with(X).labels = r.labels \cup X /\ with(X).sunken = "InProgress"
          /\ with(X).abzu = r.abzu /\ with(X).duat = r.duat
          /\ with(X).terminus = r.terminus
          /\ with(X).dead = r.dead /\ with(X).low = r.low
      OBVIOUS
    <3>1. r.labels \cup X \in SUBSET Label
      BY <1>a, <1>b
    <3>2. "InProgress" \in {"Unstarted", "InProgress", "Failed"}
      OBVIOUS
    <3> DEFINE L == r.labels \cup X
    <3> HIDE DEF L
    <3>3. L \in SUBSET Label
      BY <3>1 DEF L
    <3>4. LET s == Quested(r, L, "InProgress", yes) IN
          /\ s \in RunState
          /\ s.labels = L /\ s.sunken = "InProgress"
          /\ s.abzu = r.abzu /\ s.duat = r.duat
          /\ s.terminus = r.terminus
          /\ s.dead = r.dead /\ s.low = r.low
      BY <3>2, <3>3, QuestedIs
    <3> QED BY <3>4 DEF L
  <2>5. AddLabel(r1, "Abzu") = with({"Chain", "Abzu"})
    <3>1. r1.labels = r.labels \cup {"Chain"} /\ {"Chain"} \in SUBSET ChainLabel
      BY <2>3, <2>4 DEF ChainLabel
    <3>2. r1.labels \cup {"Abzu"} = r.labels \cup {"Chain", "Abzu"}
      BY <3>1
    <3>3. AddLabel(r1, "Abzu") = [r1 EXCEPT !.labels = r1.labels \cup {"Abzu"}]
      BY <2>2 DEF AddLabel, Add
    <3>4. AddLabel(r1, "Abzu")
            = [r1 EXCEPT !.labels = r.labels \cup {"Chain", "Abzu"}]
      BY <3>2, <3>3
    <3> HIDE DEF r1
    <3> QED BY <2>0, <2>3, <3>4 DEF Quested, RunState
  <2>6. AddLabel(r1, "Duat") = with({"Chain", "Duat"})
    <3>1. r1.labels = r.labels \cup {"Chain"} /\ {"Chain"} \in SUBSET ChainLabel
      BY <2>3, <2>4 DEF ChainLabel
    <3>2. r1.labels \cup {"Duat"} = r.labels \cup {"Chain", "Duat"}
      BY <3>1
    <3>3. AddLabel(r1, "Duat") = [r1 EXCEPT !.labels = r1.labels \cup {"Duat"}]
      BY <2>2 DEF AddLabel, Add
    <3>4. AddLabel(r1, "Duat")
            = [r1 EXCEPT !.labels = r.labels \cup {"Chain", "Duat"}]
      BY <3>2, <3>3
    <3> HIDE DEF r1
    <3> QED BY <2>0, <2>3, <3>4 DEF Quested, RunState
  <2>7. \A X \in SUBSET ChainLabel : Sides(r, with(X))
    <3> SUFFICES ASSUME NEW X \in SUBSET ChainLabel PROVE Sides(r, with(X))
      OBVIOUS
    <3> DEFINE s == with(X)
    <3>1. /\ s \in RunState
          /\ s.labels = r.labels \cup X /\ s.sunken = "InProgress"
          /\ s.abzu = r.abzu /\ s.duat = r.duat /\ s.terminus = r.terminus
          /\ s.dead = r.dead /\ s.low = r.low
      BY <2>4
    <3>2. r.low \in BOOLEAN /\ "Low" \notin X /\ "No" \notin X
      BY <1>a, <1>b
    <3>3. /\ \A l \in Termini : l \notin X
          /\ \A l \in StartModifiers : l \notin X
      BY <1>b
    <3> HIDE DEF s
    <3>4. LowFacts(r) => LowFacts(s)
      BY <3>1, <3>2 DEF LowFacts
    <3>5. Sides(r, s)
      BY <3>1, <3>3, <3>4 DEF Sides
    <3> QED BY <3>5 DEF s
  <2>8. r.duat # "Unstarted"
    BY <1>4
  <2> HIDE DEF with
  <2>9. CASE InProgress(r.abzu) /\ InProgress(r.duat)
    <3>1. IsChain(r) = with({"Chain"})
      BY <2>1, <2>3, <2>9 DEF ChainLabels
    <3>2. {"Chain"} \in SUBSET ChainLabel
      BY DEF ChainLabel
    <3>3. ChainFacts(r.labels \cup {"Chain"}, "InProgress", r.abzu, r.duat)
      BY <1>4, <2>8, <2>9 DEF ChainFacts, Advance, InProgress, Status
    <3> QED BY <1>4, <2>4, <2>7, <3>1, <3>2, <3>3
  <2>10. CASE InProgress(r.abzu) /\ ~InProgress(r.duat)
    <3>1. IsChain(r) = with({"Chain", "Abzu"})
      BY <2>1, <2>5, <2>10 DEF ChainLabels
    <3>2. {"Chain", "Abzu"} \in SUBSET ChainLabel
      BY DEF ChainLabel
    <3>3. ChainFacts(r.labels \cup {"Chain", "Abzu"}, "InProgress", r.abzu, r.duat)
      BY <1>4, <2>8, <2>10 DEF ChainFacts, Advance, InProgress, Status
    <3> QED BY <1>4, <2>4, <2>7, <3>1, <3>2, <3>3
  <2>11. CASE ~InProgress(r.abzu)
    <3>0. InProgress(r.duat)
      BY <1>4, <2>8, <2>11 DEF InProgress, Status
    <3>1. IsChain(r) = with({"Chain", "Duat"})
      BY <2>1, <2>6, <2>11, <3>0 DEF ChainLabels
    <3>2. {"Chain", "Duat"} \in SUBSET ChainLabel
      BY DEF ChainLabel
    <3>3. ChainFacts(r.labels \cup {"Chain", "Duat"}, "InProgress", r.abzu, r.duat)
      BY <1>4, <2>8, <2>11, <3>0 DEF ChainFacts, Advance, InProgress, Status
    <3> QED BY <1>4, <2>4, <2>7, <3>1, <3>2, <3>3
  <2> QED BY <2>9, <2>10, <2>11
<1> QED BY <1>1, <1>2, <1>3, <1>4

(***************************************************************************)
(* The end of a tick                                                       *)
(***************************************************************************)
LEMMA RopeMild ==
  ASSUME NEW r \in RunState, NEW in \in Sample, NEW new
  PROVE  Mild(r, RopeDeployed(r, in, new))
BY FreeLabels, DropMild, NearSelf DEF RopeDeployed, When

LEMMA MillionaireMild ==
  ASSUME NEW r \in RunState, NEW in \in Sample
  PROVE  Mild(r, Millionaire(r, in))
<1> DEFINE r1 == IF in.rich THEN AddLabel(r, "Millionaire")
                 ELSE When(~r.clone \/ in.stage.win # "NoWin",
                           DropLabels(r, {"Millionaire"}), r)
           r2 == AddLabel(r1, "Millionaire")
           r3 == [r2 EXCEPT !.clone = TRUE]
<1>1. Mild(r, r1) /\ r1 \in RunState
  BY FreeLabels, AddMild, DropMild, NearSelf, MildTyped DEF When
<1>2. Millionaire(r, in) \in {r1, r3}
  BY DEF Millionaire, When
<1> HIDE DEF r1
<1>3. Mild(r1, r2) /\ r2 \in RunState
  BY <1>1, FreeLabels, AddMild, MildTyped
<1> HIDE DEF r2
<1>4. r3 \in RunState
  BY <1>3 DEF RunState
<1>5. /\ r3.abzu = r2.abzu /\ r3.duat = r2.duat /\ r3.sunken = r2.sunken
      /\ r3.terminus = r2.terminus /\ r3.dead = r2.dead
      /\ r3.labels = r2.labels
      /\ r3.low = r2.low /\ r3.lowIfChain = r2.lowIfChain
  BY <1>3 DEF RunState
<1>6. Mild(r2, r3)
  BY <1>3, <1>4, <1>5, LeanNear
<1>7. Mild(r, r3)
  BY <1>1, <1>3, <1>6, MildTrans
<1> HIDE DEF r3
<1> QED BY <1>1, <1>2, <1>7

LEMMA GoalIsTerminus ==
  ASSUME NEW r, NEW in PROVE Goal(r, in) \in Termini
BY DEF Goal, Termini

(* update_terminus: the terminus and its label change together *)
LEMMA TerminusStep ==
  ASSUME NEW r \in RunState, NEW in \in Sample,
         r.labels \cap Termini = {r.terminus}
  PROVE  LET s == Terminus(r, in) IN
         /\ s \in RunState
         /\ s.labels \cap Termini = {s.terminus}
         /\ s.abzu = r.abzu /\ s.duat = r.duat /\ s.sunken = r.sunken
         /\ r.dead => s.dead
         /\ \A l \in ChainLabel : l \in s.labels <=> l \in r.labels
         /\ \A l \in StartModifiers : l \in s.labels => l \in r.labels
         /\ LowFacts(r) => LowFacts(s)
<1> DEFINE goal == Goal(r, in)
           q == IF goal = "CosmicOcean" THEN DropLabels(r, {"NoCo"})
                ELSE AddLabel(r, "NoCo")
           L == SetTerminus(q.labels, q.terminus, goal)
           s == [q EXCEPT !.labels = L, !.terminus = goal]
<1>1. goal \in Termini
  BY GoalIsTerminus
<1>2. Terminus(r, in) = s
  BY DEF Terminus, WithTerminus
<1> HIDE DEF goal
<1>3. Mild(r, q) /\ q \in RunState
  BY FreeLabels, AddMild, DropMild, MildTyped
<1> HIDE DEF q
<1>4. q.labels \cap Termini = {q.terminus} /\ q.labels \in SUBSET Label
  BY <1>3 DEF Mild, Near, RunState
<1>5. /\ L \in SUBSET Label
      /\ L \cap Termini = {goal}
      /\ \A l \in Label \ Termini : l \in L <=> l \in q.labels
  <2>1. Termini \subseteq Label
    BY DEF Termini, Label
  <2>2. CASE goal = q.terminus
    BY <1>4, <2>2 DEF SetTerminus
  <2>3. CASE goal # q.terminus
    BY <1>1, <1>4, <2>1, <2>3 DEF SetTerminus
  <2> QED BY <2>2, <2>3
<1> HIDE DEF L
<1>6. s \in RunState /\ s.labels = L /\ s.terminus = goal
  BY <1>1, <1>3, <1>5 DEF RunState
<1>7. /\ s.abzu = q.abzu /\ s.duat = q.duat /\ s.sunken = q.sunken
      /\ s.dead = q.dead /\ s.low = q.low /\ s.lowIfChain = q.lowIfChain
  BY <1>3 DEF RunState
<1>8. /\ ChainLabel \subseteq Label \ Termini
      /\ StartModifiers \subseteq Label \ Termini
      /\ "Low" \in Label \ Termini /\ "No" \in Label \ Termini
  BY DEF ChainLabel, StartModifiers, StartLabels, Label, Termini
<1> HIDE DEF s
<1>9. LowFacts(q) => LowFacts(s)
  BY <1>5, <1>6, <1>7, <1>8 DEF LowFacts
<1> QED BY <1>2, <1>3, <1>5, <1>6, <1>7, <1>8, <1>9 DEF Mild, Near

(***************************************************************************)
(* A tick                                                                  *)
(***************************************************************************)

(* all that is known of a run *)
RunFacts(r) ==
  /\ r \in RunState
  /\ LowFacts(r)
  /\ ChainFacts(r.labels, r.sunken, r.abzu, r.duat)
  /\ r.labels \cap Termini = {r.terminus}

(* what CategoryRun allows a look to do to a run *)
Kept(r, s) ==
  /\ s.labels \cap StartModifiers \subseteq r.labels \cap StartModifiers
  /\ r.sunken = "Failed" => s.sunken = "Failed"
  /\ r.sunken = "InProgress" => s.sunken # "Unstarted"
  /\ r.dead => s.dead

LEMMA NewRunFacts == RunFacts(NewRunState)
<1>1. NewRunState \in RunState
  BY DEF NewRunState, RunState, StartLabels, Label, Termini, AbzuSteps,
         DuatSteps, CosmicSteps, EggplantSteps
<1>2. LowFacts(NewRunState)
  BY DEF NewRunState, LowFacts, StartLabels
<1>3. ChainFacts(NewRunState.labels, NewRunState.sunken, NewRunState.abzu,
                 NewRunState.duat)
  BY DEF NewRunState, ChainFacts, StartLabels, InProgress, Status
<1>4. NewRunState.labels \cap Termini = {NewRunState.terminus}
  BY DEF NewRunState, StartLabels, Termini
<1> QED BY <1>1, <1>2, <1>3, <1>4 DEF RunFacts

(* Observe is Mild up to the steppers *)
LEMMA ObserveStep ==
  ASSUME NEW r \in RunState, NEW in \in Sample, NEW started \in BOOLEAN
  PROVE  \E q : Mild(r, q) /\ Observe(r, in, started) = Steppers(q, in)
<1> DEFINE r0 == GlobalState(r, in)
           r1 == When(started, LevelStart(r0, in), r0)
           r2 == FinalDeath([r1 EXCEPT !.items = in.items \cap Remembered], in)
           r3 == KnowUid(r2, in)
           r4 == ScoreItems(r3, in)
           r5 == IceCaves(r4, in, started)
<1>1. Mild(r, r0) /\ r0 \in RunState
  BY GlobalStateMild, MildTyped
<1> HIDE DEF r0
<1>2. Mild(r0, r1) /\ r1 \in RunState
  BY <1>1, LevelStartMild, NearSelf, MildTyped DEF When
<1> HIDE DEF r1
<1>3. Mild(r1, r2) /\ r2 \in RunState
  BY <1>2, ItemsAndDeathMild, MildTyped
<1> HIDE DEF r2
<1>4. Mild(r2, r3) /\ r3 \in RunState
  BY <1>3, KnowUidMild, MildTyped
<1> HIDE DEF r3
<1>5. Mild(r3, r4) /\ r4 \in RunState
  BY <1>4, ScoreAndIceMild, MildTyped
<1> HIDE DEF r4
<1>6. Mild(r4, r5)
  BY <1>5, ScoreAndIceMild
<1> HIDE DEF r5
<1>7. Observe(r, in, started) = Steppers(r5, in)
  BY DEF Observe, r0, r1, r2, r3, r4, r5
<1> QED BY <1>1, <1>2, <1>3, <1>4, <1>5, <1>6, <1>7, MildTrans

LEMMA UpdateStep ==
  ASSUME NEW r, NEW in \in Sample, RunFacts(r)
  PROVE  RunFacts(Update(r, in)) /\ Kept(r, Update(r, in))
<1> DEFINE started == Started(r, in)
           new == NewEntities(r, in, started)
           s1 == Observe(r, in, started)
           s2 == Modify(s1, in, r.items, new)
           s3 == LowPercent(s2, in, r.items, started, new)
           s4 == ChainPowerup(s3, in)
           s5 == IsChain(s4)
           s6 == RopeDeployed(s5, in, new)
           s7 == Millionaire(s6, in)
           s8 == Terminus(s7, in)
<1>0. Update(r, in) = s8
  BY DEF Update, Conclude
<1>a. started \in BOOLEAN /\ r \in RunState
  BY DEF Started, RunFacts
<1> HIDE DEF started, new
<1>b. r.abzu \in AbzuSteps /\ r.duat \in DuatSteps
  BY <1>a DEF RunState
<1>1. PICK q : Mild(r, q) /\ s1 = Steppers(q, in)
  BY <1>a, ObserveStep
<1>2. q \in RunState /\ q.abzu = r.abzu /\ q.duat = r.duat
  BY <1>1 DEF Mild, Near
<1> HIDE DEF s1
<1>3. /\ s1 \in RunState
      /\ s1.abzu = AbzuStep(r.abzu, in) /\ s1.duat = DuatStep(r.duat, in)
      /\ s1.labels = q.labels /\ s1.sunken = q.sunken
      /\ s1.terminus = q.terminus /\ s1.dead = q.dead
      /\ s1.low = q.low /\ s1.lowIfChain = q.lowIfChain
  BY <1>1, <1>2, SteppersStep
<1>4. /\ Advance(r.abzu, s1.abzu) /\ Advance(r.duat, s1.duat)
      /\ s1.abzu = "Unstarted" <=> s1.duat = "Unstarted"
  BY <1>3, <1>b, AbzuAdvances, DuatAdvances, ChainsStartTogether
     DEF RunFacts, ChainFacts
<1>5. /\ \A l \in Termini \cup ChainLabel : l \in s1.labels <=> l \in r.labels
      /\ \A l \in StartModifiers : l \in s1.labels => l \in r.labels
      /\ s1.sunken = r.sunken /\ s1.terminus = r.terminus
      /\ r.dead => s1.dead
      /\ LowFacts(s1)
  BY <1>1, <1>3 DEF Mild, Near, LowFacts, RunFacts
<1>6. Mild(s1, s2) /\ s2 \in RunState
  BY <1>3, ModifyMild, MildTyped
<1> HIDE DEF s2
<1>7. Mild(s2, s3) /\ s3 \in RunState
  BY <1>6, <1>a, LowPercentMild, MildTyped
<1> HIDE DEF s3
<1>8. Mild(s3, s4) /\ s4 \in RunState
  BY <1>7, ChainPowerupMild, MildTyped
<1> HIDE DEF s4
<1>9. Mild(s1, s4)
  BY <1>6, <1>7, <1>8, MildTrans
<1>10. /\ s4.abzu = s1.abzu /\ s4.duat = s1.duat /\ s4.sunken = r.sunken
       /\ s4.terminus = r.terminus
       /\ r.dead => s4.dead
       /\ \A l \in Termini \cup ChainLabel : l \in s4.labels <=> l \in r.labels
       /\ \A l \in StartModifiers : l \in s4.labels => l \in r.labels
       /\ LowFacts(s4)
  BY <1>5, <1>9 DEF Mild, Near
<1>11. ChainFacts(s4.labels, s4.sunken, r.abzu, r.duat)
  BY <1>10 DEF RunFacts, ChainFacts, ChainLabel
<1>12. /\ Advance(r.abzu, s4.abzu) /\ Advance(r.duat, s4.duat)
       /\ s4.abzu = "Unstarted" <=> s4.duat = "Unstarted"
  BY <1>4, <1>10
<1>13. /\ Sides(s4, s5)
       /\ ChainFacts(s5.labels, s5.sunken, s5.abzu, s5.duat)
       /\ s4.sunken = "Failed" => s5.sunken = "Failed"
       /\ s4.sunken = "InProgress" => s5.sunken # "Unstarted"
  BY <1>b, <1>8, <1>11, <1>12, IsChainStep
<1> HIDE DEF s5
<1>14. s5 \in RunState
  BY <1>13 DEF Sides
<1>15. Mild(s5, s6) /\ s6 \in RunState
  BY <1>14, RopeMild, MildTyped
<1> HIDE DEF s6
<1>16. Mild(s6, s7) /\ s7 \in RunState
  BY <1>15, MillionaireMild, MildTyped
<1> HIDE DEF s7
<1>17. Mild(s5, s7)
  BY <1>15, <1>16, MildTrans
<1>18. /\ s7.abzu = s5.abzu /\ s7.duat = s5.duat /\ s7.sunken = s5.sunken
       /\ s7.terminus = r.terminus
       /\ r.dead => s7.dead
       /\ \A l \in Termini : l \in s7.labels <=> l \in r.labels
       /\ \A l \in ChainLabel : l \in s7.labels <=> l \in s5.labels
       /\ \A l \in StartModifiers : l \in s7.labels => l \in r.labels
       /\ LowFacts(s7)
  BY <1>10, <1>13, <1>17 DEF Mild, Near, Sides
<1>19. s7.labels \cap Termini = {s7.terminus}
  <2>1. r.labels \cap Termini = {r.terminus}
    BY DEF RunFacts
  <2>2. s7.labels \cap Termini = r.labels \cap Termini
    BY <1>18
  <2>3. s7.terminus = r.terminus
    BY <1>18
  <2> QED BY <2>1, <2>2, <2>3
<1>20. /\ s8 \in RunState
       /\ s8.labels \cap Termini = {s8.terminus}
       /\ s8.abzu = s7.abzu /\ s8.duat = s7.duat /\ s8.sunken = s7.sunken
       /\ s7.dead => s8.dead
       /\ \A l \in ChainLabel : l \in s8.labels <=> l \in s7.labels
       /\ \A l \in StartModifiers : l \in s8.labels => l \in s7.labels
       /\ LowFacts(s7) => LowFacts(s8)
  BY <1>16, <1>19, TerminusStep
<1> HIDE DEF s8
<1>21. ChainFacts(s8.labels, s8.sunken, s8.abzu, s8.duat)
  BY <1>13, <1>18, <1>20 DEF ChainFacts, ChainLabel
<1>22. RunFacts(s8)
  BY <1>18, <1>20, <1>21 DEF RunFacts
<1>23. Kept(r, s8)
  <2>1. s8.labels \cap StartModifiers \subseteq r.labels \cap StartModifiers
    BY <1>18, <1>20
  <2>2. r.dead => s8.dead
    BY <1>18, <1>20
  <2>3. /\ r.sunken = "Failed" => s8.sunken = "Failed"
        /\ r.sunken = "InProgress" => s8.sunken # "Unstarted"
    <3>1. s4.sunken = r.sunken /\ s8.sunken = s5.sunken
      BY <1>10, <1>18, <1>20
    <3> QED BY <1>13, <3>1
  <2> QED BY <2>1, <2>2, <2>3 DEF Kept
<1> QED BY <1>0, <1>22, <1>23

(***************************************************************************)
(* The invariant                                                           *)
(***************************************************************************)
Inv == RunFacts(run) /\ prevTime \in Nat /\ at \in Stage

LEMMA BaseFacts ==
  ASSUME Inv, NEW in
  PROVE  RunFacts(Base(in)) /\ (~IsNewRun(in) => Base(in) = run)
BY NewRunFacts DEF Inv, Base

(* a tick, of either kind, with what CategoryRun asks of it *)
LEMMA TickStep ==
  ASSUME Inv, NEW in \in Samples, Tick(in) \/ BlindTick(in)
  PROVE  /\ Inv'
         /\ prevTime' = in.time
         /\ \/ ~(in.time < prevTime) /\ Kept(run, run')
            \/ in.time < prevTime
<1>1. in \in Sample
  BY SamplesAssumption
<1>2. in.time \in Nat /\ in.stage \in Stage
  BY <1>1 DEF Sample
<1>3. RunFacts(Base(in)) /\ (~IsNewRun(in) => Base(in) = run)
  BY BaseFacts
<1>4. RunFacts(run') /\ Kept(Base(in), run')
  <2>1. CASE Tick(in)
    BY <1>1, <1>3, <2>1, UpdateStep DEF Tick
  <2>2. CASE BlindTick(in)
    <3>1. run' = Base(in)
      BY <2>2 DEF BlindTick
    <3>2. Kept(Base(in), Base(in))
      BY DEF Kept
    <3> QED BY <1>3, <3>1, <3>2
  <2> QED BY <2>1, <2>2
<1>5. prevTime' = in.time /\ at' = in.stage
  BY DEF Tick, BlindTick
<1> QED BY <1>2, <1>3, <1>4, <1>5 DEF Inv, IsNewRun

LEMMA InvInductive == Inv /\ [Next]_vars => Inv'
<1> SUFFICES ASSUME Inv, [Next]_vars PROVE Inv'
  OBVIOUS
<1>1. CASE Next
  BY <1>1, TickStep DEF Next
<1>2. CASE UNCHANGED vars
  BY <1>2 DEF vars, Inv
<1> QED BY <1>1, <1>2

LEMMA InvInitially == Init => Inv
<1> SUFFICES ASSUME Init PROVE Inv
  OBVIOUS
<1>1. NoStage \in Stage
  BY DEF NoStage, Stage, Themes, Screens, WinStates
<1> QED BY <1>1, NewRunFacts DEF Init, Inv

LEMMA InvAlways == Spec => []Inv
BY InvInitially, InvInductive, PTL DEF Spec

(* The run of the tracker always has its types. *)
THEOREM TypeCorrect == Spec => []TypeOK
<1>1. Inv => TypeOK
  BY DEF Inv, RunFacts, TypeOK
<1> QED BY <1>1, InvAlways, PTL

(* No two labels that exclude each other are ever held together, and the    *)
(* terminus among the labels is the one the run label remembers: the check *)
(* of RunLabel::validate, whose error the callers drop, never fails.        *)
THEOREM LabelsConsistent == Spec => []LabelsAreValid
<1>1. Inv => LabelsAreValid
  <2> SUFFICES ASSUME Inv PROVE LabelsAreValid
    OBVIOUS
  <2> DEFINE L == run.labels
  <2>1. L \cap Termini = {run.terminus}
    BY DEF Inv, RunFacts
  <2>2. ~("Abzu" \in L /\ "Duat" \in L)
    BY DEF Inv, RunFacts, ChainFacts, InProgress, Status
  <2> HIDE DEF L
  <2>3. Cardinality(L \cap Termini) <= 1
    <3>1. Cardinality({run.terminus}) = 1
      BY FS_Singleton
    <3> QED BY <2>1, <3>1
  <2>4. PICK x : L \cap {"Abzu", "Duat"} \subseteq {x}
    BY <2>2
  <2>5. L \cap {"Abzu", "Duat"} = {} \/ L \cap {"Abzu", "Duat"} = {x}
    BY <2>4
  <2>6. Cardinality(L \cap {"Abzu", "Duat"}) <= 1
    <3>1. Cardinality({x}) = 1 /\ Cardinality({}) = 0
      BY FS_Singleton, FS_EmptySet
    <3> QED BY <2>5, <3>1
  <2> QED BY <2>1, <2>3, <2>6 DEF LabelsAreValid, IsValid, MutexSets, L
<1> QED BY <1>1, InvAlways, PTL

(* The two sunken chains start together and the chain labels say where they *)
(* are, whatever the samples.                                               *)
THEOREM LabelsFollow == Spec => []LabelsFollowChains
<1>1. Inv => LabelsFollowChains
  BY DEF Inv, RunFacts, ChainFacts, LabelsFollowChains
<1> QED BY <1>1, InvAlways, PTL

(* A low% that leant on a sunken chain does not outlive it. *)
THEOREM LowCorrect == Spec => []LowNeedsItsChain
<1>1. Inv => LowNeedsItsChain
  BY DEF Inv, RunFacts, LowFacts, LowNeedsItsChain
<1> QED BY <1>1, InvAlways, PTL

(***************************************************************************)
(* The display                                                             *)
(***************************************************************************)

(* Whatever is left out or hidden, something is shown: Score if it is not  *)
(* left out, else the terminus or the label that hides it.                 *)
LEMMA SomethingIsShown ==
  ASSUME NEW L \in SUBSET Label, NEW t \in Termini, L \cap Termini = {t},
         NEW hide \in BOOLEAN, NEW E \in SUBSET SaveableCategory
  PROVE  Visible(L, hide, E) # {}
<1> DEFINE v1 == ScoreOnly(L \ E)
           v2 == IF hide THEN v1 \ HideEarly ELSE v1
           v3 == ApplyHides(v2)
           v4 == ApplyShownWith(v3)
           v5 == NoSwallowsGold(v4)
           v6 == ChainGate(v5, L)
<1>0. Visible(L, hide, E) = NoSwallowsLow(v6)
  BY DEF Visible
<1>1. CASE "Score" \in L \ E
  <2>1. "Score" \in v2
    BY <1>1 DEF ScoreOnly, HideEarly
  <2>2. "Score" \in v3
    BY <2>1 DEF ApplyHides, Hides
  <2>3. "Score" \in v4
    BY <2>2 DEF ApplyShownWith, ShownWith
  <2>4. "Score" \in v6
    BY <2>3 DEF NoSwallowsGold, ChainGate
  <2> QED BY <1>0, <2>4 DEF NoSwallowsLow
<1>2. CASE "Score" \notin L \ E
  <2>1. v1 = L \ E
    BY <1>2 DEF ScoreOnly
  <2>2. t \in v2 /\ v2 \subseteq L
    BY <2>1 DEF SaveableCategory, Termini, HideEarly
  <2>3. v2 \cap Termini = {t}
    BY <2>2
  <2> HIDE DEF v1, v2
  <2>4. \A l \in v2 : (\A k \in v2 : l \notin Hides(k)) => l \in v3
    BY DEF ApplyHides
  <2>5. v3 \subseteq v2
    BY DEF ApplyHides
  <2> HIDE DEF v3
  <2>6. \A l \in v3 : ShownWith(l) = {l} => l \in v4
    BY DEF ApplyShownWith
  <2>7. v4 \subseteq v3
    BY DEF ApplyShownWith
  <2> HIDE DEF v4
  <2>8. \A l \in v4 : l # "NoGold" => l \in v5
    BY DEF NoSwallowsGold
  <2>9. \A l \in v5 : l \notin {"SunkenCity", "Chain"} => l \in v6
    BY DEF ChainGate
  <2>10. v5 \subseteq v4
    BY DEF NoSwallowsGold
  <2>11. v6 \subseteq v5
    BY DEF ChainGate
  <2> DEFINE plain(l) == /\ ShownWith(l) = {l}
                         /\ l \notin {"NoGold", "SunkenCity", "Chain"}
  <2>12. \A l \in v3 : plain(l) => l \in v6
    BY <2>6, <2>8, <2>9
  <2>13. \A l \in v6 : l \notin {"Low", "NoTeleporter", "NoJetpack", "Any"}
                      => l \in NoSwallowsLow(v6)
    BY DEF NoSwallowsLow
  <2>14. \A l \in v6 : "No" \notin v6 => l \in NoSwallowsLow(v6)
    BY DEF NoSwallowsLow
  <2>15. "No" \in v6 => "No" \in NoSwallowsLow(v6)
    BY <2>13
  <2>16. v6 # {} => NoSwallowsLow(v6) # {}
    BY <2>14, <2>15
  <2>17. CASE t \in {"Death", "CosmicOcean"}
    <3>1. \A k \in Label : t \notin Hides(k)
      BY <2>17 DEF Hides
    <3>2. t \in v3
      BY <2>2, <2>4, <3>1
    <3>3. plain(t)
      BY <2>17 DEF ShownWith
    <3> QED BY <1>0, <2>12, <2>16, <3>2, <3>3
  <2>18. CASE t = "SunkenCity"
    <3>1. CASE "Eggplant" \in v2
      <4>1. \A k \in Label : "Eggplant" \notin Hides(k)
        BY DEF Hides
      <4>2. "Eggplant" \in v3
        BY <2>2, <2>4, <3>1, <4>1
      <4>3. plain("Eggplant")
        BY DEF ShownWith
      <4> QED BY <1>0, <2>12, <2>16, <4>2, <4>3
    <3>2. CASE L \cap {"Abzu", "Duat"} # {}
      <4>1. PICK c \in {"Abzu", "Duat"} : c \in L
        BY <3>2
      <4>2. c \in v2
        BY <2>1, <4>1 DEF v2, v1, SaveableCategory, HideEarly
      <4>3. "CosmicOcean" \notin v2
        BY <2>3, <2>18 DEF Termini
      <4>4. \A k \in Label : c \in Hides(k) => k = "CosmicOcean"
        BY DEF Hides
      <4>5. c \in v3
        BY <2>2, <2>4, <4>2, <4>3, <4>4
      <4>6. plain(c)
        BY DEF ShownWith
      <4> QED BY <1>0, <2>12, <2>16, <4>5, <4>6
    <3>3. CASE "Eggplant" \notin v2 /\ L \cap {"Abzu", "Duat"} = {}
      <4>1. \A k \in Label : t \in Hides(k) => k = "Eggplant"
        BY <2>18 DEF Hides
      <4>2. t \in v3
        BY <2>2, <2>4, <3>3, <4>1
      <4>3. t \in v5
        BY <2>6, <2>8, <2>18, <4>2 DEF ShownWith
      <4>4. t \in v6
        BY <3>3, <4>3 DEF ChainGate
      <4> QED BY <1>0, <2>16, <4>4
    <3> QED BY <3>1, <3>2, <3>3
  <2>19. CASE t = "Any"
    <3> DEFINE over == {"Low", "Pacifist", "Millionaire"}
    <3>1. CASE \E k \in over : k \in v2
      <4>1. PICK k \in over : k \in v2
        BY <3>1
      <4>2. \A l \in Label : k \notin Hides(l)
        BY DEF Hides
      <4>3. k \in v3
        BY <2>2, <2>4, <4>1, <4>2
      <4>4. plain(k)
        BY DEF ShownWith
      <4> QED BY <1>0, <2>12, <2>16, <4>3, <4>4
    <3>2. CASE "No" \in v2
      <4>1. \A l \in Label : "No" \notin Hides(l)
        BY DEF Hides
      <4>2. "No" \in v3
        BY <2>2, <2>4, <3>2, <4>1
      <4>3. plain("No")
        BY DEF ShownWith
      <4> QED BY <1>0, <2>12, <2>16, <4>2, <4>3
    <3>3. CASE "No" \notin v2 /\ "NoGold" \in v2
      <4>1. \A l \in Label : "NoGold" \notin Hides(l)
        BY DEF Hides
      <4>2. "NoGold" \in v3
        BY <2>2, <2>4, <3>3, <4>1
      <4>3. "NoGold" \in v4
        BY <2>6, <4>2 DEF ShownWith
      <4>4. "No" \notin v4
        BY <2>5, <2>7, <3>3
      <4>5. "NoGold" \in v6
        BY <2>9, <4>3, <4>4 DEF NoSwallowsGold
      <4> QED BY <1>0, <2>16, <4>5
    <3>4. CASE v2 \cap {"Low", "Pacifist", "Millionaire", "NoGold"} = {}
      <4>1. \A k \in Label :
              "Any" \in Hides(k) => k \in {"Low", "Pacifist", "Millionaire", "NoGold"}
        BY DEF Hides
      <4>2. "Any" \in v3
        BY <2>2, <2>4, <2>19, <3>4, <4>1
      <4>3. plain("Any")
        BY DEF ShownWith
      <4> QED BY <1>0, <2>12, <2>16, <4>2, <4>3
    <3> QED BY <3>1, <3>2, <3>3, <3>4
  <2> QED BY <2>17, <2>18, <2>19 DEF Termini
<1> QED BY <1>1, <1>2

LEMMA RankIsNat == ASSUME NEW l \in Label PROVE Rank(l) \in Nat
<1>1. DOMAIN LabelOrder = 1..21
  BY DEF LabelOrder
<1>2. \E i \in 1..21 : LabelOrder[i] = l
  BY DEF LabelOrder, Label
<1>3. Rank(l) \in 1..21
  BY <1>1, <1>2 DEF Rank
<1> QED BY <1>3

(* of the labels that are shown no two have one priority *)
LEMMA NoTies ==
  ASSUME NEW L \in SUBSET Label, NEW t \in Termini, L \cap Termini = {t},
         ~("Abzu" \in L /\ "Duat" \in L),
         NEW hide \in BOOLEAN, NEW E \in SUBSET SaveableCategory
  PROVE  ~PercentPanics(Visible(L, hide, E))
<1> DEFINE vis == Visible(L, hide, E)
<1>1. vis \subseteq L
  BY DEF Visible, ScoreOnly, ApplyHides, ApplyShownWith, NoSwallowsGold,
         ChainGate, NoSwallowsLow
<1>2. ~("Low" \in vis /\ "No" \in vis)
  BY DEF Visible, NoSwallowsLow
<1> HIDE DEF vis
<1>3. SUFFICES ASSUME NEW a \in Eligible(vis), NEW b \in Eligible(vis),
                      Rank(a) < Rank(b), Priority(a) = Priority(b)
               PROVE FALSE
  BY DEF PercentPanics, vis
<1>4. a \in vis /\ b \in vis /\ Priority(a) > 0 /\ Priority(b) > 0
  BY DEF Eligible
<1>5. a \in L /\ b \in L /\ a \in Label /\ b \in Label
  BY <1>1, <1>4
<1>6. a # b
  BY <1>3, <1>5, RankIsNat
<1>7. \/ {a, b} = {"Low", "No"}
      \/ {a, b} \subseteq {"Any", "SunkenCity", "CosmicOcean"}
      \/ {a, b} = {"Duat", "Abzu"}
  BY <1>3, <1>4, <1>6 DEF Priority
<1>8. {"Any", "SunkenCity", "CosmicOcean"} \subseteq Termini
  BY DEF Termini
<1> QED BY <1>2, <1>4, <1>5, <1>6, <1>7, <1>8

(* Rendering the category never panics and never leaves it empty. *)
THEOREM DisplayCorrect == Spec => []DisplayIsSafe
<1>1. Inv => DisplayIsSafe
  <2> SUFFICES ASSUME Inv, NEW hide \in BOOLEAN,
                      NEW E \in SUBSET SaveableCategory
               PROVE  /\ Visible(run.labels, hide, E) # {}
                      /\ ~PercentPanics(Visible(run.labels, hide, E))
    BY DEF DisplayIsSafe
  <2>1. /\ run.labels \in SUBSET Label /\ run.terminus \in Termini
        /\ run.labels \cap Termini = {run.terminus}
    BY DEF Inv, RunFacts, RunState
  <2>2. ~("Abzu" \in run.labels /\ "Duat" \in run.labels)
    BY DEF Inv, RunFacts, ChainFacts, InProgress, Status
  <2> QED BY <2>1, <2>2, SomethingIsShown, NoTies
<1> QED BY <1>1, InvAlways, PTL

(***************************************************************************)
(* The promise                                                             *)
(***************************************************************************)

LEMMA SunkenTyped ==
  ASSUME NEW r \in RunState
  PROVE  r.sunken \in {"Unstarted", "InProgress", "Failed"} /\ r.dead \in BOOLEAN
BY DEF RunState

LEMMA PromiseStep ==
  ASSUME Inv, Next
  PROVE  Promise!Next
<1>1. PICK in \in Samples : Tick(in) \/ BlindTick(in)
  BY DEF Next
<1>2. /\ Inv' /\ prevTime' = in.time
      /\ \/ ~(in.time < prevTime) /\ Kept(run, run')
         \/ in.time < prevTime
  BY <1>1, TickStep
<1>3. prevTime \in Nat /\ prevTime' \in Nat
  BY <1>2 DEF Inv
<1>4. /\ run \in RunState /\ run' \in RunState
  BY <1>2 DEF Inv, RunFacts
<1>5. /\ run.sunken \in {"Unstarted", "InProgress", "Failed"}
      /\ run'.sunken \in {"Unstarted", "InProgress", "Failed"}
      /\ run.dead \in BOOLEAN /\ run'.dead \in BOOLEAN
  BY <1>4, SunkenTyped
<1>6. CASE in.time < prevTime
  <2>1. run'.sunken \in Promise!After("Unstarted")
    BY <1>5 DEF Promise!After
  <2>2. Promise!NewRun
    BY <1>2, <1>3, <1>5, <1>6, <2>1 DEF Promise!NewRun
  <2> QED BY <2>2 DEF Promise!Next
<1>7. CASE ~(in.time < prevTime) /\ Kept(run, run')
  <2>1. run'.sunken \in Promise!After(run.sunken)
    BY <1>5, <1>7 DEF Promise!After, Kept
  <2>2. run'.labels \cap StartModifiers \subseteq run.labels \cap StartModifiers
    BY <1>7 DEF Kept
  <2>3. run.dead => run'.dead
    BY <1>7 DEF Kept
  <2>4. Promise!Play
    BY <1>2, <1>3, <1>5, <1>7, <2>1, <2>2, <2>3 DEF Promise!Play
  <2> QED BY <2>4 DEF Promise!Next
<1> QED BY <1>2, <1>6, <1>7

(* Every run of the tracker is a run of CategoryRun: within a run what is   *)
(* lost stays lost, the quest only goes forward and a death is final.       *)
THEOREM TrackerKeepsPromise == Spec => ImplementsCategoryRun
<1>1. Init => Promise!Init
  BY DEF Init, Promise!Init, NewRunState, StartModifiers
<1>2. Inv /\ [Next]_vars => [Promise!Next]_(Promise!vars)
  <2> SUFFICES ASSUME Inv, [Next]_vars PROVE [Promise!Next]_(Promise!vars)
    OBVIOUS
  <2>1. CASE Next
    BY <2>1, PromiseStep
  <2>2. CASE UNCHANGED vars
    BY <2>2 DEF vars, Promise!vars
  <2> QED BY <2>1, <2>2
<1> QED BY <1>1, <1>2, InvAlways, PTL DEF Spec, ImplementsCategoryRun, Promise!Spec
=============================================================================
