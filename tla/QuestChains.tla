---------------------------- MODULE QuestChains ----------------------------
(***************************************************************************)
(* The quest chains of crates/ml2_trackers: the stepper of chain.rs and    *)
(* the four chains of chain_impl.  A chain is a table from its step and a  *)
(* sample of the game to its next step.  "Unstarted" and "Failed" stand    *)
(* for the results without a next step: an unstarted chain evaluates its   *)
(* initial step.                                                           *)
(*                                                                         *)
(* A sample `in` is a record with at least: stage (world, level, theme,    *)
(* screen, win), items, allies (what the companions hold), waddler (his    *)
(* storage), child (the eggplant child is a companion) and state (the      *)
(* player's CharState).                                                    *)
(***************************************************************************)
EXTENDS Naturals

AbzuSteps == {"Unstarted", "Headwear", "Ankh", "World41", "Excalibur",
              "World44", "Tablet", "Ushabti", "Win", "Failed"}
DuatSteps == {"Unstarted", "Headwear", "Ankh", "World41", "Scepter", "Gold",
              "KeepAnkh", "World44", "Tablet", "Ushabti", "Win", "Failed"}
CosmicSteps == {"Unstarted", "CarryBow", "Win", "Failed"}
EggplantSteps == {"Unstarted", "Carry", "Child", "Guide", "World", "Crown",
                  "Success", "Failed"}

\* ChainStepResult.status
Status(step) == IF step \in {"Unstarted", "Failed"} THEN step ELSE "InProgress"

InProgress(step) == Status(step) = "InProgress"

\* StateSnapshot::world_level compared with a tuple
Past(in, w, l) ==
  \/ in.stage.world > w
  \/ in.stage.world = w /\ in.stage.level > l

At(in, w, l, screen) ==
  /\ in.stage.world = w
  /\ in.stage.level = l
  /\ in.stage.screen = screen

Has(in, item) == item \in in.items
Carried(in, item) == item \in in.items \cup in.allies

\* The result of a step: the target of the first test that holds
FirstOf(c1, s1, c2, s2, otherwise) ==
  IF c1 THEN s1 ELSE IF c2 THEN s2 ELSE otherwise

(***************************************************************************)
(* The sunken chains: sunken/abzu.rs and sunken/duat.rs                    *)
(***************************************************************************)

\* collect_eye_or_headwear, which each of the two files has a copy of
AbzuStart(in) ==
  IF Has(in, "Eye") THEN "Headwear"
  ELSE FirstOf(Has(in, "Headwear"), "Ankh", in.stage.world > 2, "Failed",
               "Unstarted")

\* the copy of duat.rs, were it to give up a world earlier
DuatStartEager(in) ==
  IF Has(in, "Eye") THEN "Headwear"
  ELSE FirstOf(Has(in, "Headwear"), "Ankh", in.stage.world > 1, "Failed",
               "Unstarted")

DuatStart(in) ==
  IF Has(in, "Eye") THEN "Headwear"
  ELSE FirstOf(Has(in, "Headwear"), "Ankh", in.stage.world > 2, "Failed",
               "Unstarted")

\* collect_headwear
CollectHeadwear(in) ==
  FirstOf(Has(in, "Headwear"), "Ankh", in.stage.world > 2, "Failed", "Headwear")

\* collect_ankh
CollectAnkh(in) ==
  FirstOf(Has(in, "Ankh"), "World41", in.stage.world > 3, "Failed", "Ankh")

\* collect_tablet, carry_ushabti_to_63, win_via_hundun_or_co
CollectTablet(in) ==
  FirstOf(Has(in, "Tablet"), "Ushabti", in.stage.world > 4, "Failed", "Tablet")

CarryUshabti(in) ==
  FirstOf(~At(in, 6, 2, "LevelTransition"), "Ushabti",
          Carried(in, "Ushabti"), "Win", "Failed")

WinViaHundunOrCo(in) == IF in.stage.win = "Tiamat" THEN "Failed" ELSE "Win"

\* the Abzu chain, a step function each
AbzuStep(step, in) ==
  CASE step = "Unstarted" -> AbzuStart(in)
    [] step = "Headwear"  -> CollectHeadwear(in)
    [] step = "Ankh"      -> CollectAnkh(in)
    [] step = "World41"   -> FirstOf(in.stage.theme = "TidePool", "Excalibur",
                                     in.stage.world > 3, "Failed", step)
    [] step = "Excalibur" -> FirstOf(Has(in, "Excalibur"), "World44",
                                     Past(in, 4, 2), "Failed", step)
    [] step = "World44"   -> FirstOf(in.stage.theme = "Abzu", "Tablet",
                                     Past(in, 4, 3), "Failed", step)
    [] step = "Tablet"    -> CollectTablet(in)
    [] step = "Ushabti"   -> CarryUshabti(in)
    [] step = "Win"       -> WinViaHundunOrCo(in)
    [] step = "Failed"    -> "Failed"

\* carry_scepter_to_42, visit_city_of_gold
CarryScepter(in) ==
  IF ~Has(in, "Ankh") THEN "Failed"
  ELSE IF Past(in, 4, 2) THEN "Gold"
  ELSE FirstOf(~At(in, 4, 1, "LevelTransition"), "Scepter",
               Carried(in, "Scepter"), "Gold", "Failed")

VisitCityOfGold(in) ==
  IF ~Has(in, "Ankh") THEN "Failed"
  ELSE FirstOf(in.stage.theme = "CityOfGold", "KeepAnkh",
               Past(in, 4, 2), "Failed", "Gold")

\* keep_ankh: the player is gone or stunned during the sacrifice
KeepAnkh(in) ==
  FirstOf(Past(in, 4, 3), "World44",
          in.state # "Stunned" /\ ~Has(in, "Ankh"), "Failed", "KeepAnkh")

\* the Duat chain
DuatStep(step, in) ==
  CASE step = "Unstarted" -> DuatStart(in)
    [] step = "Headwear"  -> CollectHeadwear(in)
    [] step = "Ankh"      -> CollectAnkh(in)
    [] step = "World41"   -> FirstOf(in.stage.theme = "Temple", "Scepter",
                                     in.stage.world > 3, "Failed", step)
    [] step = "Scepter"   -> CarryScepter(in)
    [] step = "Gold"      -> VisitCityOfGold(in)
    [] step = "KeepAnkh"  -> KeepAnkh(in)
    [] step = "World44"   -> FirstOf(in.stage.theme = "Duat", "Tablet",
                                     Past(in, 4, 3), "Failed", step)
    [] step = "Tablet"    -> CollectTablet(in)
    [] step = "Ushabti"   -> CarryUshabti(in)
    [] step = "Win"       -> WinViaHundunOrCo(in)
    [] step = "Failed"    -> "Failed"

(***************************************************************************)
(* The Cosmic Ocean chain: cosmic.rs                                       *)
(***************************************************************************)

\* carry_bow_to_hundun
CarryBow(in) ==
  IF in.stage.win # "NoWin" THEN "Failed"
  ELSE IF Past(in, 7, 3) THEN "Win"
  ELSE FirstOf(\/ in.stage.screen # "LevelTransition"
               \/ Carried(in, "Bow")
               \/ ~Past(in, 7, 0) /\ "Bow" \in in.waddler, "CarryBow",
               TRUE, "Failed", "Failed")

CosmicStep(step, in) ==
  CASE step = "Unstarted" -> FirstOf(Has(in, "Bow"), "CarryBow",
                                     in.stage.world > 2, "Failed", step)
    [] step = "CarryBow"  -> CarryBow(in)
    [] step = "Win"       -> IF in.stage.win \in {"NoWin", "CosmicOcean"}
                             THEN "Win" ELSE "Failed"
    [] step = "Failed"    -> "Failed"

(***************************************************************************)
(* The Eggplant chain: eggplant.rs                                         *)
(***************************************************************************)

\* collect_eggplant
CollectEggplant(in) ==
  IF Has(in, "Eggplant") THEN "Carry"
  ELSE IF in.stage.world = 5 /\ in.child THEN "Guide"
  ELSE FirstOf(in.stage.screen = "LevelTransition" /\ "Eggplant" \in in.allies,
               "Carry", in.stage.world > 5, "Failed", "Unstarted")

\* carry_eggplant_to_51: a dropped eggplant starts the chain over
CarryEggplant(in) ==
  FirstOf(in.stage.world > 4, "Child",
          \/ in.stage.screen # "LevelTransition"
          \/ Carried(in, "Eggplant")
          \/ "Eggplant" \in in.waddler, "Carry", "Unstarted")

\* guide_eggplant_child_to_71
GuideChild(in) ==
  FirstOf(\/ Past(in, 7, 1)
          \/ At(in, 7, 1, "LevelTransition"), "World",
          in.stage.screen # "LevelTransition" \/ in.child, "Guide", "Failed")

EggplantStep(step, in) ==
  CASE step = "Unstarted" -> CollectEggplant(in)
    [] step = "Carry"     -> CarryEggplant(in)
    [] step = "Child"     -> FirstOf(in.child, "Guide",
                                     in.stage.world > 5, "Failed", step)
    [] step = "Guide"     -> GuideChild(in)
    [] step = "World"     -> FirstOf(in.stage.theme = "EggplantWorld", "Crown",
                                     Past(in, 7, 1), "Failed", step)
    [] step = "Crown"     -> FirstOf(Has(in, "EggplantCrown"), "Success",
                                     Past(in, 7, 2), "Failed", step)
    [] step = "Success"   -> "Success"
    [] step = "Failed"    -> "Failed"
=============================================================================
