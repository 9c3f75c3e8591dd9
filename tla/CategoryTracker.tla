-------------------------- MODULE CategoryTracker --------------------------
(***************************************************************************)
(* The category tracker: RunState of crates/ml2_trackers/src/runstate.rs   *)
(* inside CategoryTracker of tracker.rs.  On every tick it reads a sample  *)
(* of the game, advances the four quest chains and runs some 25 detectors, *)
(* in a fixed order, over the labels of the run (RunLabel).                *)
(*                                                                         *)
(* The whole of RunState::update is one action.  Its methods are operators *)
(* that take a run and return it changed; they are composed in the order   *)
(* of the code.  What only lives within a tick (level_started, the         *)
(* entities that are new in it) is a parameter; of the items of the last   *)
(* tick only those that something asks about are remembered;               *)
(* is_score_run, which nothing reads, is left out.                         *)
(***************************************************************************)
EXTENDS RunLabel, QuestChains

CONSTANT Samples   \* what ChainInputs::from_process can return

Themes == {"Dwelling", "Jungle", "Volcana", "Olmec", "TidePool", "Temple",
           "IceCaves", "NeoBabylon", "SunkenCity", "CosmicOcean",
           "CityOfGold", "Duat", "Abzu", "Tiamat", "EggplantWorld", "Hundun"}
Screens   == {"Level", "LevelTransition", "Scores"}
WinStates == {"NoWin", "Tiamat", "Hundun", "CosmicOcean"}
Stage == [world: Nat, level: Nat, theme: Themes, screen: Screens,
          win: WinStates]

\* The entity types the detectors ask about.  "Headwear" is Hedjet or Crown,
\* "Backpack", "Powerup" and "Weapon" are the other members of BACKPACKS,
\* NON_CHAIN_POWERUP_ENTITIES and LOW_BANNED_ATTACKABLES, "Poison" and
\* "Curse" the logical effects.
Items == {"Eye", "Headwear", "Ankh", "Tablet", "Excalibur", "Scepter",
          "Ushabti", "Bow", "Eggplant", "EggplantCrown", "TrueCrown",
          "PlasmaCannon", "CloneGun", "Teleporter", "TelePack", "Jetpack",
          "Backpack", "Shield", "Powerup", "Boomerang", "Mattock", "Weapon",
          "Poison", "Curse"}

\* the tables of entity.rs
Mounts            == {"Axolotl", "Qilin", "OtherMount"}
Backpacks         == {"Jetpack", "TelePack", "Backpack"}
Shields           == {"Shield"}
NonChainPowerups  == {"Powerup", "TrueCrown"}
BannedAttackables == {"Weapon", "CloneGun", "Teleporter", "Boomerang",
                      "PlasmaCannon", "Bow", "Excalibur", "Mattock"}
BannedThrowables  == {}
TeleportEntities  == {"Teleporter", "TelePack", "TrueCrown"}
Remembered        == TeleportEntities \cup {"Boomerang"} \cup BannedThrowables

CharStates == {"Standing", "Attacking", "Throwing", "Stunned", "Entering",
               "Dying"}

\* StateSnapshot, PlayerSnapshot and the sets of ChainInputs.  `spawned`
\* holds what the delta of the entity table shows: a ghost, a rope that has
\* landed, a pair of teleport shadows where the player was.  `rich` stands
\* for a net score of 900,000 or more and `late` for the level's time
\* against the two hours of the ghost.
Sample ==
  [ time: Nat, stage: Stage, shortcut: BOOLEAN,
    items: SUBSET Items, allies: SUBSET Items, waddler: SUBSET Items,
    child: BOOLEAN, state: CharStates, last: CharStates, back: BOOLEAN,
    health: Nat, bombs: Nat, ropes: Nat,
    mount: Mounts \cup {"None"}, tamed: BOOLEAN,
    pacifist: BOOLEAN, noGold: BOOLEAN, clover: BOOLEAN,
    late: {"No", "IfCursed", "Yes"}, moon: BOOLEAN, sun: BOOLEAN,
    spawned: SUBSET {"Ghost", "Rope", "Shadow"}, rich: BOOLEAN ]

ASSUME SamplesAssumption == Samples \subseteq Sample

VARIABLES
  run,        \* the RunState
  prevTime,   \* prev_time_total
  at          \* the game: where the run was when it was last sampled

vars == << run, prevTime, at >>

\* struct RunState
RunState ==
  [ labels: SUBSET Label, terminus: Termini, world: Nat, level: Nat,
    items: SUBSET Remembered, dead: BOOLEAN,
    health: Nat, bombs: Nat, ropes: Nat, startRopes: Nat,
    poisoned: BOOLEAN, cursed: BOOLEAN, ghost: BOOLEAN,
    low: BOOLEAN, lowIfChain: BOOLEAN, mattock: BOOLEAN, ankh: BOOLEAN,
    sunken: {"Unstarted", "InProgress", "Failed"}, clone: BOOLEAN,
    world2: {"None", "Jungle", "Volcana"},
    world4: {"None", "Temple", "TidePool"},
    abzu: AbzuSteps, duat: DuatSteps, cosmic: CosmicSteps,
    eggplant: EggplantSteps, uid: BOOLEAN ]

\* RunState::new
NewRunState ==
  [ labels |-> StartLabels, terminus |-> "Any", world |-> 0, level |-> 0,
    items |-> {}, dead |-> FALSE,
    health |-> 4, bombs |-> 4, ropes |-> 4, startRopes |-> 4,
    poisoned |-> FALSE, cursed |-> FALSE, ghost |-> FALSE,
    low |-> TRUE, lowIfChain |-> FALSE, mattock |-> FALSE, ankh |-> FALSE,
    sunken |-> "Unstarted", clone |-> FALSE,
    world2 |-> "None", world4 |-> "None",
    abzu |-> "Unstarted", duat |-> "Unstarted", cosmic |-> "Unstarted",
    eggplant |-> "Unstarted", uid |-> FALSE ]

\* self.run_label.add(l), discard(S) and set_terminus(t)
AddLabel(r, l)     == [r EXCEPT !.labels = Add(@, l)]
DropLabels(r, S)   == [r EXCEPT !.labels = Discard(@, S)]
WithTerminus(r, t) ==
  [r EXCEPT !.labels = SetTerminus(@, r.terminus, t), !.terminus = t]

\* if c then { r = s }
When(c, s, r) == IF c THEN s ELSE r

\* fail_low
FailLow(r) == [DropLabels(r, {"Low", "No"}) EXCEPT !.low = FALSE]

(***************************************************************************)
(* The start of a tick                                                     *)
(***************************************************************************)

\* update_global_state
Started(r, in) == << in.stage.world, in.stage.level >> # << r.world, r.level >>
GlobalState(r, in) ==
  [r EXCEPT !.world = in.stage.world, !.level = in.stage.level]

\* update_world_themes
World2(r, in) ==
  IF in.stage.theme \in {"Jungle", "Volcana"} THEN in.stage.theme ELSE r.world2
World4(r, in) ==
  CASE in.stage.theme \in {"Temple", "CityOfGold", "Duat"} -> "Temple"
    [] in.stage.theme \in {"TidePool", "Abzu"}             -> "TidePool"
    [] OTHER                                               -> r.world4

WorldThemes(r, in) ==
  LET w2 == World2(r, in)
      w4 == World4(r, in)
      r1 == [r EXCEPT !.world2 = w2, !.world4 = w4]
      r2 == When(w2 = "Volcana" /\ w4 = "Temple", AddLabel(r1, "VolcanaTemple"),
                 r1)
  IN  IF in.stage.world \notin {2, 4} THEN r
      ELSE IF w2 = "Jungle" /\ w4 # "TidePool" THEN AddLabel(r2, "JungleTemple")
      ELSE DropLabels(r2, {"JungleTemple"})

\* update_on_level_start, with the ropes of the last tick
LevelStart(r, in) ==
  LET r1 == [WorldThemes(r, in) EXCEPT !.startRopes = r.ropes]
      r2 == When(r.ropes < 4, DropLabels(r1, {"No"}), r1)
  IN  When(in.stage.theme = "Duat",
           [r2 EXCEPT !.health = 4, !.poisoned = FALSE, !.cursed = FALSE], r2)

\* update_final_death
FinalDeath(r, in) ==
  When(in.state = "Dying" /\ ~Has(in, "Ankh"), [r EXCEPT !.dead = TRUE], r)

\* compute_new_entities: what is new in this tick; the delta is only walked
\* on a level whose first tick has passed
NewEntities(r, in, started) ==
  IF in.stage.screen = "Level" /\ ~started /\ r.uid THEN in.spawned ELSE {}
KnowUid(r, in) == When(in.stage.screen = "Level", [r EXCEPT !.uid = TRUE], r)

\* update_score_items, update_ice_caves
ScoreItems(r, in) ==
  When(in.items \cap {"PlasmaCannon", "TrueCrown"} # {}, AddLabel(r, "Score"), r)
IceCaves(r, in, started) ==
  When(started /\ in.stage.theme = "IceCaves" /\ in.shortcut,
       AddLabel(r, "IceCavesShortcut"), r)

\* the evaluation of the four steppers
Steppers(r, in) ==
  [r EXCEPT !.abzu = AbzuStep(@, in), !.duat = DuatStep(@, in),
            !.cosmic = CosmicStep(@, in), !.eggplant = EggplantStep(@, in)]

(***************************************************************************)
(* The modifiers                                                           *)
(***************************************************************************)

\* update_pacifist, update_no_gold
Pacifist(r, in) == When(~in.pacifist, DropLabels(r, {"Pacifist"}), r)
NoGold(r, in)   == When(~in.noGold, DropLabels(r, {"NoGold", "No"}), r)

\* could_tp, with the items of this tick and of the last one
CouldTp(in, prev) ==
  \/ (in.items \cup prev) \cap TeleportEntities # {}
  \/ in.mount = "Axolotl"

\* update_no_tp
NoTp(r, in, prev, new) ==
  When(CouldTp(in, prev) /\ "Shadow" \in new,
       DropLabels(r, {"NoTeleporter"}), r)

\* update_eggplant, update_true_crown, update_low_cosmic
EggplantLabel(r) ==
  IF InProgress(r.eggplant) THEN AddLabel(r, "Eggplant")
  ELSE DropLabels(r, {"Eggplant"})
TrueCrown(r, in) == When(Has(in, "TrueCrown"), AddLabel(r, "TrueCrown"), r)
LowCosmic(r) == When(r.cosmic = "Failed" /\ r.mattock, FailLow(r), r)

(***************************************************************************)
(* The low% detectors: each returns at once when low% is lost already      *)
(***************************************************************************)

\* update_has_mounted_tame
MountedTame(r, in) ==
  IF ~r.low \/ in.mount = "None" THEN r
  ELSE IF in.stage.theme = "Tiamat" /\ in.mount = "Qilin"
  THEN When(r.sunken # "InProgress", FailLow([r EXCEPT !.lowIfChain = TRUE]),
            [r EXCEPT !.lowIfChain = TRUE])
  ELSE When(in.tamed, FailLow(r), r)

\* update_starting_resources
Gained(r, in) ==
  \/ in.health > r.health /\ in.state # "Dying"
  \/ in.health > 4
  \/ in.bombs > r.bombs \/ in.bombs > 4
  \/ in.ropes > r.startRopes \/ in.ropes > 4
Used(in) ==
  \/ in.health < 4
  \/ in.bombs < 4
  \/ in.stage.win # "NoWin" /\ in.ropes < 4

Resources(r, in) ==
  LET r1 == When(Gained(r, in), FailLow(r), r)
      r2 == When(Used(in), DropLabels(r1, {"No"}), r1)
  IN  When(r.low, [r2 EXCEPT !.health = in.health, !.bombs = in.bombs,
                             !.ropes = in.ropes], r)

\* update_status_effects
StatusEffects(r, in) ==
  LET cured == \/ r.poisoned /\ ~Has(in, "Poison")
               \/ r.cursed /\ ~Has(in, "Curse")
      r1 == When(cured /\ in.state # "Dying", FailLow(r), r)
  IN  When(r.low /\ in.state # "Entering",
           [r1 EXCEPT !.poisoned = Has(in, "Poison"),
                      !.cursed = Has(in, "Curse")], r)

\* update_had_clover
HadClover(r, in, started, new) ==
  LET r1 == [r EXCEPT !.ghost = (~started /\ @) \/ "Ghost" \in new]
      kept == /\ in.clover
              /\ in.late = "Yes" \/ (in.late = "IfCursed" /\ r.cursed)
  IN  When(r.low, When(~r1.ghost /\ kept, FailLow(r1), r1), r)

\* update_wore_backpack, update_held_shield, update_has_non_chain_powerup
BannedItems(r, in) ==
  LET r1 == When(Has(in, "Jetpack"), DropLabels(r, {"NoJetpack"}), r)
  IN  When(r.low /\ in.items \cap (Backpacks \cup Shields \cup NonChainPowerups)
                      # {},
           FailLow(r1), r1)

\* the exceptions of update_attacked_with
AbzuExcalibur(in)   == Has(in, "Excalibur") /\ in.stage.theme = "Abzu"
MoonMattock(in)     == Has(in, "Mattock") /\ in.back /\ in.moon
BowAllowed(in) ==
  \/ /\ in.back
     /\ \/ in.moon \/ in.sun
        \/ (in.stage.level = 1 /\ in.stage.world \in {3, 5, 7})
  \/ At(in, 7, 4, in.stage.screen)
BannedInHand(in) ==
  (in.items \cap BannedAttackables)
    \ ((IF AbzuExcalibur(in) THEN {"Excalibur"} ELSE {})
       \cup (IF MoonMattock(in) THEN {"Mattock"} ELSE {})
       \cup (IF BowAllowed(in) THEN {"Bow"} ELSE {}))

\* update_attacked_with and update_attacked_with_throwables.  The code stops
\* at the first banned item it meets in a hash set, possibly before it has
\* set one of the two flags: low% is lost then, and the flags serve nothing
\* but losing it.
Attacked(r, in, prev) ==
  LET thrown == in.last # "Attacking" /\ "Boomerang" \in prev \ in.items
      r1 == [r EXCEPT !.lowIfChain = @ \/ AbzuExcalibur(in),
                      !.mattock = @ \/ MoonMattock(in)]
      fails == \/ thrown
               \/ AbzuExcalibur(in) /\ r.sunken # "InProgress"
               \/ BannedInHand(in) # {}
  IN  When(r.low /\ "Attacking" \in {in.state, in.last},
           When(fails, FailLow(r1), r1), r)
AttackedWithThrowables(r, in, prev) ==
  When(/\ r.low /\ "Throwing" \in {in.state, in.last}
       /\ (in.items \cup prev) \cap BannedThrowables # {}, FailLow(r), r)

(***************************************************************************)
(* The chains and the terminus                                             *)
(***************************************************************************)

\* update_has_chain_powerup: sunken is still the status of the last tick
ChainPowerup(r, in) ==
  LET r1 == [r EXCEPT !.ankh = @ \/ Has(in, "Ankh")]
  IN  When(r.sunken # "InProgress" /\ in.items \cap {"Ankh", "Tablet"} # {},
           FailLow(r1), r1)

\* the two last parts of update_is_chain
ChainLabels(r) ==
  LET r1 == [AddLabel(r, "Chain") EXCEPT !.sunken = "InProgress",
                                         !.lowIfChain = TRUE]
  IN  CASE InProgress(r.abzu) /\ InProgress(r.duat)  -> r1
        [] InProgress(r.abzu) /\ ~InProgress(r.duat) -> AddLabel(r1, "Abzu")
        [] ~InProgress(r.abzu) /\ InProgress(r.duat) -> AddLabel(r1, "Duat")
        [] OTHER                                     -> r

\* were the detectors that leant on the chain forgotten
ChainsFailedForgive(r) ==
  [DropLabels(r, {"Chain", "Abzu", "Duat"}) EXCEPT !.sunken = "Failed"]

ChainsFailed(r) ==
  LET r1 == [DropLabels(r, {"Chain", "Abzu", "Duat"})
               EXCEPT !.sunken = "Failed"]
  IN  When(r.lowIfChain, FailLow(r1), r1)

\* update_is_chain
IsChain(r) ==
  IF r.sunken = "Failed" THEN r
  ELSE IF r.abzu = "Unstarted" THEN [r EXCEPT !.sunken = "Unstarted"]
  ELSE IF r.abzu = "Failed" /\ r.duat = "Failed" THEN ChainsFailed(r)
  ELSE ChainLabels(r)

\* update_rope_deployed
RopeDeployed(r, in, new) ==
  When(in.stage.theme # "Duat" /\ "Rope" \in new, DropLabels(r, {"No"}), r)

\* update_millionaire
Millionaire(r, in) ==
  LET r1 == IF in.rich THEN AddLabel(r, "Millionaire")
            ELSE When(~r.clone \/ in.stage.win # "NoWin",
                      DropLabels(r, {"Millionaire"}), r)
  IN  When(~r.clone /\ ~InProgress(r.cosmic) /\ Has(in, "CloneGun"),
           [AddLabel(r1, "Millionaire") EXCEPT !.clone = TRUE], r1)

\* the goal update_terminus infers
Goal(r, in) ==
  CASE InProgress(r.cosmic) \/ in.stage.win = "CosmicOcean" -> "CosmicOcean"
    [] r.dead                                               -> "Death"
    [] \/ in.stage.world = 7 \/ in.stage.win = "Hundun"
       \/ r.ankh \/ r.sunken = "InProgress"
       \/ InProgress(r.eggplant)                            -> "SunkenCity"
    [] OTHER                                                -> "Any"

\* update_terminus
Terminus(r, in) ==
  LET goal == Goal(r, in) IN
  WithTerminus(IF goal = "CosmicOcean" THEN DropLabels(r, {"NoCo"})
               ELSE AddLabel(r, "NoCo"), goal)

(***************************************************************************)
(* RunState::update, in the order of the code                              *)
(***************************************************************************)
Observe(r, in, started) ==
  LET r1 == When(started, LevelStart(GlobalState(r, in), in),
                 GlobalState(r, in))
      r2 == FinalDeath([r1 EXCEPT !.items = in.items \cap Remembered], in)
  IN  Steppers(IceCaves(ScoreItems(KnowUid(r2, in), in), in, started), in)

Modify(r, in, prev, new) ==
  LET r1 == NoTp(NoGold(Pacifist(r, in), in), in, prev, new)
  IN  LowCosmic(TrueCrown(EggplantLabel(r1), in))

LowPercent(r, in, prev, started, new) ==
  LET r1 == StatusEffects(Resources(MountedTame(r, in), in), in)
      r2 == BannedItems(HadClover(r1, in, started, new), in)
  IN  AttackedWithThrowables(Attacked(r2, in, prev), in, prev)

Conclude(r, in, new) ==
  LET r1 == IsChain(ChainPowerup(r, in))
  IN  Terminus(Millionaire(RopeDeployed(r1, in, new), in), in)

Update(r, in) ==
  LET started == Started(r, in)
      new     == NewEntities(r, in, started)
      r1      == Modify(Observe(r, in, started), in, r.items, new)
  IN  Conclude(LowPercent(r1, in, r.items, started, new), in, new)

(***************************************************************************)
(* The game: a run only moves forward                                      *)
(***************************************************************************)
NoStage == [world |-> 0, level |-> 0, theme |-> "Dwelling",
            screen |-> "Level", win |-> "NoWin"]

\* the two branches of world 4, and the two areas of world 2
SameRoute(a, b) ==
  a.world = b.world /\ a.world \in {2, 4} =>
    \/ {a.theme, b.theme} \subseteq {"TidePool", "Abzu"}
    \/ {a.theme, b.theme} \subseteq {"Temple", "CityOfGold", "Duat"}
    \/ a.theme = b.theme

Forward(a, b) ==
  \/ b.world > a.world /\ a.win = "NoWin"
  \/ b.world = a.world /\ b.level > a.level /\ a.win = "NoWin"
  \/ /\ << b.world, b.level >> = << a.world, a.level >>
     /\ a.screen = "Level" \/ b.screen = a.screen
     /\ a.win = "NoWin" \/ b.win = a.win

\* CategoryTracker::tick: the clock of a new run is behind the last one (the
\* first form also takes a paused game for a new run)
IsNewRunEq(in) == in.time <= prevTime
IsNewRun(in)   == in.time < prevTime

Possible(in) == IsNewRun(in) \/ (Forward(at, in.stage) /\ SameRoute(at, in.stage))

\* the RunState a tick works on
Base(in) == IF IsNewRun(in) THEN NewRunState ELSE run

(***************************************************************************)
(* Actions                                                                 *)
(***************************************************************************)

\* a tick that reads the player
Tick(in) ==
  /\ Possible(in)
  /\ run' = Update(Base(in), in)
  /\ prevTime' = in.time
  /\ at' = in.stage

\* a tick while the game loads, or that cannot read the player: update
\* returns at once, but a new run has been noticed
BlindTick(in) ==
  /\ Possible(in)
  /\ run' = Base(in)
  /\ prevTime' = in.time
  /\ at' = in.stage

Init ==
  /\ run = NewRunState
  /\ prevTime = 0
  /\ at = NoStage

Next == \E in \in Samples : Tick(in) \/ BlindTick(in)

Spec == Init /\ [][Next]_vars

(***************************************************************************)
(* The display                                                             *)
(***************************************************************************)

\* should_show_modifiers
ShowModifiers(screen, always) ==
  always \/ screen = "Scores" \/ run.world > 1 \/ run.level > 2 \/ run.dead

\* get_display
Display(screen, always, excluded) ==
  Text(run.labels, ~ShowModifiers(screen, always), excluded)

(***************************************************************************)
(* Properties                                                              *)
(***************************************************************************)

TypeOK ==
  /\ run \in RunState
  /\ prevTime \in Nat
  /\ at \in Stage

\* The labels never hold two that exclude each other, and the one terminus
\* among them is the one the run label remembers (RunLabel::validate, whose
\* error every caller drops after the label has been inserted).
LabelsAreValid ==
  /\ IsValid(run.labels)
  /\ run.labels \cap Termini = {run.terminus}

\* Whatever the streamer leaves out, on any screen, the category has a text,
\* and rendering it does not panic on two labels of one priority
\* (RunLabel::visible and percent): a panic would end the tick task.
DisplayIsSafe ==
  \A hideEarly \in BOOLEAN, excluded \in SUBSET SaveableCategory :
    LET vis == Visible(run.labels, hideEarly, excluded)
    IN  vis # {} /\ ~PercentPanics(vis)

\* The two sunken chains start together (the debug_assert of
\* update_is_chain) although each has its own steps, and the chain labels
\* say where they are: Chain while one is open, the name of a chain once the
\* other one is lost.
LabelsFollowChains ==
  /\ run.abzu = "Unstarted" <=> run.duat = "Unstarted"
  /\ "Chain" \in run.labels <=> InProgress(run.abzu) \/ InProgress(run.duat)
  /\ "Abzu" \in run.labels => InProgress(run.abzu) /\ run.duat = "Failed"
  /\ "Duat" \in run.labels => InProgress(run.duat) /\ run.abzu = "Failed"

\* A low% that leant on a sunken chain (failed_low_if_not_chain) does not
\* outlive it, whichever of the detectors saw it first; Low% and No% are the
\* labels of that fact, and No% is never shown without Low%.
LowNeedsItsChain ==
  /\ run.lowIfChain /\ run.sunken # "InProgress" => ~run.low
  /\ run.low <=> "Low" \in run.labels
  /\ "No" \in run.labels => "Low" \in run.labels

\* The modifiers a run starts with
StartModifiers == StartLabels \ {"Any", "NoCo"}

\* Everything the detectors do to a run is what CategoryRun allows: lost is
\* lost, the quest goes forward, death is final, until the clock goes back.
Promise == INSTANCE CategoryRun
  WITH Modifiers <- StartModifiers, clock <- prevTime,
       modifiers <- run.labels \cap StartModifiers,
       quest <- run.sunken, over <- run.dead
ImplementsCategoryRun == Promise!Spec
=============================================================================
