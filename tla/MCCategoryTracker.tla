-------------------------- MODULE MCCategoryTracker --------------------------
(* What the game can show the category tracker: the stages and items of the *)
(* sunken chains, and the stages, items and mishaps of the Cosmic Ocean and *)
(* Eggplant chains, of score runs and of the other ways to lose Low%.       *)
EXTENDS CategoryTracker

StageAt(w, l, t) ==
  [world |-> w, level |-> l, theme |-> t, screen |-> "Level", win |-> "NoWin"]
Leaving(s)  == [s EXCEPT !.screen = "LevelTransition"]
Won(s, win) == [s EXCEPT !.win = win]

Base0 ==
  [ time |-> 1, stage |-> StageAt(1, 1, "Dwelling"), shortcut |-> FALSE,
    items |-> {}, allies |-> {}, waddler |-> {}, child |-> FALSE,
    state |-> "Standing", last |-> "Standing", back |-> FALSE,
    health |-> 4, bombs |-> 4, ropes |-> 4, mount |-> "None",
    tamed |-> FALSE, pacifist |-> TRUE, noGold |-> TRUE, clover |-> FALSE,
    late |-> "No", moon |-> FALSE, sun |-> FALSE, spawned |-> {},
    rich |-> FALSE ]
In(s, items) == [Base0 EXCEPT !.stage = s, !.items = items]
Start == [Base0 EXCEPT !.time = 0]

Tiamat == StageAt(6, 4, "Tiamat")
SunkenStages ==
  { StageAt(1, 1, "Dwelling"), StageAt(2, 1, "Jungle"), StageAt(3, 1, "Olmec"),
    StageAt(4, 1, "TidePool"), StageAt(4, 1, "Temple"),
    Leaving(StageAt(4, 1, "Temple")), StageAt(4, 3, "TidePool"),
    StageAt(4, 3, "CityOfGold"), StageAt(4, 4, "Abzu"), StageAt(4, 4, "Duat"),
    StageAt(5, 1, "IceCaves"), Leaving(StageAt(6, 2, "NeoBabylon")),
    Tiamat, Won(Tiamat, "Tiamat"), StageAt(7, 4, "Hundun") }
SunkenItems ==
  { {}, {"Eye"}, {"Headwear"}, {"Ankh"}, {"Ankh", "Excalibur"},
    {"Ankh", "Scepter"}, {"Tablet"}, {"Ushabti"} }

SunkenSamples ==
  { In(s, I) : s \in SunkenStages, I \in SunkenItems }
  \cup { Start,
         [In(StageAt(4, 4, "Abzu"), {"Excalibur"}) EXCEPT !.state = "Attacking"],
         [In(Tiamat, {}) EXCEPT !.mount = "Qilin", !.tamed = TRUE],
         [In(Tiamat, {}) EXCEPT !.state = "Dying"],
         [In(StageAt(4, 3, "CityOfGold"), {}) EXCEPT !.state = "Stunned"],
         [In(StageAt(2, 1, "Jungle"), {}) EXCEPT !.health = 3] }

(* The Cosmic Ocean and Eggplant chains, and what breaks or makes the rest: *)
(* most of it happens in Hundun's stage, where every combination of the    *)
(* chains can still be told apart.                                          *)
Volcana   == StageAt(2, 1, "Volcana")
Ice       == StageAt(5, 1, "IceCaves")
Neo       == StageAt(6, 1, "NeoBabylon")
Sunken    == StageAt(7, 1, "SunkenCity")
Hundun    == StageAt(7, 4, "Hundun")
Ocean     == StageAt(7, 9, "CosmicOcean")

Hurt(s) ==
  { [In(s, {}) EXCEPT !.health = 3, !.ropes = 5],
    [In(s, {"Teleporter"}) EXCEPT !.spawned = {"Shadow", "Rope", "Ghost"}],
    [In(s, {"Curse"}) EXCEPT !.clover = TRUE, !.late = "IfCursed"],
    [In(s, {"CloneGun"}) EXCEPT !.pacifist = FALSE, !.noGold = FALSE],
    [In(s, {}) EXCEPT !.state = "Dying"] }

OtherSamples ==
  { In(s, I) : s \in {Leaving(Neo), Leaving(Sunken), Ocean},
               I \in { {}, {"Bow"} } }
  \cup { In(Leaving(Volcana), {"Eggplant"}), In(Leaving(Volcana), {}),
         In(StageAt(7, 2, "EggplantWorld"), {"EggplantCrown"}),
         In(Hundun, {"TrueCrown"}), In(Won(Hundun, "Hundun"), {}),
         In(Won(Ocean, "CosmicOcean"), {}),
         [In(Ice, {}) EXCEPT !.child = TRUE],
         [In(Ice, {"Mattock"}) EXCEPT !.state = "Attacking", !.back = TRUE,
                                      !.moon = TRUE, !.shortcut = TRUE],
         [In(Ice, {"Bow"}) EXCEPT !.last = "Attacking", !.back = TRUE],
         [In(Leaving(Neo), {}) EXCEPT !.child = TRUE, !.allies = {"Bow"}],
         [In(Leaving(Neo), {"Jetpack"}) EXCEPT !.waddler = {"Bow"}] }
  \cup Hurt(Hundun)

RunSamples == SunkenSamples \cup OtherSamples
=============================================================================
