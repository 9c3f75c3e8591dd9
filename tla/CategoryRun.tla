---------------------------- MODULE CategoryRun ----------------------------
(***************************************************************************)
(* What the category of a run promises its viewers, without the detectors: *)
(* within a run a modifier that is lost stays lost, the quest of the run   *)
(* only moves forward and fails for good, and a final death is final.  A   *)
(* run ends when the clock of the game goes back, and nothing else makes   *)
(* the tracker forget.                                                     *)
(***************************************************************************)
EXTENDS Naturals

CONSTANT Modifiers         \* the labels a run starts with and can lose

VARIABLES
  clock,       \* the time of the run when the tracker last looked
  modifiers,   \* the modifiers the run still has
  quest,       \* the state of the sunken quest
  over         \* the run has ended in a death

vars == << clock, modifiers, quest, over >>

\* the states a quest can be in after the next look
After(q) ==
  CASE q = "Unstarted"  -> {"Unstarted", "InProgress", "Failed"}
    [] q = "InProgress" -> {"InProgress", "Failed"}
    [] q = "Failed"     -> {"Failed"}

Init ==
  /\ clock = 0
  /\ modifiers = Modifiers
  /\ quest = "Unstarted"
  /\ over = FALSE

\* a look at the run that was seen last
Play ==
  /\ clock' \in Nat /\ clock' >= clock
  /\ modifiers' \subseteq modifiers
  /\ quest' \in After(quest)
  /\ over' \in BOOLEAN /\ (over => over')

\* the first look at a new run
NewRun ==
  /\ clock' \in Nat /\ clock' < clock
  /\ modifiers' \subseteq Modifiers
  /\ quest' \in After("Unstarted")
  /\ over' \in BOOLEAN

Next == Play \/ NewRun

Spec == Init /\ [][Next]_vars
=============================================================================
