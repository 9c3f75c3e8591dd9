-------------------------- MODULE ModLibraryProofs --------------------------
(***************************************************************************)
(* Proofs about the safety of ModLibrary, for any packs, versions, channel *)
(* capacity and number of user actions.                                    *)
(***************************************************************************)
EXTENDS ModLibrary, TLAPS

USE Distinct, WritersDiffer, BoundsAssumption

(***************************************************************************)
(* The parts of TypeOK, by who changes them                                *)
(***************************************************************************)
Scans == {"populate", "populated", "select", "listed", "failed", "diff"}
Managers == {"select", "deaf", "install", "update", "installed", "updated"}

CacheType ==
    /\ cache \in [Mods -> Contents] /\ listing \in [Mods -> Contents]
    /\ scan \in Scans
    /\ asked \in BOOLEAN /\ serving \in BOOLEAN

ManagerType ==
    /\ manager \in Managers
    /\ target \in Mods \cup {NoMod} /\ aim \in Contents
    /\ manager \notin {"select", "deaf"} => target \in Mods /\ aim \in Versions
    /\ lagged \in BOOLEAN

ChannelType ==
    /\ detected \in Seq(Detection) /\ Len(detected) <= Capacity
    /\ changes \in Seq(Change) /\ Len(changes) <= Capacity
    /\ lost \in BOOLEAN

DiskType ==
    /\ disk \in [Mods -> Contents]
    /\ since \subseteq Mods /\ excused \subseteq Mods

PageType ==
    /\ refetch \in BOOLEAN /\ stale \in BOOLEAN
    /\ actions \in 0..MaxActions

FileType ==
    /\ lines \subseteq Mods /\ dropped \subseteq Mods
    /\ writing \subseteq Writers
    /\ found \in [Writers -> SUBSET Mods]
    /\ \A w \in Writers \ writing : found[w] = {}

LEMMA TypeParts ==
  TypeOK <=> CacheType /\ ManagerType /\ ChannelType /\ DiskType /\ PageType /\ FileType
BY DEF TypeOK, CacheType, ManagerType, ChannelType, DiskType, PageType, FileType,
       Scans, Managers

(***************************************************************************)
(* Channels                                                                *)
(***************************************************************************)
LEMMA PushedType ==
  ASSUME NEW S, NEW q \in Seq(S), Len(q) <= Capacity, NEW msg \in S
  PROVE  Pushed(q, msg) \in Seq(S) /\ Len(Pushed(q, msg)) <= Capacity
<1>1. CASE Len(q) = Capacity
  <2>1. q # <<>>
    BY <1>1
  <2>2. Tail(q) \in Seq(S) /\ Len(Tail(q)) = Len(q) - 1
    BY <2>1
  <2>. QED BY <1>1, <2>2 DEF Pushed
<1>2. CASE Len(q) # Capacity
  <2>1. Append(q, msg) \in Seq(S) /\ Len(Append(q, msg)) = Len(q) + 1
    OBVIOUS
  <2>2. Len(q) \in Nat
    OBVIOUS
  <2>. QED BY <1>2, <2>1, <2>2 DEF Pushed
<1>. QED BY <1>1, <1>2

LEMMA PoppedType ==
  ASSUME NEW S, NEW q \in Seq(S), Len(q) <= Capacity, q # <<>>
  PROVE  /\ Head(q) \in S
         /\ Tail(q) \in Seq(S) /\ Len(Tail(q)) <= Capacity
<1>1. Len(Tail(q)) = Len(q) - 1 /\ Len(q) \in Nat
  OBVIOUS
<1>. QED BY <1>1

LEMMA DetectType ==
  ASSUME ChannelType, NEW kind \in {"added", "updated", "removed"},
         NEW m \in Mods, Detect(kind, m), UNCHANGED changes
  PROVE  ChannelType' /\ lagged' \in BOOLEAN
<1>1. <<kind, m>> \in Detection
  BY DEF Detection
<1>. QED BY <1>1, PushedType DEF ChannelType, Detect

LEMMA AnnounceType ==
  ASSUME ChannelType, NEW kind \in {"add", "update", "remove"},
         NEW m \in Mods, Announce(kind, m),
         detected' \in Seq(Detection), Len(detected') <= Capacity
  PROVE  ChannelType'
<1>1. <<kind, m>> \in Change
  BY DEF Change
<1>. QED BY <1>1, PushedType DEF ChannelType, Announce

LEMMA FinishesType == Finishes /\ UNCHANGED lagged /\ ManagerType => ManagerType'
BY DEF Finishes, ManagerType, Managers, Contents

LEMMA FileKept == FileType /\ UNCHANGED fileVars => FileType'
BY DEF FileType, fileVars

LEMMA ListsType ==
  ASSUME FileType, NEW w \in Writers, Lists(w) PROVE FileType'
<1>1. Installed \subseteq Mods
  BY DEF Installed
<1>. QED BY <1>1 DEF Lists, FileType

LEMMA WriteType ==
  ASSUME FileType, PageType, NEW w \in Writers, Write(w)
  PROVE  FileType' /\ PageType'
<1>1. /\ writing' \subseteq Writers /\ found' \in [Writers -> SUBSET Mods]
      /\ \A v \in Writers \ writing' : found'[v] = {}
  BY DEF Write, FileType
<1>2. found[w] \subseteq Mods
  BY DEF FileType
<1>3. lines' \subseteq Mods /\ dropped' \subseteq Mods
  BY <1>2 DEF Write, Writes, WriteFails, FileType
<1>4. actions' \in 0..MaxActions
  BY DEF Write, WriteFails, Acts, PageType
<1>5. refetch' \in BOOLEAN /\ stale' \in BOOLEAN
  BY DEF Write, Tell, PageType
<1>. QED BY <1>1, <1>3, <1>4, <1>5 DEF FileType, PageType

LEMMA SetDiskType ==
  ASSUME DiskType, NEW m \in Mods, NEW c \in Contents, SetDisk(m, c)
  PROVE  DiskType'
BY DEF DiskType, SetDisk

(***************************************************************************)
(* Type correctness                                                        *)
(***************************************************************************)
LEMMA CacheStepType ==
  ASSUME TypeOK, CacheStep \/ ScanFails PROVE TypeOK'
<1>0. CacheType /\ ManagerType /\ ChannelType /\ DiskType /\ PageType /\ FileType
  BY TypeParts
<1>. USE <1>0
<1>1. CASE \/ PopulateLists \/ Populate \/ ScanLists \/ ScanFails \/ FailureEnds
           \/ ScanLocks \/ ScanEnds
  <2>1. CacheType'
    BY <1>1 DEF PopulateLists, Populate, ScanLists, ScanFails, FailureEnds, ScanLocks,
                ScanEnds, CacheType, DiskType, Scans, Empty, Contents
  <2>2. UNCHANGED <<disk, managerVars, channels, refetch, fileVars, actions, stale,
                    excused, lost>>
    BY <1>1 DEF PopulateLists, Populate, ScanLists, ScanFails, FailureEnds, ScanLocks,
                ScanEnds, observers
  <2>3. since' \subseteq Mods
    BY <1>1 DEF PopulateLists, Populate, ScanLists, ScanFails, FailureEnds, ScanLocks,
                ScanEnds, observers, DiskType
  <2>4. ManagerType' /\ ChannelType' /\ DiskType' /\ PageType'
    BY <2>2, <2>3 DEF managerVars, channels, ManagerType, ChannelType, DiskType, PageType
  <2>. QED BY <2>1, <2>2, <2>4, FileKept, TypeParts DEF TypeOK, CacheType, ManagerType,
              ChannelType, DiskType, PageType, FileType, Scans, Managers
<1>2. ASSUME NEW m \in Mods, ScanCorrects(m) PROVE TypeOK'
  <2>1. CacheType'
    BY <1>2 DEF ScanCorrects, CacheType
  <2>2. Difference(m) \in {"added", "updated", "removed"}
    BY DEF Difference
  <2>3. ChannelType' /\ lagged' \in BOOLEAN
    BY <1>2, <2>2, DetectType DEF ScanCorrects
  <2>4. ManagerType' /\ DiskType' /\ PageType' /\ FileType'
    BY <1>2, <2>3, FileKept DEF ScanCorrects, ManagerType, DiskType, PageType
  <2>. QED BY <2>1, <2>3, <2>4, TypeParts DEF TypeOK, CacheType, ManagerType,
              ChannelType, DiskType, PageType, FileType, Scans, Managers
<1>. QED BY <1>1, <1>2 DEF CacheStep

LEMMA ManagerStepType ==
  ASSUME TypeOK, ManagerStep \/ ListMods \/ ListenerStep PROVE TypeOK'
<1>0. CacheType /\ ManagerType /\ ChannelType /\ DiskType /\ PageType /\ FileType
  BY TypeParts
<1>. USE <1>0
<1>a. ASSUME CacheType', ManagerType', ChannelType', DiskType', PageType', FileType'
      PROVE  TypeOK'
  BY <1>a DEF TypeOK, CacheType, ManagerType, ChannelType, DiskType, PageType, FileType,
              Scans, Managers
<1>1. CASE Forward
  <2>. DEFINE d == Head(detected)
              kind == CASE d[1] = "added" -> "add"
                        [] d[1] = "updated" -> "update"
                        [] d[1] = "removed" -> "remove"
  <2>1. detected # <<>> /\ detected' = Tail(detected) /\ Announce(kind, d[2])
    BY <1>1 DEF Forward
  <2>2. /\ d \in Detection
        /\ Tail(detected) \in Seq(Detection) /\ Len(Tail(detected)) <= Capacity
    BY <2>1, PoppedType DEF ChannelType
  <2>3. d[1] \in {"added", "updated", "removed"} /\ d[2] \in Mods
    BY <2>2 DEF Detection
  <2>4. kind \in {"add", "update", "remove"}
    BY <2>3
  <2>. HIDE DEF kind, d
  <2>5. ChannelType'
    BY <2>1, <2>2, <2>3, <2>4, AnnounceType
  <2>6. UNCHANGED <<disk, cacheVars, managerVars, refetch, fileVars, actions, stale,
                    since, excused>>
    BY <1>1 DEF Forward
  <2>. QED BY <1>a, <2>5, <2>6, FileKept DEF cacheVars, managerVars, CacheType, ManagerType,
              DiskType, PageType
<1>2. CASE Lag
  BY <1>2, <1>a, FileKept DEF Lag, cacheVars, channels, observers, CacheType, ManagerType,
                    ChannelType, DiskType, PageType, Managers
<1>3. CASE DiskInstalls
  <2>1. target \in Mods /\ aim \in Contents
    BY <1>3 DEF DiskInstalls, ManagerType
  <2>2. DiskType'
    BY <1>3, <2>1, SetDiskType DEF DiskInstalls, DiskType
  <2>3. ManagerType'
    <3>1. CASE manager' = "installed" /\ UNCHANGED <<target, aim>>
      BY <1>3, <3>1 DEF DiskInstalls, ManagerType, Managers
    <3>. QED BY <1>3, <3>1, FinishesType DEF DiskInstalls
  <2>. QED BY <1>3, <1>a, <2>2, <2>3, FileKept DEF DiskInstalls, cacheVars, channels,
              CacheType, ChannelType, PageType
<1>4. CASE DiskUpdates
  <2>1. target \in Mods /\ aim \in Contents /\ Versions \subseteq Contents
    BY <1>4 DEF DiskUpdates, ManagerType, Contents
  <2>2. DiskType'
    BY <1>4, <2>1, SetDiskType DEF DiskUpdates, DiskType
  <2>3. ManagerType'
    <3>1. CASE \E v \in Versions : manager' = "updated" /\ aim' = v /\ UNCHANGED target
      BY <1>4, <2>1, <3>1 DEF DiskUpdates, ManagerType, Managers
    <3>. QED BY <1>4, <3>1, FinishesType DEF DiskUpdates
  <2>. QED BY <1>4, <1>a, <2>2, <2>3, FileKept DEF DiskUpdates, channels, cacheVars,
              CacheType, ChannelType, PageType
<1>5. CASE CacheLearns
  <2>. DEFINE kind == IF manager = "installed" THEN "add" ELSE "update"
  <2>1. target \in Mods /\ aim \in Contents /\ kind \in {"add", "update", "remove"}
    BY <1>5 DEF CacheLearns, ManagerType
  <2>2. Announce(kind, target) /\ UNCHANGED detected
    BY <1>5 DEF CacheLearns
  <2>. HIDE DEF kind
  <2>3. ChannelType'
    BY <2>1, <2>2, AnnounceType DEF ChannelType
  <2>4. CacheType' /\ ManagerType' /\ DiskType' /\ PageType' /\ FileType'
    BY <1>5, <2>1, FinishesType, FileKept DEF CacheLearns, CacheType, DiskType, PageType
  <2>. QED BY <1>a, <2>3, <2>4
<1>6. CASE ListMods
  BY <1>6, <1>a, FileKept DEF ListMods, cacheVars, channels, observers, CacheType,
                    ManagerType, ChannelType, DiskType, PageType, Managers
<1>7. CASE Listen \/ ListenFails
  <2>1. Hear
    BY <1>7 DEF Listen, ListenFails
  <2>2. /\ changes \in Seq(Change) /\ Head(changes) \in Change
        /\ changes' \in Seq(Change) /\ Len(changes') <= Capacity
        /\ UNCHANGED <<detected, lost>>
    BY <2>1, PoppedType DEF Hear, ChannelType
  <2>3. CacheType' /\ ManagerType' /\ ChannelType' /\ DiskType'
    BY <2>1, <2>2 DEF Hear, cacheVars, managerVars, CacheType, ManagerType, ChannelType,
                      DiskType
  <2>4. PageType'
    <3>1. actions' \in 0..MaxActions
      BY <1>7 DEF Listen, ListenFails, Acts, PageType
    <3>2. refetch' \in BOOLEAN /\ stale' \in BOOLEAN
      BY <1>7 DEF Listen, ListenFails, Tell, PageType
    <3>. QED BY <3>1, <3>2 DEF PageType
  <2>5. FileType'
    <3>1. CASE Listen
      BY <3>1, ListsType, FileKept DEF Listen, Writers
    <3>2. CASE ListenFails
      <4>1. Head(changes)[2] \in Mods
        BY <2>2 DEF Change
      <4>. QED BY <3>2, <4>1 DEF ListenFails, FileType
    <3>. QED BY <1>7, <3>1, <3>2
  <2>. QED BY <1>a, <2>3, <2>4, <2>5
<1>8. CASE Write(Listener)
  BY <1>8, <1>a, WriteType DEF Writers, Write, cacheVars, managerVars, channels,
     CacheType, ManagerType, ChannelType, DiskType
<1>. QED BY <1>1, <1>2, <1>3, <1>4, <1>5, <1>6, <1>7, <1>8 DEF ManagerStep, ListenerStep

LEMMA UserType == ASSUME TypeOK, User PROVE TypeOK'
<1>0. CacheType /\ ManagerType /\ ChannelType /\ DiskType /\ PageType /\ FileType
  BY TypeParts
<1>. USE <1>0
<1>a. ASSUME CacheType', ManagerType', ChannelType', DiskType', PageType', FileType'
      PROVE  TypeOK'
  BY <1>a DEF TypeOK, CacheType, ManagerType, ChannelType, DiskType, PageType, FileType,
              Scans, Managers
<1>b. Acts => actions' \in 0..MaxActions
  BY DEF Acts, PageType
<1>c. \A m \in Mods : disk[m] \in Contents /\ (disk[m] # Absent => disk[m] \in Versions)
  BY DEF DiskType, Contents
<1>d. Absent \in Contents /\ Versions \subseteq Contents
  BY DEF Contents
<1>1. ASSUME NEW m \in Mods, NEW v \in Versions, InstallMod(m, v) PROVE TypeOK'
  <2>1. ManagerType' /\ PageType'
    BY <1>1, <1>b, <1>d DEF InstallMod, Command, ManagerType, PageType, Managers,
                            observers
  <2>. QED BY <1>1, <1>a, <2>1, FileKept DEF InstallMod, cacheVars, channels, observers,
              CacheType, ChannelType, DiskType
<1>2. ASSUME NEW m \in Mods, UpdateMod(m) PROVE TypeOK'
  <2>1. DiskType'
    BY <1>2, <1>d, SetDiskType DEF UpdateMod
  <2>2. ManagerType' /\ PageType'
    BY <1>2, <1>b, <1>c DEF UpdateMod, Command, ManagerType, PageType, Managers
  <2>. QED BY <1>2, <1>a, <2>1, <2>2, FileKept DEF UpdateMod, cacheVars, channels, CacheType,
              ChannelType
<1>3. ASSUME NEW m \in Mods, RemoveMod(m) PROVE TypeOK'
  <2>1. DiskType'
    BY <1>3, <1>d, SetDiskType DEF RemoveMod, DiskType
  <2>2. ManagerType' /\ PageType'
    BY <1>3, <1>b, <1>d DEF RemoveMod, Command, ManagerType, PageType, Managers
  <2>3. ChannelType'
    <3>1. CASE Announce("remove", m)
      BY <1>3, <3>1, AnnounceType DEF RemoveMod, ChannelType
    <3>2. CASE UNCHANGED <<changes, lost>>
      BY <1>3, <3>2 DEF RemoveMod, ChannelType
    <3>. QED BY <1>3, <3>1, <3>2 DEF RemoveMod
  <2>. QED BY <1>3, <1>a, <2>1, <2>2, <2>3, FileKept DEF RemoveMod, cacheVars, CacheType
<1>4. ASSUME NEW m \in Mods, NEW c \in Contents, Edit(m, c) PROVE TypeOK'
  <2>1. DiskType'
    BY <1>4, SetDiskType DEF Edit
  <2>. QED BY <1>4, <1>a, <1>b, <2>1, FileKept DEF Edit, cacheVars, managerVars, channels,
              CacheType, ManagerType, ChannelType, PageType
<1>5. ASSUME NEW c \in Callers, Launch(c) PROVE TypeOK'
  <2>1. FileType'
    BY <1>5, ListsType DEF Launch, Writers
  <2>. QED BY <1>5, <1>a, <1>b, <2>1 DEF Launch, cacheVars, managerVars, channels,
              observers, CacheType, ManagerType, ChannelType, DiskType, PageType
<1>7. ASSUME NEW c \in Callers, Write(c) PROVE TypeOK'
  BY <1>7, <1>a, WriteType DEF Writers, Write, cacheVars, managerVars, channels,
     CacheType, ManagerType, ChannelType, DiskType
<1>6. CASE ScanNow
  BY <1>6, <1>a, <1>b, FileKept DEF ScanNow, managerVars, channels, CacheType, ManagerType,
                          ChannelType, DiskType, PageType
<1>. QED BY <1>1, <1>2, <1>3, <1>4, <1>5, <1>6, <1>7 DEF User

LEMMA TypeStep == TypeOK /\ [Next]_vars => TypeOK'
<1>1. CASE UNCHANGED vars
  BY <1>1 DEF vars, cacheVars, managerVars, channels, fileVars, observers, TypeOK
<1>. QED BY <1>1, CacheStepType, ManagerStepType, UserType DEF Next

LEMMA TypeInit == Init => TypeOK
<1>. SUFFICES ASSUME Init PROVE TypeOK
  OBVIOUS
<1>1. CacheType /\ ManagerType /\ DiskType
  BY DEF Init, CacheType, ManagerType, DiskType, Empty, Contents, Scans, Managers
<1>2. <<>> \in Seq(Detection) /\ <<>> \in Seq(Change) /\ Len(<<>>) = 0
  OBVIOUS
<1>3. ChannelType
  <2>1. detected = <<>> /\ changes = <<>> /\ lost \in BOOLEAN
    BY DEF Init
  <2>2. 0 <= Capacity
    BY BoundsAssumption
  <2>3. Len(detected) = 0 /\ Len(changes) = 0
    BY <1>2, <2>1
  <2>4. detected \in Seq(Detection) /\ changes \in Seq(Change)
    BY <1>2, <2>1
  <2>5. Len(detected) <= Capacity /\ Len(changes) <= Capacity
    BY <2>2, <2>3
  <2>. QED BY <2>1, <2>4, <2>5 DEF ChannelType
<1>4. PageType
  <2>1. actions \in 0..MaxActions
    <3>1. actions = 0
      BY DEF Init
    <3>2. 0 \in 0..MaxActions
      BY BoundsAssumption
    <3>. QED BY <3>1, <3>2
  <2>3. refetch \in BOOLEAN /\ stale \in BOOLEAN
    BY DEF Init
  <2>. QED BY <2>1, <2>3 DEF PageType
<1>5. FileType
  BY DEF Init, Installed, FileType
<1>. QED BY <1>1, <1>3, <1>4, <1>5, TypeParts

(* Type correctness, with both channels within their capacity and a        *)
(* command that is under way about a pack and a version.                   *)
THEOREM TypeCorrect == Spec => []TypeOK
BY TypeInit, TypeStep, PTL DEF Spec

(***************************************************************************)
(* A refresh.  From the listing on, the scan that serves it is right about *)
(* every pack that has not been touched since the call.                    *)
(***************************************************************************)
ListingIsFresh ==
  serving => /\ scan \in {"listed", "diff", "failed"}
             /\ scan # "failed" => \A m \in Mods \ since : listing[m] = disk[m]

LEMMA FreshSetDisk ==
  ASSUME TypeOK, ListingIsFresh, NEW m \in Mods, NEW c, SetDisk(m, c),
         UNCHANGED <<serving, scan, listing>>
  PROVE  ListingIsFresh'
BY DEF TypeOK, ListingIsFresh, SetDisk

LEMMA FreshStep ==
  TypeOK /\ ListingIsFresh /\ [Next]_vars =>
    /\ ListingIsFresh'
    /\ [serving /\ ~serving' =>
          scan = "failed" \/ \A m \in Mods \ since : cache[m] = disk[m]]_vars
<1>. DEFINE Fresh == scan = "failed" \/ \A m \in Mods \ since : cache[m] = disk[m]
<1>. SUFFICES ASSUME TypeOK, ListingIsFresh, [Next]_vars
              PROVE  ListingIsFresh' /\ [serving /\ ~serving' => Fresh]_vars
  OBVIOUS
<1>a. ASSUME ListingIsFresh', UNCHANGED serving
      PROVE  ListingIsFresh' /\ [serving /\ ~serving' => Fresh]_vars
  BY <1>a
<1>b. ASSUME UNCHANGED <<serving, scan, listing, disk, since>>
      PROVE  ListingIsFresh' /\ [serving /\ ~serving' => Fresh]_vars
  BY <1>b DEF ListingIsFresh
<1>1. CASE UNCHANGED vars
  BY <1>1, <1>b DEF vars, cacheVars, observers
<1>2. CASE PopulateLists \/ Populate \/ ScanLocks
  BY <1>2, <1>a DEF PopulateLists, Populate, ScanLocks, observers, ListingIsFresh
<1>13. CASE ScanFails
  BY <1>13 DEF ScanFails, ListingIsFresh
<1>14. CASE FailureEnds
  BY <1>14 DEF FailureEnds, ListingIsFresh
<1>3. CASE ScanLists
  <2>1. /\ ~serving /\ scan' = "listed" /\ listing' = disk
        /\ UNCHANGED <<disk, since>>
    BY <1>3 DEF ScanLists, observers, ListingIsFresh
  <2>. QED BY <2>1 DEF ListingIsFresh
<1>4. CASE ScanEnds
  <2>1. \A m \in Mods : cache[m] = listing[m]
    BY <1>4 DEF ScanEnds, Differs
  <2>2. serving => Fresh
    BY <2>1 DEF ListingIsFresh
  <2>3. ~serving'
    BY <1>4 DEF ScanEnds
  <2>. QED BY <2>2, <2>3 DEF ListingIsFresh
<1>5. ASSUME NEW m \in Mods, ScanCorrects(m)
      PROVE  ListingIsFresh' /\ [serving /\ ~serving' => Fresh]_vars
  BY <1>5, <1>b DEF ScanCorrects
<1>6. CASE Forward \/ Lag \/ CacheLearns \/ ListMods \/ ListenerStep
  BY <1>6, <1>b DEF Forward, Lag, CacheLearns, ListMods, ListenerStep, Listen,
                    ListenFails, Hear, Write, cacheVars, observers
<1>15. ASSUME NEW c \in Callers, Launch(c) \/ Write(c)
       PROVE  ListingIsFresh' /\ [serving /\ ~serving' => Fresh]_vars
  BY <1>15, <1>b DEF Launch, Write, cacheVars, observers
<1>7. CASE DiskInstalls
  <2>1. target \in Mods /\ UNCHANGED <<serving, scan, listing>>
    BY <1>7 DEF DiskInstalls, cacheVars, TypeOK
  <2>. QED BY <1>7, <1>a, <1>b, <2>1, FreshSetDisk DEF DiskInstalls
<1>8. CASE DiskUpdates
  <2>1. target \in Mods /\ UNCHANGED <<serving, scan, listing>>
    BY <1>8 DEF DiskUpdates, cacheVars, TypeOK
  <2>. QED BY <1>8, <1>a, <1>b, <2>1, FreshSetDisk DEF DiskUpdates
<1>9. ASSUME NEW m \in Mods, NEW v \in Versions, InstallMod(m, v)
      PROVE  ListingIsFresh' /\ [serving /\ ~serving' => Fresh]_vars
  BY <1>9, <1>b DEF InstallMod, cacheVars, observers
<1>10. ASSUME NEW m \in Mods, UpdateMod(m) \/ RemoveMod(m)
       PROVE  ListingIsFresh' /\ [serving /\ ~serving' => Fresh]_vars
  <2>1. UNCHANGED <<serving, scan, listing>>
    BY <1>10 DEF UpdateMod, RemoveMod, cacheVars
  <2>2. SetDisk(m, Absent) \/ UNCHANGED <<disk, since>>
    BY <1>10 DEF UpdateMod, RemoveMod
  <2>. QED BY <1>a, <1>b, <2>1, <2>2, FreshSetDisk
<1>11. ASSUME NEW m \in Mods, NEW c \in Contents, Edit(m, c)
       PROVE  ListingIsFresh' /\ [serving /\ ~serving' => Fresh]_vars
  BY <1>11, <1>a, FreshSetDisk DEF Edit, cacheVars
<1>12. CASE ScanNow
  BY <1>12, <1>a DEF ScanNow, ListingIsFresh
<1>. QED BY <1>1, <1>2, <1>3, <1>4, <1>5, <1>6, <1>7, <1>8, <1>9, <1>10, <1>11,
            <1>12, <1>13, <1>14, <1>15 DEF Next, CacheStep, ManagerStep, User

(* When scan_now returns and the mods folder could be listed, the cache is *)
(* right about every pack that has not been changed since the call,        *)
(* whatever installs, updates and edits came between the listing, the lock *)
(* and the answer (cache.rs local_scan).  When it could not be listed      *)
(* scan_now returns as well, and nothing is promised.                      *)
THEOREM RefreshFresh == Spec => RefreshIsFresh
<1>1. Init => ListingIsFresh
  BY DEF Init, ListingIsFresh
<1>. QED BY <1>1, TypeInit, TypeStep, FreshStep, PTL DEF Spec, RefreshIsFresh

(***************************************************************************)
(* The page is told                                                        *)
(***************************************************************************)
LEMMA PushedIsNotEmpty ==
  ASSUME NEW S, NEW q \in Seq(S), NEW msg \in S PROVE Pushed(q, msg) # <<>>
<1>1. \A r \in Seq(S) : Append(r, msg) # <<>>
  <2>. SUFFICES ASSUME NEW r \in Seq(S) PROVE Append(r, msg) # <<>>
    OBVIOUS
  <2>1. Len(Append(r, msg)) = Len(r) + 1 /\ Len(r) \in Nat
    OBVIOUS
  <2>. QED BY <2>1
<1>2. CASE Len(q) = Capacity
  <2>1. q # <<>>
    BY <1>2
  <2>2. Tail(q) \in Seq(S)
    BY <2>1
  <2>3. Append(Tail(q), msg) # <<>>
    BY <1>1, <2>2
  <2>. QED BY <1>2, <2>3 DEF Pushed
<1>3. CASE Len(q) # Capacity
  BY <1>1, <1>3 DEF Pushed
<1>. QED BY <1>2, <1>3

LEMMA DetectFills ==
  ASSUME ChannelType, NEW m \in Mods, Detect(Difference(m), m)
  PROVE  detected' # <<>>
<1>1. <<Difference(m), m>> \in Detection
  BY DEF Difference, Detection
<1>. QED BY <1>1, PushedIsNotEmpty DEF ChannelType, Detect

LEMMA AnnounceFills ==
  ASSUME ChannelType, NEW m \in Mods,
         NEW kind \in {"add", "update", "remove"}, Announce(kind, m)
  PROVE  changes' # <<>>
<1>1. <<kind, m>> \in Change
  BY DEF Change
<1>. QED BY <1>1, PushedIsNotEmpty DEF ChannelType, Announce

\* what the manager makes of a detection
Kind(d) == CASE d[1] = "added" -> "add"
             [] d[1] = "updated" -> "update"
             [] d[1] = "removed" -> "remove"

LEMMA Forwarded ==
  ASSUME TypeOK, Forward
  PROVE  /\ detected # <<>> /\ detected' = Tail(detected)
         /\ Head(detected) \in Detection
         /\ Head(detected)[2] \in Mods
         /\ Kind(Head(detected)) \in {"add", "update", "remove"}
         /\ Head(detected)[1] = "added" => Kind(Head(detected)) = "add"
         /\ Announce(Kind(Head(detected)), Head(detected)[2])
<1>1. detected # <<>> /\ detected' = Tail(detected)
  BY DEF Forward
<1>2. Announce(Kind(Head(detected)), Head(detected)[2])
  BY DEF Forward, Kind
<1>3. Head(detected) \in Detection
  BY <1>1, PoppedType DEF TypeOK
<1>4. Head(detected)[1] \in {"added", "updated", "removed"} /\ Head(detected)[2] \in Mods
  BY <1>3 DEF Detection
<1>. QED BY <1>1, <1>2, <1>3, <1>4 DEF Kind

LEMMA WaitingStep == TypeOK /\ StaleIsWaiting /\ [Next]_vars => StaleIsWaiting'
<1>. SUFFICES ASSUME TypeOK, StaleIsWaiting, [Next]_vars PROVE StaleIsWaiting'
  OBVIOUS
<1>0. ChannelType /\ ManagerType
  BY TypeParts
<1>a. ASSUME UNCHANGED <<stale, detected, changes, writing>> PROVE StaleIsWaiting'
  BY <1>a DEF StaleIsWaiting
<1>1. ASSUME NEW m \in Mods, ScanCorrects(m) PROVE StaleIsWaiting'
  BY <1>0, <1>1, DetectFills DEF ScanCorrects, StaleIsWaiting
<1>2. CASE Forward
  BY <1>0, <1>2, Forwarded, AnnounceFills DEF StaleIsWaiting
<1>3. CASE CacheLearns
  <2>1. target \in Mods
    BY <1>0, <1>3 DEF CacheLearns, ManagerType
  <2>. QED BY <1>0, <1>3, <2>1, AnnounceFills DEF CacheLearns, StaleIsWaiting
<1>4. CASE ListenerStep
  BY <1>4 DEF ListenerStep, Listen, ListenFails, Hear, Lists, Tell, Write, StaleIsWaiting
<1>8. ASSUME NEW c \in Callers, Launch(c) \/ Write(c) PROVE StaleIsWaiting'
  BY <1>8 DEF Launch, Lists, Write, channels, observers, StaleIsWaiting
<1>5. ASSUME NEW m \in Mods, RemoveMod(m) PROVE StaleIsWaiting'
  <2>1. CASE Announce("remove", m)
    BY <1>0, <2>1, AnnounceFills DEF StaleIsWaiting
  <2>2. CASE UNCHANGED changes
    BY <1>5, <2>2, <1>a DEF RemoveMod, fileVars
  <2>. QED BY <1>5, <2>1, <2>2 DEF RemoveMod
<1>6. CASE \/ PopulateLists \/ Populate \/ ScanLists \/ ScanLocks \/ ScanEnds
           \/ ScanFails \/ FailureEnds \/ Lag \/ DiskInstalls \/ DiskUpdates \/ ListMods
           \/ ScanNow \/ UNCHANGED vars
  BY <1>6, <1>a DEF PopulateLists, Populate, ScanLists, ScanLocks, ScanEnds, ScanFails,
     FailureEnds, Lag, DiskInstalls, DiskUpdates, ListMods, ScanNow, vars, channels,
     fileVars, observers
<1>7. ASSUME NEW m \in Mods,
             \/ \E v \in Versions : InstallMod(m, v)
             \/ UpdateMod(m)
             \/ \E c \in Contents : Edit(m, c)
      PROVE  StaleIsWaiting'
  BY <1>7, <1>a DEF InstallMod, UpdateMod, Edit, channels, fileVars, observers
<1>. QED BY <1>1, <1>2, <1>3, <1>4, <1>5, <1>6, <1>7, <1>8
         DEF Next, CacheStep, ManagerStep, User

(* What the page has not been told waits in a channel or in the listener's *)
(* hand, even when a channel has overflowed: what pushes a message out is  *)
(* itself a message.                                                       *)
THEOREM PageIsGoingToBeTold == Spec => []StaleIsWaiting
<1>1. Init => StaleIsWaiting
  BY DEF Init, StaleIsWaiting
<1>. QED BY <1>1, TypeCorrect, WaitingStep, PTL DEF Spec

(***************************************************************************)
(* No pack is forgotten.  Of the packs that are not excused: none has left *)
(* the disk, so one that is not there has never been seen by anybody; an   *)
(* update, which moves its pack away, has excused it; and one that is      *)
(* known, or going to be from the first listing, has its line, is waited   *)
(* for, or is dropped.  While the listener writes, what it writes has to   *)
(* do, for it may take away what others have written.                      *)
(***************************************************************************)
NeverThere ==
  \A m \in Mods \ excused :
    disk[m] = Absent =>
      /\ cache[m] = Absent /\ listing[m] = Absent
      /\ m \notin lines /\ \A w \in Writers : m \notin found[w]

Away ==
  /\ manager \in {"update", "updated"} => target \in excused
  /\ manager = "installed" /\ target \notin excused => disk[target] # Absent

Known(m) ==
  \/ cache[m] # Absent
  \/ scan = "populate" /\ disk[m] # Absent
  \/ scan = "populated" /\ listing[m] # Absent

\* the arrival of m has been noticed, and waits for the listener
Coming(m) == Waits(detected, <<"added", m>>) \/ Waits(changes, <<"add", m>>)

Given(m) == m \in lines \/ m \in dropped \/ m \in found[Listener] \/ Coming(m)
Listed(m) == Listener \in writing => m \in found[Listener] \/ Coming(m)

NotForgotten == ~lost => \A m \in Mods \ excused : Known(m) => Given(m) /\ Listed(m)

LineInv == NeverThere /\ Away /\ NotForgotten

LEMMA LineKnown == LineInv => KnownPacksHaveLines
BY DEF LineInv, NeverThere, NotForgotten, Known, Given, Coming, KnownPacksHaveLines,
       IsExpected

\* a step forgets no arrival that waits, unless a channel has overflowed
Kept == ~lost' => ~lost /\ \A m \in Mods : Coming(m) => Coming(m)'

LEMMA WaitsPushed ==
  ASSUME NEW S, NEW q \in Seq(S), NEW msg \in S, Len(q) # Capacity
  PROVE  /\ Waits(Pushed(q, msg), msg)
         /\ \A e : Waits(q, e) => Waits(Pushed(q, msg), e)
<1>1. Pushed(q, msg) = Append(q, msg) /\ Len(q) \in Nat
  BY DEF Pushed
<1>2. /\ Len(Append(q, msg)) = Len(q) + 1
      /\ Append(q, msg)[Len(q) + 1] = msg
      /\ \A i \in 1..Len(q) : Append(q, msg)[i] = q[i]
  OBVIOUS
<1>3. Waits(Pushed(q, msg), msg)
  <2>1. Len(q) + 1 \in 1..Len(Append(q, msg))
    BY <1>1, <1>2
  <2>. QED BY <1>1, <1>2, <2>1 DEF Waits
<1>4. ASSUME NEW e, Waits(q, e) PROVE Waits(Pushed(q, msg), e)
  <2>1. PICK i \in 1..Len(q) : q[i] = e
    BY <1>4 DEF Waits
  <2>2. i \in 1..Len(Append(q, msg)) /\ Append(q, msg)[i] = e
    BY <1>1, <1>2, <2>1
  <2>. QED BY <1>1, <2>2 DEF Waits
<1>. QED BY <1>3, <1>4

LEMMA WaitsPopped ==
  ASSUME NEW S, NEW q \in Seq(S), q # <<>>, NEW e, Waits(q, e), e # Head(q)
  PROVE  Waits(Tail(q), e)
<1>1. PICK i \in 1..Len(q) : q[i] = e
  BY DEF Waits
<1>2. Head(q) = q[1]
  OBVIOUS
<1>3. /\ Len(q) \in Nat /\ Len(Tail(q)) = Len(q) - 1
      /\ \A j \in 1..Len(Tail(q)) : Tail(q)[j] = q[j + 1]
  OBVIOUS
<1>4. i # 1
  BY <1>1, <1>2
<1>5. i - 1 \in 1..Len(Tail(q)) /\ (i - 1) + 1 = i
  BY <1>1, <1>3, <1>4
<1>6. Tail(q)[i - 1] = e
  BY <1>1, <1>3, <1>5
<1>. QED BY <1>5, <1>6 DEF Waits

LEMMA DetectKeeps ==
  ASSUME ChannelType, NEW m \in Mods, Detect(Difference(m), m), UNCHANGED changes
  PROVE  /\ Kept
         /\ ~lost' /\ Difference(m) = "added" => Coming(m)'
<1>1. /\ <<Difference(m), m>> \in Detection
      /\ \A n \in Mods : <<"added", n>> \in Detection
  BY DEF Difference, Detection
<1>2. detected \in Seq(Detection) /\ detected' = Pushed(detected, <<Difference(m), m>>)
  BY DEF ChannelType, Detect
<1>. SUFFICES ASSUME ~lost'
              PROVE  /\ ~lost /\ \A n \in Mods : Coming(n) => Coming(n)'
                     /\ Difference(m) = "added" => Coming(m)'
  BY DEF Kept
<1>3. ~lost /\ Len(detected) # Capacity
  BY DEF Detect
<1>4. /\ Waits(detected', <<Difference(m), m>>)
      /\ \A e : Waits(detected, e) => Waits(detected', e)
  BY <1>1, <1>2, <1>3, WaitsPushed
<1>. QED BY <1>3, <1>4 DEF Coming

LEMMA AnnounceKeeps ==
  ASSUME ChannelType, NEW m \in Mods, NEW kind \in {"add", "update", "remove"},
         Announce(kind, m)
  PROVE  ~lost' => /\ ~lost
                   /\ \A e : Waits(changes, e) => Waits(changes', e)
                   /\ Waits(changes', <<kind, m>>)
<1>1. <<kind, m>> \in Change
  BY DEF Change
<1>. SUFFICES ASSUME ~lost'
              PROVE  /\ ~lost
                     /\ \A e : Waits(changes, e) => Waits(changes', e)
                     /\ Waits(changes', <<kind, m>>)
  OBVIOUS
<1>2. ~lost /\ Len(changes) # Capacity /\ changes' = Pushed(changes, <<kind, m>>)
  BY DEF Announce
<1>. QED BY <1>1, <1>2, WaitsPushed DEF ChannelType

LEMMA ForwardKeeps == TypeOK /\ Forward => Kept
<1>. SUFFICES ASSUME TypeOK, Forward, ~lost'
              PROVE  ~lost /\ \A m \in Mods : Coming(m) => Coming(m)'
  BY DEF Kept
<1>. DEFINE d == Head(detected)
<1>1. /\ detected # <<>> /\ detected' = Tail(detected) /\ d \in Detection /\ d[2] \in Mods
      /\ Kind(d) \in {"add", "update", "remove"}
      /\ d[1] = "added" => Kind(d) = "add"
      /\ Announce(Kind(d), d[2])
  BY Forwarded
<1>. HIDE DEF d
<1>2. /\ ~lost /\ \A e : Waits(changes, e) => Waits(changes', e)
      /\ Waits(changes', <<Kind(d), d[2]>>)
  BY <1>1, TypeParts, AnnounceKeeps
<1>3. ASSUME NEW m \in Mods, Coming(m) PROVE Coming(m)'
  <2>1. CASE Waits(changes, <<"add", m>>)
    BY <1>2, <2>1 DEF Coming
  <2>2. CASE Waits(detected, <<"added", m>>) /\ d = <<"added", m>>
    BY <1>1, <1>2, <2>2 DEF Coming
  <2>3. CASE Waits(detected, <<"added", m>>) /\ d # <<"added", m>>
    BY <1>1, <2>3, WaitsPopped DEF Coming, d, TypeOK
  <2>. QED BY <1>3, <2>1, <2>2, <2>3 DEF Coming
<1>. QED BY <1>2, <1>3

LEMMA QuietKeeps == UNCHANGED <<detected, changes, lost>> => Kept
BY DEF Kept, Coming, Waits

\* a step after which more may be known, but of nobody else's business
LEMMA LineLearns ==
  ASSUME LineInv, Kept, Away', UNCHANGED <<disk, fileVars, excused>>,
         \A m \in Mods \ excused :
           /\ disk[m] = Absent => cache'[m] = Absent /\ listing'[m] = Absent
           /\ ~lost' /\ Known(m)' => Known(m) \/ Coming(m)'
  PROVE  LineInv'
<1>1. NeverThere'
  BY DEF LineInv, NeverThere, fileVars
<1>2. ASSUME ~lost', NEW m \in Mods \ excused, Known(m)' PROVE Given(m)' /\ Listed(m)'
  <2>1. Known(m) \/ Coming(m)'
    BY <1>2
  <2>2. ~lost /\ (Coming(m) => Coming(m)')
    BY <1>2 DEF Kept
  <2>. QED BY <2>1, <2>2 DEF LineInv, NotForgotten, Given, Listed, fileVars
<1>. QED BY <1>1, <1>2 DEF LineInv, NotForgotten

\* a step that only the manager or the channels notice
LEMMA LineMessages ==
  ASSUME LineInv, Kept, Away',
         UNCHANGED <<disk, cache, scan, listing, fileVars, excused>>
  PROVE  LineInv'
<1>1. \A m \in Mods \ excused : disk[m] = Absent => cache[m] = Absent /\ listing[m] = Absent
  BY DEF LineInv, NeverThere
<1>2. \A m : Known(m)' => Known(m)
  BY DEF Known
<1>. QED BY <1>1, <1>2, LineLearns

\* a step that changes a pack on disk
LEMMA LineSetDisk ==
  ASSUME TypeOK, LineInv, Kept, Away', NEW m \in Mods, NEW c, SetDisk(m, c),
         UNCHANGED <<cache, scan, listing, fileVars>>
  PROVE  LineInv'
<1>1. /\ disk' = [disk EXCEPT ![m] = c] /\ disk \in [Mods -> Contents]
      /\ excused \subseteq excused'
      /\ c = Absent \/ scan = "populate" => m \in excused'
  BY DEF SetDisk, TypeOK
<1>2. NeverThere'
  BY <1>1 DEF LineInv, NeverThere, fileVars
<1>3. ASSUME ~lost', NEW n \in Mods \ excused', Known(n)' PROVE Given(n)' /\ Listed(n)'
  <2>1. Known(n) /\ n \notin excused
    BY <1>1, <1>3 DEF Known
  <2>2. ~lost /\ (Coming(n) => Coming(n)')
    BY <1>3 DEF Kept
  <2>. QED BY <2>1, <2>2 DEF LineInv, NotForgotten, Given, Listed, fileVars
<1>. QED BY <1>2, <1>3 DEF LineInv, NotForgotten

\* the packs are listed, by the listener for a message it has taken
LEMMA LineLists ==
  ASSUME TypeOK, LineInv, Away', NEW w \in Writers, Lists(w), ~lost' => ~lost,
         w # Listener => Kept, UNCHANGED <<disk, cache, scan, listing, excused>>
  PROVE  LineInv'
<1>1. /\ found[w] \subseteq Mods /\ found'[w] = {m \in Mods : disk[m] # Absent}
      /\ \A v \in Writers : v # w => found'[v] = found[v]
      /\ UNCHANGED <<lines, dropped>> /\ writing' = writing \cup {w}
  BY DEF Lists, Installed, TypeOK
<1>2. NeverThere'
  BY <1>1 DEF LineInv, NeverThere
<1>3. ASSUME ~lost', NEW m \in Mods \ excused, Known(m)' PROVE Given(m)' /\ Listed(m)'
  <2>1. Known(m) /\ ~lost
    BY <1>3 DEF Known
  <2>2. CASE w = Listener
    <3>1. disk[m] # Absent
      BY <2>1 DEF Known, LineInv, NeverThere
    <3>. QED BY <1>1, <2>2, <3>1 DEF Given, Listed
  <2>3. CASE w # Listener
    <3>1. Coming(m) => Coming(m)'
      BY <1>3, <2>3 DEF Kept
    <3>2. found'[Listener] = found[Listener]
      BY <1>1, <2>3 DEF Writers
    <3>. QED BY <1>1, <2>1, <2>3, <3>1, <3>2 DEF LineInv, NotForgotten, Given, Listed
  <2>. QED BY <2>2, <2>3
<1>. QED BY <1>2, <1>3 DEF LineInv, NotForgotten

\* load_order.txt is written, or not quite
LEMMA LineWrites ==
  ASSUME TypeOK, LineInv, NEW w \in Writers, Write(w) PROVE LineInv'
<1>1. /\ UNCHANGED <<disk, cache, scan, listing, excused, manager, target, detected,
                     changes, lost>>
      /\ w \in writing /\ writing' = writing \ {w} /\ found'[w] = {}
      /\ \A v \in Writers : v # w => found'[v] = found[v]
      /\ Writes(w) \/ WriteFails(w)
  BY DEF Write, cacheVars, managerVars, channels, TypeOK
<1>2. lines' \subseteq lines \cup found[w]
  BY <1>1 DEF Writes, WriteFails
<1>3. Away'
  BY <1>1 DEF LineInv, Away
<1>4. NeverThere'
  BY <1>1, <1>2 DEF LineInv, NeverThere
<1>5. ASSUME ~lost', NEW m \in Mods \ excused, Known(m)' PROVE Given(m)' /\ Listed(m)'
  <2>1. Given(m) /\ Listed(m) /\ (Coming(m) => Coming(m)')
    BY <1>1, <1>5 DEF LineInv, NotForgotten, Known, Coming, Waits
  <2>2. CASE w = Listener
    <3>1. m \in found[Listener] \/ Coming(m)
      BY <1>1, <2>1, <2>2 DEF Listed
    <3>2. m \in found[Listener] => m \in lines' \/ m \in dropped'
      BY <1>1, <2>2 DEF Writes, WriteFails
    <3>3. Listener \notin writing'
      BY <1>1, <2>2
    <3>. QED BY <2>1, <3>1, <3>2, <3>3 DEF Given, Listed
  <2>3. CASE w # Listener
    <3>1. m \in lines \/ m \in dropped => m \in lines' \/ m \in dropped'
      BY <1>1, <2>3 DEF Writes, WriteFails
    <3>2. found'[Listener] = found[Listener] /\ (Listener \in writing' => Listener \in writing)
      BY <1>1, <2>3 DEF Writers
    <3>. QED BY <2>1, <3>1, <3>2 DEF Given, Listed
  <2>. QED BY <2>2, <2>3
<1>. QED BY <1>3, <1>4, <1>5, <1>1 DEF LineInv, NotForgotten

LEMMA LineCache ==
  ASSUME TypeOK, LineInv, CacheStep \/ ScanFails PROVE LineInv'
<1>0. CacheType /\ ManagerType /\ ChannelType /\ DiskType
  BY TypeParts
<1>a. ASSUME UNCHANGED <<manager, target, disk, excused>> PROVE Away'
  BY <1>a DEF LineInv, Away
<1>b. \A m \in Mods \ excused : disk[m] = Absent => cache[m] = Absent /\ listing[m] = Absent
  BY DEF LineInv, NeverThere
<1>1. CASE PopulateLists \/ ScanLists
  <2>1. /\ UNCHANGED <<disk, cache, fileVars, excused, manager, target, detected, changes,
                       lost>>
        /\ listing' = disk \/ UNCHANGED listing
        /\ scan' # "populate"
        /\ scan' = "populated" => listing' = disk /\ scan = "populate"
    BY <1>1 DEF PopulateLists, ScanLists, managerVars, channels, observers
  <2>2. \A m : Known(m)' => Known(m)
    BY <2>1 DEF Known
  <2>. QED BY <1>a, <1>b, <2>1, <2>2, QuietKeeps, LineLearns
<1>2. CASE Populate
  <2>1. /\ scan = "populated" /\ scan' = "select" /\ listing' = Empty
        /\ cache' = listing \/ cache' = cache
        /\ UNCHANGED <<disk, fileVars, excused, manager, target, detected, changes, lost>>
    BY <1>2 DEF Populate, managerVars, channels, observers
  <2>2. \A m \in Mods : listing'[m] = Absent
    BY <2>1 DEF Empty
  <2>3. \A m \in Mods : Known(m)' => Known(m)
    BY <2>1 DEF Known
  <2>. QED BY <1>a, <1>b, <2>1, <2>2, <2>3, QuietKeeps, LineLearns
<1>3. CASE ScanEnds
  <2>1. /\ scan' = "select" /\ listing' = Empty
        /\ UNCHANGED <<disk, cache, fileVars, excused, manager, target, detected, changes,
                       lost>>
    BY <1>3 DEF ScanEnds, managerVars, channels
  <2>2. \A m \in Mods : listing'[m] = Absent /\ (Known(m)' => Known(m))
    BY <2>1 DEF Empty, Known
  <2>. QED BY <1>a, <1>b, <2>1, <2>2, QuietKeeps, LineLearns
<1>4. CASE ScanLocks \/ ScanFails \/ FailureEnds
  <2>1. /\ scan' \notin {"populate", "populated"}
        /\ UNCHANGED <<disk, cache, listing, fileVars, excused, manager, target, detected,
                       changes, lost>>
    BY <1>4 DEF ScanLocks, ScanFails, FailureEnds, managerVars, channels, observers
  <2>2. \A m \in Mods : Known(m)' => Known(m)
    BY <2>1 DEF Known
  <2>. QED BY <1>a, <1>b, <2>1, <2>2, QuietKeeps, LineLearns
<1>5. ASSUME NEW m \in Mods, ScanCorrects(m) PROVE LineInv'
  <2>1. /\ scan = "diff" /\ scan' = "diff"
        /\ cache' = [cache EXCEPT ![m] = listing[m]] /\ Detect(Difference(m), m)
        /\ UNCHANGED <<disk, listing, fileVars, excused, manager, target, changes>>
    BY <1>5 DEF ScanCorrects
  <2>2. Kept /\ (~lost' /\ Difference(m) = "added" => Coming(m)')
    BY <1>0, <2>1, DetectKeeps
  <2>3. listing[m] # Absent /\ cache[m] = Absent => Difference(m) = "added"
    BY DEF Difference
  <2>4. ASSUME NEW n \in Mods \ excused
        PROVE  /\ disk[n] = Absent => cache'[n] = Absent /\ listing'[n] = Absent
               /\ ~lost' /\ Known(n)' => Known(n) \/ Coming(n)'
    <3>1. CASE n = m
      BY <1>0, <1>b, <2>1, <2>2, <2>3, <3>1 DEF CacheType, Known
    <3>2. CASE n # m
      BY <1>0, <1>b, <2>1, <3>2 DEF CacheType, Known
    <3>. QED BY <3>1, <3>2
  <2>. QED BY <1>a, <2>1, <2>2, <2>4, LineLearns
<1>. QED BY <1>1, <1>2, <1>3, <1>4, <1>5 DEF CacheStep

LEMMA LineManager ==
  ASSUME TypeOK, LineInv, ManagerStep \/ ListMods \/ ListenerStep PROVE LineInv'
<1>0. CacheType /\ ManagerType /\ ChannelType /\ DiskType
  BY TypeParts
<1>a. ASSUME UNCHANGED <<manager, target, disk, excused>> PROVE Away'
  BY <1>a DEF LineInv, Away
<1>b. ASSUME manager' \in {"select", "deaf", "install"} PROVE Away'
  BY <1>b DEF Away
<1>1. CASE Forward
  <2>1. UNCHANGED <<disk, cache, scan, listing, fileVars, excused, manager, target>>
    BY <1>1 DEF Forward, cacheVars, managerVars
  <2>. QED BY <1>1, <1>a, <2>1, ForwardKeeps, LineMessages
<1>2. CASE Lag \/ ListMods
  <2>1. /\ UNCHANGED <<disk, cache, scan, listing, fileVars, excused, detected, changes,
                       lost>>
        /\ manager' \in {"select", "deaf"}
    BY <1>2 DEF Lag, ListMods, cacheVars, channels, observers
  <2>. QED BY <1>b, <2>1, QuietKeeps, LineMessages
<1>3. CASE DiskInstalls
  <2>1. /\ UNCHANGED <<cache, scan, listing, fileVars, detected, changes, lost>>
        /\ target \in Mods /\ aim \in Versions
        /\ \/ /\ SetDisk(target, aim)
              /\ manager' = "select" \/ (manager' = "installed" /\ UNCHANGED target)
           \/ manager' = "select" /\ UNCHANGED <<disk, excused>>
    BY <1>0, <1>3 DEF DiskInstalls, Finishes, cacheVars, channels, ManagerType
  <2>2. CASE /\ SetDisk(target, aim)
             /\ manager' = "select" \/ (manager' = "installed" /\ UNCHANGED target)
    <3>1. disk'[target] # Absent
      BY <1>0, <2>1, <2>2 DEF SetDisk, DiskType
    <3>2. Away'
      BY <2>1, <2>2, <3>1 DEF Away
    <3>. QED BY <2>1, <2>2, <3>2, QuietKeeps, LineSetDisk
  <2>3. CASE manager' = "select" /\ UNCHANGED <<disk, excused>>
    BY <1>b, <2>1, <2>3, QuietKeeps, LineMessages
  <2>. QED BY <2>1, <2>2, <2>3
<1>4. CASE DiskUpdates
  <2>1. /\ UNCHANGED <<cache, scan, listing, fileVars, detected, changes, lost>>
        /\ target \in Mods /\ target \in excused
        /\ (\E c \in Contents : SetDisk(target, c)) \/ UNCHANGED <<disk, excused>>
        /\ manager' = "select" \/ (manager' = "updated" /\ UNCHANGED target)
    <3>1. target \in Mods /\ aim \in Contents /\ Versions \subseteq Contents
          /\ target \in excused
      BY <1>0, <1>4 DEF DiskUpdates, ManagerType, Contents, LineInv, Away
    <3>2. (\E c \in Contents : SetDisk(target, c)) \/ UNCHANGED <<disk, excused>>
      BY <1>4, <3>1 DEF DiskUpdates
    <3>. QED BY <1>4, <3>1, <3>2 DEF DiskUpdates, Finishes, cacheVars, channels
  <2>2. Away'
    BY <2>1 DEF Away, SetDisk
  <2>. QED BY <2>1, <2>2, QuietKeeps, LineSetDisk, LineMessages
<1>5. CASE CacheLearns
  <2>. DEFINE kind == IF manager = "installed" THEN "add" ELSE "update"
  <2>1. /\ target \in Mods /\ aim \in Versions /\ manager' = "select"
        /\ cache' = [cache EXCEPT ![target] = aim]
        /\ kind \in {"add", "update", "remove"} /\ Announce(kind, target)
        /\ manager \in {"installed", "updated"}
        /\ UNCHANGED <<disk, scan, listing, fileVars, excused, detected>>
    BY <1>0, <1>5 DEF CacheLearns, Finishes, ManagerType
  <2>. HIDE DEF kind
  <2>2. ~lost' => /\ ~lost
                  /\ \A e : Waits(changes, e) => Waits(changes', e)
                  /\ Waits(changes', <<kind, target>>)
    BY <1>0, <2>1, AnnounceKeeps
  <2>3. Kept
    BY <2>1, <2>2 DEF Kept, Coming
  <2>4. target \notin excused =>
          disk[target] # Absent /\ (~lost' => Waits(changes', <<"add", target>>))
    BY <2>1, <2>2 DEF LineInv, Away, kind
  <2>5. ASSUME NEW n \in Mods \ excused
        PROVE  /\ disk[n] = Absent => cache'[n] = Absent /\ listing'[n] = Absent
               /\ ~lost' /\ Known(n)' => Known(n) \/ Coming(n)'
    <3>1. CASE n = target
      BY <2>1, <2>4, <3>1 DEF Coming, LineInv, NeverThere
    <3>2. CASE n # target
      BY <1>0, <2>1, <3>2 DEF CacheType, Known, LineInv, NeverThere
    <3>. QED BY <3>1, <3>2
  <2>. QED BY <1>b, <2>1, <2>3, <2>5, LineLearns
<1>6. CASE Listen \/ ListenFails
  <2>1. /\ changes # <<>> /\ changes' = Tail(changes) /\ Listener \notin writing
        /\ UNCHANGED <<disk, cache, scan, listing, excused, manager, target, detected, lost>>
    BY <1>6 DEF Listen, ListenFails, Hear, cacheVars, managerVars
  <2>2. Away'
    BY <1>a, <2>1
  <2>3. CASE Lists(Listener)
    BY <2>1, <2>2, <2>3, LineLists DEF Writers
  <2>4. ASSUME NEW m \in Mods, Coming(m), <<"add", m>> # Head(changes) PROVE Coming(m)'
    BY <1>0, <2>1, <2>4, WaitsPopped DEF Coming, ChannelType
  <2>5. CASE Head(changes)[1] # "add" /\ UNCHANGED fileVars
    <3>1. Kept
      BY <2>1, <2>4, <2>5 DEF Kept
    <3>. QED BY <2>1, <2>2, <2>5, <3>1, LineMessages
  <2>6. CASE ListenFails
    <3>1. /\ dropped' = dropped \cup ({Head(changes)[2]} \ lines)
          /\ UNCHANGED <<lines, writing, found>>
      BY <2>6 DEF ListenFails
    <3>2. NeverThere'
      BY <2>1, <3>1 DEF LineInv, NeverThere
    <3>3. ASSUME ~lost', NEW m \in Mods \ excused, Known(m)'
          PROVE  Given(m)' /\ Listed(m)'
      <4>1. Given(m)
        BY <2>1, <3>3 DEF LineInv, NotForgotten, Known
      <4>2. <<"add", m>> = Head(changes) => m \in lines' \/ m \in dropped'
        <5>1. <<"add", m>>[2] = m
          OBVIOUS
        <5>. QED BY <3>1, <5>1
      <4>. QED BY <2>1, <2>4, <3>1, <4>1, <4>2 DEF Given, Listed
    <3>. QED BY <2>1, <2>2, <3>2, <3>3 DEF LineInv, NotForgotten
  <2>. QED BY <1>6, <2>3, <2>5, <2>6 DEF Listen, Rearranges
<1>7. CASE Write(Listener)
  BY <1>7, LineWrites DEF Writers
<1>. QED BY <1>1, <1>2, <1>3, <1>4, <1>5, <1>6, <1>7 DEF ManagerStep, ListenerStep

LEMMA LineUser == ASSUME TypeOK, LineInv, User PROVE LineInv'
<1>0. CacheType /\ ManagerType /\ ChannelType /\ DiskType
  BY TypeParts
<1>a. ASSUME UNCHANGED <<manager, target, disk, excused>> PROVE Away'
  BY <1>a DEF LineInv, Away
<1>b. ASSUME manager' \in {"select", "deaf", "install"} PROVE Away'
  BY <1>b DEF Away
<1>1. ASSUME NEW m \in Mods, NEW v \in Versions, InstallMod(m, v) PROVE LineInv'
  <2>1. /\ manager' = "install"
        /\ UNCHANGED <<disk, cache, scan, listing, fileVars, excused, detected, changes,
                       lost>>
    BY <1>1 DEF InstallMod, Command, cacheVars, channels, observers
  <2>. QED BY <1>b, <2>1, QuietKeeps, LineMessages
<1>2. ASSUME NEW m \in Mods, UpdateMod(m) PROVE LineInv'
  <2>1. /\ manager' = "update" /\ target' = m /\ SetDisk(m, Absent)
        /\ UNCHANGED <<cache, scan, listing, fileVars, detected, changes, lost>>
    BY <1>2 DEF UpdateMod, Command, cacheVars, channels
  <2>2. Away'
    BY <2>1 DEF Away, SetDisk
  <2>. QED BY <2>1, <2>2, QuietKeeps, LineSetDisk
<1>3. ASSUME NEW m \in Mods, RemoveMod(m) PROVE LineInv'
  <2>1. /\ manager' = "select"
        /\ UNCHANGED <<cache, scan, listing, fileVars, detected>>
        /\ SetDisk(m, Absent) \/ UNCHANGED <<disk, excused>>
        /\ Announce("remove", m) \/ UNCHANGED <<changes, lost>>
    BY <1>3 DEF RemoveMod, Command, cacheVars
  <2>2. Kept
    <3>1. CASE Announce("remove", m)
      <4>1. ~lost' => ~lost /\ \A e : Waits(changes, e) => Waits(changes', e)
        BY <1>0, <3>1, AnnounceKeeps
      <4>. QED BY <2>1, <4>1 DEF Kept, Coming
    <3>2. CASE UNCHANGED <<changes, lost>>
      BY <2>1, <3>2, QuietKeeps
    <3>. QED BY <2>1, <3>1, <3>2
  <2>3. CASE SetDisk(m, Absent)
    BY <1>b, <2>1, <2>2, <2>3, LineSetDisk
  <2>4. CASE UNCHANGED <<disk, excused>>
    BY <1>b, <2>1, <2>2, <2>4, LineMessages
  <2>. QED BY <2>1, <2>3, <2>4
<1>4. ASSUME NEW m \in Mods, NEW c \in Contents, Edit(m, c) PROVE LineInv'
  <2>1. /\ SetDisk(m, c) /\ (Listens \/ m # target)
        /\ UNCHANGED <<cache, scan, listing, fileVars, manager, target, detected, changes,
                       lost>>
    BY <1>4 DEF Edit, cacheVars, managerVars, channels
  <2>2. excused \subseteq excused' /\ \A n \in Mods : n # m => disk'[n] = disk[n]
    BY <1>0, <2>1 DEF SetDisk, DiskType
  <2>3. manager = "installed" => target \in Mods /\ target # m
    BY <1>0, <2>1 DEF Listens, ManagerType
  <2>4. Away'
    BY <2>1, <2>2, <2>3 DEF LineInv, Away
  <2>. QED BY <2>1, <2>4, QuietKeeps, LineSetDisk
<1>5. ASSUME NEW c \in Callers, Launch(c) PROVE LineInv'
  <2>1. /\ Lists(c) /\ UNCHANGED <<disk, cache, scan, listing, excused, manager, target,
                                   detected, changes, lost>>
    BY <1>5 DEF Launch, cacheVars, managerVars, channels, observers
  <2>. QED BY <1>a, <2>1, QuietKeeps, LineLists DEF Writers
<1>6. CASE ScanNow
  <2>1. UNCHANGED <<disk, cache, scan, listing, fileVars, excused, manager, target, detected,
                    changes, lost>>
    BY <1>6 DEF ScanNow, managerVars, channels
  <2>. QED BY <1>a, <2>1, QuietKeeps, LineMessages
<1>7. ASSUME NEW c \in Callers, Write(c) PROVE LineInv'
  BY <1>7, LineWrites DEF Writers
<1>. QED BY <1>1, <1>2, <1>3, <1>4, <1>5, <1>6, <1>7 DEF User

LEMMA LineStep == TypeOK /\ LineInv /\ [Next]_vars => LineInv'
<1>1. CASE TypeOK /\ LineInv /\ UNCHANGED vars
  <2>1. /\ UNCHANGED <<disk, cache, scan, listing, fileVars, excused, manager, target,
                       detected, changes, lost>>
    BY <1>1 DEF vars, cacheVars, managerVars, channels, observers
  <2>2. Away'
    BY <1>1, <2>1 DEF LineInv, Away
  <2>. QED BY <1>1, <2>1, <2>2, QuietKeeps, LineMessages
<1>. QED BY <1>1, LineCache, LineManager, LineUser DEF Next

LEMMA LineInit == Init => LineInv
<1>. SUFFICES ASSUME Init PROVE LineInv
  OBVIOUS
<1>1. /\ lines = {m \in Mods : disk[m] # Absent} /\ cache = Empty /\ listing = Empty
      /\ writing = {} /\ found = [w \in Writers |-> {}] /\ manager = "select"
  BY DEF Init, Installed
<1>2. NeverThere /\ Away
  BY <1>1 DEF NeverThere, Away, Empty
<1>3. \A m \in Mods : Known(m) => m \in lines
  BY <1>1 DEF Known, Empty
<1>. QED BY <1>1, <1>2, <1>3 DEF LineInv, NotForgotten, Given, Listed

(* While no channel overflows, no pack is forgotten: one that has a line   *)
(* is there, and one that the cache knows of has its line or an arrival    *)
(* that waits for the listener, whatever scans, commands, edits and other  *)
(* writers of load_order.txt race, unless a failed write or one of an older*)
(* listing has dropped it (cache.rs local_scan, manager.rs, mods.rs        *)
(* reconcile_load_order, set_load_order).                                  *)
THEOREM KnownHaveLines == Spec => []KnownPacksHaveLines
BY LineInit, LineStep, LineKnown, TypeCorrect, PTL DEF Spec

(* So when the cache is right and everything that was detected has been    *)
(* heard, the lines are, but for the packs that were dropped: the state in *)
(* which CacheConverges and OrderFollowsDisk say the library ends up.      *)
Settled ==
  cache = disk /\ detected = <<>> /\ changes = <<>> /\ Listener \notin writing

THEOREM SettledOrder ==
  Spec => [](~lost /\ Settled =>
               \A m \in Mods \ (excused \cup dropped) : m \in lines <=> disk[m] # Absent)
<1>1. TypeOK /\ KnownPacksHaveLines /\ ~lost /\ Settled =>
        \A m \in Mods \ (excused \cup dropped) : m \in lines <=> disk[m] # Absent
  <2>. SUFFICES ASSUME TypeOK, KnownPacksHaveLines, ~lost, Settled,
                       NEW m \in Mods \ (excused \cup dropped)
                PROVE  m \in lines <=> disk[m] # Absent
    OBVIOUS
  <2>1. \A e : ~Waits(<<>>, e)
    BY DEF Waits
  <2>2. found[Listener] = {}
    BY TypeParts DEF Settled, Writers, FileType
  <2>3. ~IsExpected(m)
    BY <2>1, <2>2 DEF IsExpected, Settled
  <2>. QED BY <2>3 DEF KnownPacksHaveLines, Settled
<1>. QED BY <1>1, KnownHaveLines, TypeCorrect, PTL
=============================================================================
