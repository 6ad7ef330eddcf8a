-------------------------- MODULE VpnControlProofs --------------------------
(***************************************************************************)
(* The two safety properties of module VpnControl hold for any number of   *)
(* taps, of screens and of blocks that are pending at once: TLAPS proofs.  *)
(***************************************************************************)
EXTENDS VpnControl, TLAPS

ScreenRecords == [connected : BOOLEAN, manager : BOOLEAN, checked : BOOLEAN]
BlockRecords == [stage : Stages, screen : Int, tap : Nat, config : Configs]

\* As much of the types as the properties need: there is a screen on display, and a
\* block belongs to a screen that exists, or to the settings.
ScreenShape == screens \in Seq(ScreenRecords) /\ Len(screens) >= 1

Placed(b, n) == b.stage \notin {"ksLoad", "ksSave"} => b.screen \in 1..n

BlockShape ==
  /\ taps \in Nat
  /\ blocks \subseteq BlockRecords
  /\ \A b \in blocks : Placed(b, Len(screens))

\* A screen that has looked has a manager: the notifications reach it.
Looked == \A i \in 1..Len(screens) : screens[i].checked => screens[i].manager

\* While the user's stop holds, nothing is under way that starts the tunnel: no block
\* of a start, none that saves on demand, and no on demand.
Quiet ==
  stopped => /\ status \in {"disconnecting", "disconnected"}
             /\ saved # "OnDemand"
             /\ ~Starting

\* The connection and the preferences
Known == status \in Statuses /\ saved \in Configs

IInv == ScreenShape /\ BlockShape /\ Looked /\ ScreenTells /\ Quiet /\ Known
-----------------------------------------------------------------------------
\* The stages by name
LEMMA StageNames ==
  /\ {"check", "delay", "loadAll", "load", "save", "open", "ksLoad", "ksSave"} \subseteq Stages
  /\ "check" \notin StartStages /\ "ksLoad" \notin StartStages
  /\ {"None", "Manual", "OnDemand"} \subseteq Configs
BY Zenon DEF Stages, StartStages, Configs

\* A block that goes on to another stage
LEMMA StageFact ==
  ASSUME NEW b \in BlockRecords, NEW st \in Stages
  PROVE  /\ [b EXCEPT !.stage = st] \in BlockRecords
         /\ [b EXCEPT !.stage = st].stage = st
         /\ [b EXCEPT !.stage = st].screen = b.screen
BY DEF BlockRecords

\* A new screen has not looked.
LEMMA NewScreenFact == NewScreen \in ScreenRecords /\ ~NewScreen.checked
BY DEF ScreenRecords, NewScreen

\* A new block
LEMMA BlockFact ==
  ASSUME taps' \in Nat, NEW i \in Int, NEW n \in Nat
  PROVE  /\ \A st \in {"check", "delay", "loadAll"} :
              /\ Block(st, i) \in BlockRecords
              /\ i \in 1..n => Placed(Block(st, i), n)
         /\ Block("ksLoad", 0) \in BlockRecords /\ Placed(Block("ksLoad", 0), n)
<1>1. \A st \in Stages : /\ Block(st, i) \in BlockRecords /\ Block(st, i).stage = st
                         /\ Block(st, i).screen = i
  BY StageNames DEF Block, BlockRecords
<1>2. Block("ksLoad", 0) \in BlockRecords /\ Block("ksLoad", 0).stage = "ksLoad"
  BY StageNames DEF Block, BlockRecords
<1> QED
  BY <1>1, <1>2, StageNames DEF Placed

\* The screens that live exist, the one on display among them.
LEMMA LivingFact ==
  ASSUME ScreenShape
  PROVE  Living \subseteq 1..Len(screens) /\ Top \in Living
BY DEF ScreenShape, Living, Top

\* One screen is replaced: the others stay, and what was placed still is.
LEMMA ReplaceFact ==
  ASSUME ScreenShape, NEW i \in 1..Len(screens), NEW r \in ScreenRecords,
         screens' = [screens EXCEPT ![i] = r]
  PROVE  /\ ScreenShape' /\ Len(screens') = Len(screens)
         /\ screens'[i] = r
         /\ \A j \in 1..Len(screens) : j # i => screens'[j] = screens[j]
BY DEF ScreenShape

\* One is added.
LEMMA AppendFact ==
  ASSUME ScreenShape, screens' = Append(screens, NewScreen)
  PROVE  /\ ScreenShape' /\ Len(screens') = Len(screens) + 1
         /\ screens'[Len(screens')] = NewScreen
         /\ \A j \in 1..Len(screens) : screens'[j] = screens[j]
BY NewScreenFact DEF ScreenShape
-----------------------------------------------------------------------------
\* The invariant holds when the application is opened for the first time.
LEMMA InitInv == Init => IInv
<1> SUFFICES ASSUME Init PROVE IInv
  OBVIOUS
<1> USE DEF Init
<1>1. ScreenShape /\ Len(screens) = 1 /\ screens[1] = NewScreen
  BY NewScreenFact DEF ScreenShape
<1>2. BlockShape
  <2> DEFINE b == [stage |-> "check", screen |-> 1, tap |-> 0, config |-> "None"]
  <2>1. "check" \in Stages /\ "None" \in Configs
    BY Zenon DEF Stages, Configs
  <2>2. b \in BlockRecords /\ b.screen = 1
    BY <2>1 DEF BlockRecords
  <2> QED
    BY <1>1, <2>2 DEF BlockShape, Placed
<1>3. Looked /\ ScreenTells
  BY <1>1, NewScreenFact DEF Looked, ScreenTells, Top
<1>4. Quiet /\ Known
  BY Zenon DEF Quiet, Known, Statuses, Configs
<1> QED
  BY <1>1, <1>2, <1>3, <1>4 DEF IInv

\* The invariant of the screens is kept where no screen changes, but the status only
\* together with a notification.
LEMMA SameScreens ==
  ASSUME ScreenShape, Looked, ScreenTells, screens' = screens,
         UNCHANGED <<status, note>> \/ note' = TRUE
  PROVE  ScreenShape' /\ Looked' /\ ScreenTells'
BY DEF ScreenShape, Looked, ScreenTells, Top

\* Where one changes that is right itself.
Right(q) == note' = FALSE /\ status' \in {"connected", "disconnected"} /\ q.checked
              => (q.connected <=> status' = "connected")

LEMMA OneScreen ==
  ASSUME ScreenShape, Looked, ScreenTells,
         NEW i \in 1..Len(screens), NEW q \in ScreenRecords,
         screens' = [screens EXCEPT ![i] = q],
         q.checked => q.manager, i = Len(screens) => Right(q),
         UNCHANGED <<status, note>> \/ note' = TRUE
  PROVE  ScreenShape' /\ Looked' /\ ScreenTells' /\ Len(screens') = Len(screens)
<1>1. /\ ScreenShape' /\ Len(screens') = Len(screens)
      /\ screens'[i] = q
      /\ \A j \in 1..Len(screens) : j # i => screens'[j] = screens[j]
  BY ReplaceFact
<1>2. Looked'
  BY <1>1 DEF Looked
<1>3. CASE i = Len(screens)
  <2>1. screens'[Len(screens')] = q
    BY <1>1, <1>3
  <2>2. ScreenTells'
    BY <2>1, <1>3 DEF ScreenTells, Top, Right
  <2> QED
    BY <1>1, <1>2, <2>2
<1>4. CASE i # Len(screens)
  <2>0. Len(screens) \in 1..Len(screens)
    BY DEF ScreenShape
  <2>1. screens'[Len(screens')] = screens[Len(screens)]
    BY <1>1, <1>4, <2>0
  <2>2. ScreenTells'
    BY <2>1 DEF ScreenTells, Top
  <2> QED
    BY <1>1, <1>2, <2>2
<1> QED
  BY <1>3, <1>4

\* And where one is added.
LEMMA OneMoreScreen ==
  ASSUME ScreenShape, Looked, screens' = Append(screens, NewScreen)
  PROVE  ScreenShape' /\ Looked' /\ ScreenTells' /\ Len(screens') = Len(screens) + 1
<1>1. Looked'
  <2> SUFFICES ASSUME NEW i \in 1..Len(screens'), screens'[i].checked
               PROVE  screens'[i].manager
    BY DEF Looked
  <2>1. CASE i = Len(screens')
    BY <2>1, AppendFact, NewScreenFact
  <2>2. CASE i # Len(screens')
    BY <2>2, AppendFact DEF Looked, ScreenShape
  <2> QED
    BY <2>1, <2>2
<1>2. ScreenTells'
  BY AppendFact, NewScreenFact DEF ScreenTells, Top
<1> QED
  BY <1>1, <1>2, AppendFact

\* No block is added, but for one that takes the place of another.
LEMMA FewerBlocks ==
  ASSUME BlockShape, NEW b \in blocks, taps' = taps, Len(screens') = Len(screens),
         NEW c \in BlockRecords, Placed(c, Len(screens)),
         blocks' \subseteq (blocks \ {b}) \union {c}
  PROVE  BlockShape'
BY DEF BlockShape

\* Blocks of living screens are added, and one of the new screen.
LEMMA MoreBlocks ==
  ASSUME BlockShape, taps' \in Nat, Len(screens) \in Nat,
         Len(screens') \in {Len(screens), Len(screens) + 1},
         NEW S, S \subseteq BlockRecords, \A c \in S : Placed(c, Len(screens')),
         blocks' \subseteq blocks \union S
  PROVE  BlockShape'
BY DEF BlockShape, Placed
-----------------------------------------------------------------------------
\* What the user does
LEMMA TapStep ==
  ASSUME IInv,
         \/ startTapped \/ chooseServer \/ logout \/ doneButtonTapped
         \/ foreground \/ restart \/ killSwitchValueChanged
  PROVE  ScreenShape' /\ BlockShape' /\ Looked' /\ ScreenTells'
<1>0. taps \in Nat /\ taps' \in Nat /\ Len(screens) \in Nat \ {0}
  BY DEF IInv, ScreenShape, BlockShape, startTapped, chooseServer, logout,
         doneButtonTapped, foreground, restart, killSwitchValueChanged, NewTap
<1> USE <1>0, StageNames
<1>1. \A i \in Living : i \in 1..Len(screens)
  BY LivingFact DEF IInv
<1>2. CASE startTapped
  <2>1. ScreenShape' /\ Looked' /\ ScreenTells'
    <3>1. UNCHANGED <<status, note>> \/ note' = TRUE
      BY <1>2, Zenon DEF startTapped, nowDisconnectVPN, stopVPNTunnel
    <3> QED
      BY <1>2, <3>1, SameScreens DEF IInv, startTapped
  <2>2. BlockShape'
    <3> DEFINE S == {Block("loadAll", Top)}
    <3>1. S \subseteq BlockRecords /\ \A c \in S : Placed(c, Len(screens))
      BY BlockFact DEF Top
    <3>2. blocks' \subseteq blocks \union S /\ Len(screens') = Len(screens)
      BY <1>2 DEF startTapped
    <3> HIDE DEF S
    <3> QED
      BY <3>1, <3>2, MoreBlocks DEF IInv
  <2> QED
    BY <2>1, <2>2
<1>3. CASE chooseServer
  <2>1. ScreenShape' /\ Looked' /\ ScreenTells' /\ Len(screens') = Len(screens) + 1
    BY <1>3, OneMoreScreen DEF IInv, chooseServer
  <2>2. BlockShape'
    <3> DEFINE S == {Block(IF screens[i].connected THEN "delay" ELSE "loadAll", i) :
                       i \in Living} \union {Block("check", Top + 1)}
    <3>1. \A i \in 1..Len(screens) + 1 : \A st \in {"delay", "loadAll", "check"} :
            Block(st, i) \in BlockRecords /\ Placed(Block(st, i), Len(screens) + 1)
      BY BlockFact
    <3>2. S \subseteq BlockRecords /\ \A c \in S : Placed(c, Len(screens) + 1)
      BY <1>1, <3>1 DEF Top
    <3>3. blocks' \subseteq blocks \union S
      BY <1>3 DEF chooseServer
    <3> HIDE DEF S
    <3> QED
      BY <2>1, <3>2, <3>3, MoreBlocks DEF IInv
  <2> QED
    BY <2>1, <2>2
<1>4. CASE logout \/ doneButtonTapped
  <2>1. ScreenShape' /\ Looked' /\ ScreenTells' /\ Len(screens') = Len(screens) + 1
    BY <1>4, OneMoreScreen DEF IInv, logout, doneButtonTapped
  <2>2. BlockShape'
    <3> DEFINE S == {Block("check", Top + 1)}
    <3>1. S \subseteq BlockRecords /\ \A c \in S : Placed(c, Len(screens) + 1)
      BY BlockFact DEF Top
    <3>2. blocks' \subseteq blocks \union S
      BY <1>4 DEF logout, doneButtonTapped
    <3> HIDE DEF S
    <3> QED
      BY <2>1, <3>1, <3>2, MoreBlocks DEF IInv
  <2> QED
    BY <2>1, <2>2
<1>5. CASE foreground
  <2>1. ScreenShape' /\ Looked' /\ ScreenTells'
    BY <1>5, SameScreens DEF IInv, foreground, system
  <2>2. BlockShape'
    <3> DEFINE S == {Block("check", i) : i \in Living}
    <3>1. \A i \in 1..Len(screens) :
            Block("check", i) \in BlockRecords /\ Placed(Block("check", i), Len(screens))
      BY BlockFact
    <3>2. S \subseteq BlockRecords /\ \A c \in S : Placed(c, Len(screens))
      BY <1>1, <3>1
    <3>3. blocks' \subseteq blocks \union S /\ Len(screens') = Len(screens)
      BY <1>5 DEF foreground
    <3> HIDE DEF S
    <3> QED
      BY <3>2, <3>3, MoreBlocks DEF IInv
  <2> QED
    BY <2>1, <2>2
<1>6. CASE restart
  <2>1. screens' = <<NewScreen>> /\ blocks' = {Block("check", 1)}
    BY <1>6 DEF restart
  <2>2. ScreenShape' /\ Len(screens') = 1 /\ screens'[1] = NewScreen
    BY <2>1, NewScreenFact DEF ScreenShape
  <2>3. Looked' /\ ScreenTells'
    BY <2>2, NewScreenFact DEF Looked, ScreenTells, Top
  <2>4. Block("check", 1) \in BlockRecords /\ Placed(Block("check", 1), 1)
    BY BlockFact
  <2>5. BlockShape'
    BY <2>1, <2>2, <2>4 DEF BlockShape
  <2> QED
    BY <2>2, <2>3, <2>5
<1>7. CASE killSwitchValueChanged
  <2>1. ScreenShape' /\ Looked' /\ ScreenTells'
    BY <1>7, SameScreens DEF IInv, killSwitchValueChanged, system
  <2>2. BlockShape'
    <3> DEFINE S == {Block("ksLoad", 0)}
    <3>1. S \subseteq BlockRecords /\ \A c \in S : Placed(c, Len(screens))
      BY BlockFact
    <3>2. blocks' \subseteq blocks \union S /\ Len(screens') = Len(screens)
      BY <1>7 DEF killSwitchValueChanged
    <3> HIDE DEF S
    <3> QED
      BY <3>1, <3>2, MoreBlocks DEF IInv
  <2> QED
    BY <2>1, <2>2
<1> QED
  BY <1>2, <1>3, <1>4, <1>5, <1>6, <1>7
-----------------------------------------------------------------------------
\* A pending block runs: what it does to the screens,
LEMMA BlockScreens ==
  ASSUME IInv, NEW b \in blocks,
         \/ check(b) \/ delay(b) \/ loadAll(b) \/ load(b) \/ save(b) \/ open(b)
         \/ ksLoad(b) \/ ksSave(b) \/ fail(b)
  PROVE  ScreenShape' /\ Looked' /\ ScreenTells' /\ Len(screens') = Len(screens)
<1>0. ScreenShape /\ Looked /\ ScreenTells
  BY DEF IInv
<1>1. CASE b.stage \in {"check", "loadAll", "open"}
  <2>1. b.stage \notin {"ksLoad", "ksSave"}
    BY <1>1
  <2>2. b.screen \in 1..Len(screens)
    BY <2>1 DEF IInv, BlockShape, Placed
  <2>3. screens[b.screen] \in ScreenRecords
    BY <2>2 DEF IInv, ScreenShape
  <2> DEFINE i == b.screen
             r == screens'[i]
  <2>4. CASE screens' = screens /\ UNCHANGED <<status, note>>
    BY <1>0, <2>4, SameScreens
  <2>5. CASE check(b) /\ screens' # screens
    <3> DEFINE q == [screens[i] EXCEPT !.manager = TRUE,
                                       !.connected = (status = "connected"),
                                       !.checked = TRUE]
    <3>1. screens' = [screens EXCEPT ![i] = q] /\ UNCHANGED <<status, note>>
      BY <2>2, <2>3, <2>5 DEF check, system, ScreenRecords, IInv, ScreenShape
    <3>2. q \in ScreenRecords /\ q.manager /\ q.connected = (status = "connected")
      BY <2>3 DEF ScreenRecords
    <3> HIDE DEF q
    <3>3. Right(q)
      BY <3>1, <3>2 DEF Right
    <3> QED
      BY <1>0, <2>2, <3>1, <3>2, <3>3, OneScreen
  <2>6. CASE loadAll(b)
    <3> DEFINE q == [screens[i] EXCEPT !.manager = TRUE]
    <3>1. screens' = [screens EXCEPT ![i] = q] /\ UNCHANGED <<status, note>>
      BY <2>6 DEF loadAll, system
    <3>2. /\ q \in ScreenRecords /\ q.manager
          /\ q.connected = screens[i].connected /\ q.checked = screens[i].checked
      BY <2>3 DEF ScreenRecords
    <3> HIDE DEF q
    <3>3. i = Len(screens) => Right(q)
      BY <1>0, <3>1, <3>2 DEF Right, ScreenTells, Top
    <3> QED
      BY <1>0, <2>2, <3>1, <3>2, <3>3, OneScreen
  <2>7. CASE open(b)
    <3> DEFINE q == Shown(screens[i], status')
    <3>1. screens' = [screens EXCEPT ![i] = q]
      BY <2>7 DEF open
    <3>2. UNCHANGED <<status, note>> \/ (note' = TRUE)
      BY <2>7 DEF open, startVPNTunnel
    <3>3. /\ q \in ScreenRecords
          /\ q.manager = screens[i].manager /\ q.checked = screens[i].checked
          /\ q.manager /\ status' = "connected" => q.connected
          /\ status' = "disconnected" => ~q.connected
      BY <2>3 DEF Shown, ScreenRecords
    <3> HIDE DEF q
    <3>4. Right(q) /\ (q.checked => q.manager)
      BY <1>0, <2>2, <3>3 DEF Right, Looked
    <3> QED
      BY <1>0, <2>2, <3>1, <3>2, <3>3, <3>4, OneScreen
  <2> QED
    BY <1>1, <2>4, <2>5, <2>6, <2>7 DEF delay, load, save, ksLoad, ksSave, fail, Run,
       system, check
<1>2. CASE b.stage \notin {"check", "loadAll", "open"}
  <2>1. screens' = screens /\ UNCHANGED <<status, note>>
    BY <1>2 DEF check, delay, loadAll, load, save, open, ksLoad, ksSave, fail, Run, system
  <2> QED
    BY <1>0, <2>1, SameScreens
<1> QED
  BY <1>1, <1>2

\* to the blocks,
LEMMA BlockBlocks ==
  ASSUME IInv, NEW b \in blocks,
         \/ check(b) \/ delay(b) \/ loadAll(b) \/ load(b) \/ save(b) \/ open(b)
         \/ ksLoad(b) \/ ksSave(b) \/ fail(b)
  PROVE  BlockShape'
<1>0. /\ BlockShape /\ b \in BlockRecords /\ Placed(b, Len(screens))
      /\ Len(screens') = Len(screens)
  BY BlockScreens DEF IInv, BlockShape
<1>1. taps' = taps
  BY DEF check, delay, loadAll, load, save, open, ksLoad, ksSave, fail, Rest
<1>2. CASE blocks' \subseteq blocks
  BY <1>0, <1>1, <1>2 DEF BlockShape
<1>3. CASE delay(b) \/ loadAll(b)
  <2>1. PICK st \in {"loadAll", "load"} :
          blocks' = (blocks \ {b}) \union {[b EXCEPT !.stage = st]}
    BY <1>3 DEF delay, loadAll, Then
  <2>2. b.stage \notin {"ksLoad", "ksSave"}
    BY <1>3 DEF delay, loadAll, Run
  <2> DEFINE c == [b EXCEPT !.stage = st]
  <2>3. c \in BlockRecords /\ Placed(c, Len(screens))
    BY <1>0, <2>2, StageFact, StageNames DEF Placed
  <2> HIDE DEF c
  <2>4. blocks' \subseteq (blocks \ {b}) \union {c}
    BY <2>1 DEF c
  <2> QED
    BY <1>0, <1>1, <2>3, <2>4, FewerBlocks
<1>4. CASE load(b)
  <2> DEFINE c == [b EXCEPT !.stage = "save", !.config = KillSwitchConfig]
  <2>1. KillSwitchConfig \in Configs /\ b.stage \notin {"ksLoad", "ksSave"}
    BY <1>4, StageNames DEF KillSwitchConfig, load, Run
  <2>2. c \in BlockRecords /\ Placed(c, Len(screens))
    <3>0. "save" \in Stages /\ "None" \in Configs
      BY StageNames
    <3>1. c \in BlockRecords /\ c.stage = "save" /\ c.screen = b.screen
      BY <1>0, <2>1, <3>0 DEF BlockRecords
    <3>2. b.screen \in 1..Len(screens)
      BY <1>0, <2>1 DEF Placed
    <3> HIDE DEF c
    <3> QED
      BY <3>1, <3>2 DEF Placed
  <2>3. blocks' \subseteq (blocks \ {b}) \union {c}
    BY <1>4 DEF load
  <2> HIDE DEF c
  <2> QED
    BY <1>0, <1>1, <2>2, <2>3, FewerBlocks
<1>5. CASE save(b)
  <2> DEFINE c == [b EXCEPT !.stage = "open", !.config = "None"]
  <2>1. b.stage \notin {"ksLoad", "ksSave"}
    BY <1>5 DEF save, Run
  <2>2. c \in BlockRecords /\ Placed(c, Len(screens))
    <3>0. "open" \in Stages /\ "None" \in Configs
      BY StageNames
    <3>1. c \in BlockRecords /\ c.stage = "open" /\ c.screen = b.screen
      BY <1>0, <2>1, <3>0 DEF BlockRecords
    <3>2. b.screen \in 1..Len(screens)
      BY <1>0, <2>1 DEF Placed
    <3> HIDE DEF c
    <3> QED
      BY <3>1, <3>2 DEF Placed
  <2>3. blocks' \subseteq (blocks \ {b}) \union {c}
    BY <1>5 DEF save
  <2> HIDE DEF c
  <2> QED
    BY <1>0, <1>1, <2>2, <2>3, FewerBlocks
<1>6. CASE ksLoad(b)
  <2> DEFINE c == [b EXCEPT !.stage = "ksSave", !.config = "OnDemand"]
  <2>1. c \in BlockRecords /\ Placed(c, Len(screens))
    <3>1. "ksSave" \in Stages /\ "OnDemand" \in Configs
      BY StageNames
    <3>2. c \in BlockRecords /\ c.stage = "ksSave"
      BY <1>0, <3>1 DEF BlockRecords
    <3> HIDE DEF c
    <3> QED
      BY <3>2 DEF Placed
  <2>2. blocks' \subseteq (blocks \ {b}) \union {c}
    BY <1>6 DEF ksLoad
  <2> HIDE DEF c
  <2> QED
    BY <1>0, <1>1, <2>1, <2>2, FewerBlocks
<1> QED
  BY <1>2, <1>3, <1>4, <1>5, <1>6 DEF check, open, ksSave, fail
-----------------------------------------------------------------------------
\* While the stop holds, what is pending starts nothing, so what adds no block of a
\* start and leaves the connection alone keeps it.
LEMMA QuietKept ==
  ASSUME Quiet, UNCHANGED <<saved, status, stopped>>,
         stopped => \A c \in blocks' : c \in blocks \/ c.stage \in {"check", "ksLoad"}
  PROVE  Quiet'
BY Zenon, StageNames DEF Quiet, Starting

\* The user's actions
LEMMA TapQuiet ==
  ASSUME IInv,
         \/ startTapped \/ chooseServer \/ logout \/ doneButtonTapped
         \/ foreground \/ restart \/ killSwitchValueChanged
  PROVE  Quiet' /\ Known'
<1>0. Quiet /\ Known
  BY DEF IInv
<1>1. \A i : Block("check", i).stage = "check" /\ Block("ksLoad", i).stage = "ksLoad"
  BY DEF Block
<1>2. Known'
  <2>1. saved' = saved
    BY DEF startTapped, chooseServer, logout, doneButtonTapped, foreground, restart,
           killSwitchValueChanged, system
  <2>2. status' = status \/ status' = "disconnecting"
    BY Zenon DEF startTapped, chooseServer, logout, doneButtonTapped, foreground,
       restart, killSwitchValueChanged, nowDisconnectVPN, stopVPNTunnel, system
  <2> QED
    BY <1>0, <2>1, <2>2, Zenon DEF Known, Statuses
\* A stop is one only when a screen had the manager, and then it has been sent.
<1>3. ASSUME NEW on, nowDisconnectVPN(on), UNCHANGED saved,
             \A c \in blocks' : c \in blocks \/ c.stage = "check"
      PROVE  Quiet'
  <2> SUFFICES ASSUME stopped'
               PROVE  /\ status' \in {"disconnecting", "disconnected"}
                      /\ saved' # "OnDemand" /\ ~Starting'
    BY Zenon DEF Quiet
  <2>1. (\E i \in on : screens[i].manager) /\ ~Starting /\ saved # "OnDemand"
    BY <1>3, Zenon DEF nowDisconnectVPN
  <2>2. stopVPNTunnel
    BY <1>3, <2>1, Zenon DEF nowDisconnectVPN
  <2>3. status' \in {"disconnecting", "disconnected"}
    BY <1>0, <2>2 DEF stopVPNTunnel, Known, Statuses
  <2>4. ~Starting'
    BY <1>3, <2>1, StageNames, Zenon DEF Starting
  <2> QED
    BY <1>3, <2>1, <2>3, <2>4
<1>4. CASE startTapped
  <2>1. CASE flag
    BY <1>2, <1>3, <1>4, <2>1 DEF startTapped
  <2>2. CASE ~flag
    BY <1>2, <1>4, <2>2 DEF startTapped, Quiet
  <2> QED
    BY <2>1, <2>2
<1>5. CASE chooseServer
  BY <1>2, <1>5 DEF chooseServer, Quiet
<1>6. CASE logout
  <2>1. \A c \in blocks' : c \in blocks \/ c.stage = "check"
    BY <1>1, <1>6 DEF logout
  <2> QED
    BY <1>2, <1>3, <1>6, <2>1 DEF logout
<1>7. CASE foreground \/ doneButtonTapped
  <2>1. \A c \in blocks' : c \in blocks \/ c.stage \in {"check", "ksLoad"}
    BY <1>1, <1>7 DEF foreground, doneButtonTapped
  <2> QED
    BY <1>0, <1>2, <1>7, <2>1, QuietKept DEF foreground, doneButtonTapped, system
<1>8. CASE restart
  <2>1. \A c \in blocks' : c \in blocks \/ c.stage \in {"check", "ksLoad"}
    BY <1>1, <1>8 DEF restart
  <2> QED
    BY <1>0, <1>2, <1>8, <2>1, QuietKept DEF restart
<1>9. CASE killSwitchValueChanged
  <2>1. \A c \in blocks' : c \in blocks \/ c.stage \in {"check", "ksLoad"}
    BY <1>1, <1>9 DEF killSwitchValueChanged
  <2> QED
    BY <1>0, <1>2, <1>9, <2>1, QuietKept DEF killSwitchValueChanged, system
<1> QED
  BY <1>2, <1>4, <1>5, <1>6, <1>7, <1>8, <1>9

\* and a block that runs
LEMMA BlockQuiet ==
  ASSUME IInv, NEW b \in blocks,
         \/ check(b) \/ delay(b) \/ loadAll(b) \/ load(b) \/ save(b) \/ open(b)
         \/ ksLoad(b) \/ ksSave(b) \/ fail(b)
  PROVE  Quiet' /\ Known'
<1>0. Quiet /\ Known
  BY DEF IInv
<1>1. b \in BlockRecords
  BY DEF IInv, BlockShape
<1>2. Known'
  <2>1. saved' = saved \/ saved' = b.config
    BY Zenon DEF check, delay, loadAll, load, save, open, ksLoad, ksSave, fail, system
  <2>2. status' = status \/ status' = "connecting"
    BY Zenon DEF check, delay, loadAll, load, save, open, ksLoad, ksSave, fail, system,
       startVPNTunnel
  <2>3. b.config \in Configs
    BY <1>1 DEF BlockRecords
  <2> QED
    BY <1>0, <2>1, <2>2, <2>3, Zenon DEF Known, Statuses
<1>3. stopped' = stopped
  BY Zenon DEF check, delay, loadAll, load, save, open, ksLoad, ksSave, fail, Rest
<1>4. CASE stopped
  <2>1. /\ b.stage \notin StartStages /\ ~Starting
        /\ saved # "OnDemand" /\ status \in {"disconnecting", "disconnected"}
    BY <1>0, <1>4 DEF Quiet, Starting
  <2>2. check(b) \/ ksLoad(b) \/ fail(b)
    BY <2>1 DEF delay, loadAll, load, save, open, ksSave, Run, StartStages
  <2>3. UNCHANGED <<saved, status>>
    BY <2>2, Zenon DEF check, ksLoad, fail, system
  <2>4. status # "connected"
    BY <2>1
  <2>5. \A c \in blocks' : c \in blocks
    BY <2>2, <2>4, Zenon DEF check, ksLoad, fail
  <2> QED
    BY <1>0, <1>2, <1>3, <2>3, <2>5, QuietKept
<1>5. CASE ~stopped
  BY <1>2, <1>3, <1>5 DEF Quiet
<1> QED
  BY <1>4, <1>5
-----------------------------------------------------------------------------
\* A notification is delivered to every screen that lives, the one on display among
\* them.
LEMMA NotificationStep == ASSUME IInv, receiveNotification PROVE IInv'
<1>1. /\ ScreenShape /\ Looked /\ Top \in Living /\ Top = Len(screens)
      /\ Living \subseteq 1..Len(screens)
  BY LivingFact DEF IInv, Top
<1>2. \A i \in 1..Len(screens) :
        /\ Shown(screens[i], status) \in ScreenRecords
        /\ Shown(screens[i], status).manager = screens[i].manager
        /\ Shown(screens[i], status).checked = screens[i].checked
        /\ screens[i].manager /\ status = "connected" => Shown(screens[i], status).connected
        /\ status = "disconnected" => ~Shown(screens[i], status).connected
  <2> SUFFICES ASSUME NEW r \in ScreenRecords
               PROVE  /\ Shown(r, status) \in ScreenRecords
                      /\ Shown(r, status).manager = r.manager
                      /\ Shown(r, status).checked = r.checked
                      /\ r.manager /\ status = "connected" => Shown(r, status).connected
                      /\ status = "disconnected" => ~Shown(r, status).connected
    BY <1>1 DEF ScreenShape
  <2> QED
    BY DEF Shown, ScreenRecords
<1>3. /\ DOMAIN screens = 1..Len(screens)
      /\ \A i \in 1..Len(screens) : screens[i] \in ScreenRecords
  BY <1>1 DEF ScreenShape
<1>4. screens' = [i \in 1..Len(screens) |->
                    IF i \in Living THEN Shown(screens[i], status) ELSE screens[i]]
  BY <1>3 DEF receiveNotification
<1>5. ScreenShape' /\ Len(screens') = Len(screens)
  BY <1>1, <1>2, <1>3, <1>4 DEF ScreenShape
<1>6. Looked'
  BY <1>1, <1>2, <1>4, <1>5 DEF Looked
<1>7. status' = status
  BY DEF receiveNotification
<1>8. ScreenTells'
  BY <1>1, <1>2, <1>4, <1>5, <1>7 DEF Looked, ScreenTells, Top, ScreenShape
<1>9. UNCHANGED <<blocks, saved, status, taps, stopped>>
  BY DEF receiveNotification
<1>10. BlockShape' /\ Quiet' /\ Known'
  BY <1>5, <1>9 DEF IInv, BlockShape, Quiet, Known, Starting
<1> QED
  BY <1>5, <1>6, <1>8, <1>10 DEF IInv

\* The system changes the status, with a notification; it brings the tunnel up by
\* itself only on demand.
LEMMA SystemStep == ASSUME IInv, System PROVE IInv'
<1>1. ScreenShape' /\ Looked' /\ ScreenTells'
  BY SameScreens DEF IInv, System
<1>2. BlockShape'
  BY DEF IInv, System, BlockShape
<1>3. Known'
  BY DEF IInv, System, Known, Statuses
<1>4. Quiet'
  BY DEF IInv, System, Quiet, Starting
<1> QED
  BY <1>1, <1>2, <1>3, <1>4 DEF IInv

\* A stuttering step
LEMMA Stutter == ASSUME IInv, UNCHANGED vars PROVE IInv'
BY DEF IInv, vars, defaultsVars, system, ScreenShape, BlockShape, Looked, ScreenTells, Quiet,
   Known, Starting, Top

\* The invariant is inductive.
LEMMA Invariance == Spec => []IInv
<1>1. ASSUME IInv, [Next]_vars PROVE IInv'
  <2> USE <1>1
  <2>1. CASE \/ startTapped \/ chooseServer \/ logout \/ doneButtonTapped
             \/ foreground \/ restart \/ killSwitchValueChanged
    BY <2>1, TapStep, TapQuiet DEF IInv
  <2>2. CASE BlockRuns
    <3>1. PICK b \in blocks :
            \/ check(b) \/ delay(b) \/ loadAll(b) \/ load(b) \/ save(b) \/ open(b)
            \/ ksLoad(b) \/ ksSave(b) \/ fail(b)
      BY <2>2, Zenon DEF BlockRuns
    <3> QED
      BY <3>1, BlockScreens, BlockBlocks, BlockQuiet DEF IInv
  <2>3. CASE receiveNotification
    BY <2>3, NotificationStep
  <2>4. CASE System
    BY <2>4, SystemStep
  <2>5. CASE UNCHANGED vars
    BY <2>5, Stutter
  <2> QED
    BY <2>1, <2>2, <2>3, <2>4, <2>5, Zenon DEF Next
<1> QED
  BY InitInv, <1>1, PTL DEF Spec

\* The screen tells the truth about the tunnel whenever it has looked and no
\* notification is outstanding, for any number of screens, taps and pending blocks.
THEOREM ScreenIsRight == Spec => []ScreenTells
<1>1. IInv => ScreenTells
  BY DEF IInv
<1> QED
  BY <1>1, Invariance, PTL

\* Once a stop has taken effect with no start pending and on demand off, nothing that
\* is left over -- a check, a replaced screen, a turn of the kill switch -- brings the
\* tunnel up before the user asks for it.
THEOREM StoppedStaysDown == Spec => []StopHolds
<1>1. IInv => StopHolds
  BY DEF IInv, Quiet, StopHolds
<1> QED
  BY <1>1, Invariance, PTL
-----------------------------------------------------------------------------
\* What else the types need: the flags are Boolean; a screen for every tap at most, one
\* of them held by JHNetworkSpeed; and
\* no block of a tap to come; the blocks of the settings have no screen.
KillSwitchStages == {"ksLoad", "ksSave"}

Flags == /\ flag \in BOOLEAN /\ killSwitch \in BOOLEAN
         /\ stopped \in BOOLEAN /\ note \in BOOLEAN

Counted ==
  /\ taps \in 0..MaxTaps /\ Len(screens) <= taps + 1
  /\ speedBlock \in 0..Len(screens)
  /\ \A b \in blocks : /\ b.tap <= taps
                       /\ b.stage \in KillSwitchStages => b.screen = 0

\* With the invariant they are all of TypeOK.
LEMMA TypesFollow == IInv /\ Flags /\ Counted => TypeOK
<1> SUFFICES ASSUME IInv, Flags, Counted PROVE TypeOK
  OBVIOUS
<1>0. MaxTaps \in Nat
  BY ControlAssumption
<1>1. Len(screens) \in 1..MaxTaps + 1 /\ screens \in [1..Len(screens) -> ScreenRecords]
  BY <1>0 DEF IInv, ScreenShape, Counted
<1>2. ASSUME NEW b \in blocks
      PROVE  /\ b \in [stage : Stages, screen : 0..Top, tap : 0..MaxTaps, config : Configs]
             /\ b.screen = 0 <=> b.stage \in KillSwitchStages
  <2>1. b \in BlockRecords /\ b.tap \in Nat /\ Placed(b, Len(screens))
    BY DEF IInv, BlockShape, BlockRecords
  <2>2. b.tap \in 0..MaxTaps
    BY <1>0, <2>1 DEF Counted
  <2>3. CASE b.stage \in KillSwitchStages
    <3>1. b.screen = 0
      BY <2>3 DEF Counted
    <3> QED
      BY <1>1, <2>1, <2>2, <2>3, <3>1 DEF BlockRecords, Top
  <2>4. CASE b.stage \notin KillSwitchStages
    <3>1. b.screen \in 1..Len(screens)
      BY <2>1, <2>4 DEF Placed, KillSwitchStages
    <3> QED
      BY <1>1, <2>1, <2>2, <2>4, <3>1 DEF BlockRecords, Top
  <2> QED
    BY <2>3, <2>4
<1>3. \E n \in 1..MaxTaps + 1 : screens \in
        [1..n -> [connected : BOOLEAN, manager : BOOLEAN, checked : BOOLEAN]]
  BY <1>1 DEF ScreenRecords
<1>4. blocks \subseteq
        [stage : Stages, screen : 0..Top, tap : 0..MaxTaps, config : Configs]
  BY <1>2
<1>5. \A b \in blocks : b.screen = 0 <=> b.stage \in {"ksLoad", "ksSave"}
  BY <1>2 DEF KillSwitchStages
<1>6. taps \in 0..MaxTaps /\ speedBlock \in 0..Top
  BY DEF Counted, Top
<1>7. status \in Statuses /\ saved \in Configs
  BY DEF IInv, Known
<1> QED
  BY <1>3, <1>4, <1>5, <1>6, <1>7, Zenon DEF TypeOK, Flags

\* A block that a tap adds
LEMMA AddedBlock ==
  ASSUME NEW st, NEW i
  PROVE  Block(st, i).tap = taps' /\ Block(st, i).stage = st /\ Block(st, i).screen = i
BY DEF Block

\* and one that follows another
LEMMA NextBlock ==
  ASSUME NEW b \in BlockRecords, NEW st, NEW cf
  PROVE  /\ [b EXCEPT !.stage = st].tap = b.tap
         /\ [b EXCEPT !.stage = st].stage = st
         /\ [b EXCEPT !.stage = st].screen = b.screen
         /\ [b EXCEPT !.stage = st, !.config = cf].tap = b.tap
         /\ [b EXCEPT !.stage = st, !.config = cf].stage = st
         /\ [b EXCEPT !.stage = st, !.config = cf].screen = b.screen
BY DEF BlockRecords

\* The blocks after a tap are those before it and new ones.
LEMMA TapCounted ==
  ASSUME IInv, Counted,
         \/ startTapped \/ chooseServer \/ logout \/ doneButtonTapped
         \/ foreground \/ restart \/ killSwitchValueChanged
  PROVE  Counted'
<1>0. /\ taps \in Nat /\ taps' = taps + 1 /\ taps' \in 0..MaxTaps
      /\ Len(screens) \in Nat /\ Len(screens) <= taps + 1
  BY ControlAssumption
     DEF IInv, ScreenShape, Counted, startTapped, chooseServer, logout,
         doneButtonTapped, foreground, restart, killSwitchValueChanged, NewTap
<1>1. \/ Len(screens') \in {Len(screens), Len(screens) + 1} /\ UNCHANGED speedBlock
      \/ Len(screens') = 1 /\ speedBlock' = 0
  BY AppendFact DEF IInv, startTapped, chooseServer, logout, doneButtonTapped,
     foreground, restart, killSwitchValueChanged, system
<1>2. ASSUME NEW c \in blocks', c \notin blocks
      PROVE  \/ \E i : c = Block("ksLoad", 0)
             \/ \E i, st : st \in {"check", "delay", "loadAll"} /\ c = Block(st, i)
  BY <1>2, Zenon DEF startTapped, chooseServer, logout, doneButtonTapped, foreground,
     restart, killSwitchValueChanged
<1>3. ASSUME NEW c \in blocks'
      PROVE  c.tap <= taps' /\ (c.stage \in KillSwitchStages => c.screen = 0)
  <2>1. CASE c \in blocks
    <3>1. c.tap \in Nat /\ c.tap <= taps /\ (c.stage \in KillSwitchStages => c.screen = 0)
      BY <2>1 DEF IInv, BlockShape, BlockRecords, Counted
    <3> QED
      BY <1>0, <3>1
  <2>2. CASE c \notin blocks
    BY <1>0, <1>2, <2>2, AddedBlock DEF KillSwitchStages
  <2> QED
    BY <2>1, <2>2
<1>4. Len(screens') <= taps' + 1
  <2> DEFINE n == Len(screens')
  <2>1. n = Len(screens) \/ n = Len(screens) + 1 \/ n = 1
    BY <1>1
  <2> HIDE DEF n
  <2>2. n <= taps' + 1
    BY <1>0, <2>1
  <2> QED
    BY <2>2 DEF n
<1>5. taps' \in 0..MaxTaps /\ speedBlock' \in 0..Len(screens')
  BY <1>0, <1>1 DEF Counted
<1> QED
  BY <1>3, <1>4, <1>5 DEF Counted

\* A block that runs is gone, or goes on as one of the same screen and tap.
LEMMA BlockCounted ==
  ASSUME IInv, Counted, NEW b \in blocks,
         \/ check(b) \/ delay(b) \/ loadAll(b) \/ load(b) \/ save(b) \/ open(b)
         \/ ksLoad(b) \/ ksSave(b) \/ fail(b)
  PROVE  Counted'
<1>0. taps' = taps /\ Len(screens') = Len(screens)
  BY BlockScreens DEF check, delay, loadAll, load, save, open, ksLoad, ksSave, fail, Rest
<1>1. b \in BlockRecords /\ b.tap <= taps /\ (b.stage \in KillSwitchStages => b.screen = 0)
  BY DEF IInv, BlockShape, Counted
<1>2. ASSUME NEW c \in blocks', c \notin blocks
      PROVE  /\ c.tap = b.tap /\ c.screen = b.screen
             /\ c.stage \in KillSwitchStages => b.stage \in KillSwitchStages
  <2>1. CASE delay(b) \/ loadAll(b)
    <3>1. \E st \in {"loadAll", "load"} : c = [b EXCEPT !.stage = st]
      BY <1>2, <2>1, Zenon DEF delay, loadAll, Then
    <3> QED
      BY <1>1, <3>1, NextBlock DEF KillSwitchStages
  <2>2. CASE load(b) \/ save(b)
    <3>1. \E st \in {"save", "open"} : \E cf : c = [b EXCEPT !.stage = st, !.config = cf]
      BY <1>2, <2>2, Zenon DEF load, save
    <3> QED
      BY <1>1, <3>1, NextBlock DEF KillSwitchStages
  <2>3. CASE ksLoad(b)
    <3>1. c = [b EXCEPT !.stage = "ksSave", !.config = "OnDemand"]
      BY <1>2, <2>3 DEF ksLoad
    <3>2. b.stage \in KillSwitchStages
      BY <2>3 DEF ksLoad, Run, KillSwitchStages
    <3> QED
      BY <1>1, <3>1, <3>2, NextBlock
  <2>4. CASE check(b) \/ open(b) \/ ksSave(b) \/ fail(b)
    BY <1>2, <2>4, Zenon DEF check, open, ksSave, fail
  <2> QED
    BY <2>1, <2>2, <2>3, <2>4
<1>3. speedBlock' \in 0..Len(screens)
  <2>1. b.stage \in {"check", "open"} => b.screen \in 1..Len(screens)
    BY DEF IInv, BlockShape, Placed
  <2>2. /\ check(b) => b.stage = "check"
        /\ open(b) => b.stage = "open"
    BY DEF check, open, Run
  <2>3. speedBlock' = speedBlock \/ ((check(b) \/ open(b)) /\ speedBlock' = b.screen)
    BY DEF check, delay, loadAll, load, save, open, ksLoad, ksSave, fail,
           updateNetworkStatus
  <2> QED
    BY <2>1, <2>2, <2>3 DEF Counted, IInv, ScreenShape
<1> QED
  BY <1>0, <1>1, <1>2, <1>3 DEF Counted

\* Every step keeps both.
LEMMA TypesKept == IInv /\ Flags /\ Counted /\ [Next]_vars => Flags' /\ Counted'
<1> SUFFICES ASSUME IInv, Flags, Counted, [Next]_vars PROVE Flags' /\ Counted'
  OBVIOUS
<1>1. CASE \/ startTapped \/ chooseServer \/ logout \/ doneButtonTapped
           \/ foreground \/ restart \/ killSwitchValueChanged
  <2>1. Flags'
    BY <1>1, Zenon DEF Flags, startTapped, chooseServer, logout, doneButtonTapped,
       foreground, restart, killSwitchValueChanged, nowDisconnectVPN, stopVPNTunnel,
       system, defaultsVars
  <2> QED
    BY <1>1, <2>1, TapCounted
<1>2. CASE BlockRuns
  <2>1. PICK b \in blocks :
          \/ check(b) \/ delay(b) \/ loadAll(b) \/ load(b) \/ save(b) \/ open(b)
          \/ ksLoad(b) \/ ksSave(b) \/ fail(b)
    BY <1>2, Zenon DEF BlockRuns
  <2>2. Flags'
    BY <2>1, Zenon DEF Flags, check, delay, loadAll, load, save, open, ksLoad, ksSave, fail,
       Rest, system, defaultsVars, startVPNTunnel
  <2> QED
    BY <2>1, <2>2, BlockCounted
<1>3. CASE receiveNotification
  <2>1. Len(screens') = Len(screens)
    BY <1>3 DEF receiveNotification, IInv, ScreenShape
  <2>2. Flags'
    BY <1>3, Zenon DEF Flags, receiveNotification, defaultsVars
  <2>3. UNCHANGED <<blocks, taps>>
    BY <1>3 DEF receiveNotification
  <2>4. speedBlock' = speedBlock \/ speedBlock' \in 1..Len(screens)
    BY <1>3, LivingFact DEF receiveNotification, updateNetworkStatus, IInv
  <2> QED
    BY <2>1, <2>2, <2>3, <2>4 DEF Counted, IInv, ScreenShape
<1>4. CASE System
  <2>1. Flags'
    BY <1>4, Zenon DEF Flags, System, defaultsVars
  <2> QED
    BY <1>4, <2>1 DEF System, Counted
<1>5. CASE UNCHANGED vars
  BY <1>5 DEF Flags, Counted, vars, defaultsVars, system
<1> QED
  BY <1>1, <1>2, <1>3, <1>4, <1>5 DEF Next

\* Types: every variable has the type of its counterpart, and every pending block
\* belongs to a screen that exists, or to the settings (HomeViewController.m).
THEOREM TypeCorrect == Spec => []TypeOK
<1>1. Init => Flags /\ Counted
  <2> SUFFICES ASSUME Init PROVE Flags /\ Counted
    OBVIOUS
  <2>1. Flags
    BY Zenon DEF Init, Flags
  <2>2. Counted
    BY ControlAssumption DEF Init, Counted, KillSwitchStages
  <2> QED
    BY <2>1, <2>2
<1> QED
  BY <1>1, Invariance, TypesKept, TypesFollow, PTL DEF Spec
=============================================================================
