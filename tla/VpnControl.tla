----------------------------- MODULE VpnControl -----------------------------
(***************************************************************************)
(* The application side of the tunnel: HomeViewController with the screens *)
(* that steer it (LocationViewController, SettingsViewController, logout), *)
(* and the NetworkExtension preferences and connection it uses, which are  *)
(* external.                                                               *)
(*                                                                         *)
(* All code runs on the main queue, a block at a time; between the blocks  *)
(* of a start (load all, load, save, load, startVPNTunnel) the user taps,  *)
(* the connection changes, other starts run.  Choosing a server, leaving   *)
(* the settings or a login replaces the home screen; the old one lives on  *)
(* while a block of its is pending or held, and keeps observing the        *)
(* notifications.                                                          *)
(***************************************************************************)
EXTENDS Integers, Sequences, FiniteSets

CONSTANTS
  MaxTaps,     \* bound: what the user does
  MaxPending   \* bound: the user acts while no more blocks than these come to pend

ASSUME ControlAssumption == MaxTaps \in Nat /\ MaxPending \in Nat

VARIABLES
  \* NSUserDefaults
  flag,        \* "isVPNConnected"
  killSwitch,  \* "KillSwitchEnabled"
  \* HomeViewController
  screens,     \* its instances, the last one on display
  blocks,      \* pending completion handlers and dispatch_after
  speedBlock,  \* the screen whose block the JHNetworkSpeed singleton holds, or 0
  \* NetworkExtension
  saved,       \* the configuration in the preferences, None until one is saved
  status,      \* NEVPNStatus of the connection
  note,        \* a NEVPNStatusDidChangeNotification is to be delivered
  taps,
  stopped      \* history: the user has stopped the tunnel, and no start is under way

defaultsVars == <<flag, killSwitch>>
system == <<saved, status, note>>
vars == <<defaultsVars, screens, blocks, speedBlock, system, taps, stopped>>

\* A configuration is told apart by its onDemandEnabled: which server it names is
\* left out.
Configs == {"None", "Manual", "OnDemand"}
Statuses == {"disconnected", "connecting", "connected", "disconnecting"}

\* The ivar isVPNConnected, whether vpnManager is set, and
\* (history) whether checkVPNStatus has reached the end
NewScreen == [connected |-> FALSE, manager |-> FALSE, checked |-> FALSE]
Top == Len(screens)

\* A block: what it will do, of which screen (0: settings) and which tap, and the
\* configuration that it writes.
StartStages == {"delay", "loadAll", "load", "save", "open", "ksSave"}
Stages == StartStages \union {"check", "ksLoad"}
Block(stage, i) == [stage |-> stage, screen |-> i, tap |-> taps', config |-> "None"]
Then(b, stage) == (blocks \ {b}) \union {[b EXCEPT !.stage = stage]}

Living == {i \in DOMAIN screens :
             i \in {Top, speedBlock} \/ \E b \in blocks : b.screen = i}
Starting == \E b \in blocks : b.stage \in StartStages

Init ==
  /\ flag = FALSE /\ killSwitch \in BOOLEAN
  /\ screens = <<NewScreen>>
  /\ taps = 0 /\ speedBlock = 0
  /\ blocks = {[stage |-> "check", screen |-> 1, tap |-> 0, config |-> "None"]}
  /\ saved = "None" /\ status = "disconnected" /\ note = FALSE
  /\ stopped = FALSE
-----------------------------------------------------------------------------
\* NetworkExtension.  A start does nothing unless the tunnel is down.
startVPNTunnel ==
  IF status = "disconnected" THEN status' = "connecting" /\ note' = TRUE
                             ELSE UNCHANGED <<status, note>>

stopVPNTunnel ==
  IF status \in {"connecting", "connected"}
    THEN status' = "disconnecting" /\ note' = TRUE
    ELSE UNCHANGED <<status, note>>

\* The provider connects or fails, the connection is lost, a stop is complete; with
\* on demand the system starts the tunnel by itself.
System ==
  /\ \/ status = "connecting" /\ status' \in {"connected", "disconnected"}
     \/ status \in {"connected", "disconnecting"} /\ status' = "disconnected"
     \/ status = "disconnected" /\ saved = "OnDemand" /\ status' = "connecting"
  /\ note' = TRUE
  /\ UNCHANGED <<defaultsVars, screens, blocks, speedBlock, saved, taps, stopped>>

\* The new status, as receiveNotification and changeStatus understand it
Shown(screen, st) ==
  CASE ~screen.manager \/ st = "disconnected" -> [screen EXCEPT !.connected = FALSE]
    [] screen.manager /\ st = "connected" -> [screen EXCEPT !.connected = TRUE]
    [] OTHER -> screen

\* updateNetworkStatus, of each screen that learns that the tunnel is connected: the
\* block of the last one takes the place of the others', and is never taken back.
updateNetworkStatus(on) ==
  IF on = {} THEN UNCHANGED speedBlock ELSE speedBlock' \in on

receiveNotification ==
  /\ note
  /\ note' = FALSE
  /\ screens' = [i \in DOMAIN screens |->
                   IF i \in Living THEN Shown(screens[i], status) ELSE screens[i]]
  /\ updateNetworkStatus({i \in Living : screens[i].manager /\ status = "connected"})
  /\ UNCHANGED <<defaultsVars, blocks, saved, status, taps, stopped>>
-----------------------------------------------------------------------------
NewTap == taps < MaxTaps /\ taps' = taps + 1
FewPending == Cardinality(blocks') <= MaxPending

\* mutant: forgets the tunnel
nowDisconnectVPN_Flag(on) ==
  /\ flag' = FALSE
  /\ UNCHANGED <<status, note>>
  /\ stopped' = ((\E i \in on : screens[i].manager) /\ ~Starting /\ saved # "OnDemand")

\* On every screen of the set.  A screen without a manager stops nothing, and
\* neither a start that is under way nor on demand is ended by it.
nowDisconnectVPN(on) ==
  /\ flag' = FALSE
  /\ IF \E i \in on : screens[i].manager THEN stopVPNTunnel ELSE UNCHANGED <<status, note>>
  /\ stopped' = ((\E i \in on : screens[i].manager) /\ ~Starting /\ saved # "OnDemand")

startTapped ==
  /\ NewTap
  /\ \/ /\ flag
        /\ nowDisconnectVPN({Top})
        /\ UNCHANGED blocks
     \/ /\ ~flag
        /\ flag' = TRUE
        /\ blocks' = blocks \union {Block("loadAll", Top)}
        /\ stopped' = FALSE
        /\ UNCHANGED <<status, note>>
  /\ FewPending
  /\ UNCHANGED <<killSwitch, screens, speedBlock, saved>>

\* mutant: the new screen is loaded but never put on display
chooseServer_NotShown ==
  /\ NewTap
  /\ UNCHANGED screens
  /\ blocks' = blocks
       \union {Block(IF screens[i].connected THEN "delay" ELSE "loadAll", i) : i \in Living}
       \union {Block("check", Top + 1)}
  /\ IF \E i \in Living : screens[i].connected THEN stopVPNTunnel
                                              ELSE UNCHANGED <<status, note>>
  /\ stopped' = FALSE
  /\ FewPending
  /\ UNCHANGED <<flag, killSwitch, speedBlock, saved>>

\* connectionButton: every living screen gets connectVPN (processVPNConnection),
\* then a new one (viewDidLoad) takes its place.
chooseServer ==
  /\ NewTap
  /\ screens' = Append(screens, NewScreen)
  /\ blocks' = blocks
       \union {Block(IF screens[i].connected THEN "delay" ELSE "loadAll", i) : i \in Living}
       \union {Block("check", Top + 1)}
  /\ IF \E i \in Living : screens[i].connected THEN stopVPNTunnel
                                              ELSE UNCHANGED <<status, note>>
  /\ stopped' = FALSE
  /\ FewPending
  /\ UNCHANGED <<flag, killSwitch, speedBlock, saved>>

\* LogoutNotification; after the next login there is a new home screen.
logout ==
  /\ NewTap
  /\ nowDisconnectVPN(Living)
  /\ screens' = Append(screens, NewScreen)
  /\ blocks' = blocks \union {Block("check", Top + 1)}
  /\ FewPending
  /\ UNCHANGED <<killSwitch, speedBlock, saved>>

\* Done in the settings: a new home screen, and nothing else.
doneButtonTapped ==
  /\ NewTap
  /\ screens' = Append(screens, NewScreen)
  /\ blocks' = blocks \union {Block("check", Top + 1)}
  /\ FewPending
  /\ UNCHANGED <<defaultsVars, speedBlock, system, stopped>>

\* UIApplicationWillEnterForegroundNotification
foreground ==
  /\ NewTap
  /\ blocks' = blocks \union {Block("check", i) : i \in Living}
  /\ FewPending
  /\ UNCHANGED <<defaultsVars, screens, speedBlock, system, stopped>>

\* The application is ended, at any point of a start, and opened again.
restart ==
  /\ NewTap
  /\ screens' = <<NewScreen>>
  /\ blocks' = {Block("check", 1)}
  /\ speedBlock' = 0
  /\ note' = FALSE
  /\ FewPending
  /\ UNCHANGED <<defaultsVars, saved, status, stopped>>

killSwitchValueChanged ==
  /\ NewTap
  /\ killSwitch' = ~killSwitch
  /\ blocks' = blocks \union (IF killSwitch THEN {Block("ksLoad", 0)} ELSE {})
  /\ FewPending
  /\ UNCHANGED <<flag, screens, speedBlock, system, stopped>>
-----------------------------------------------------------------------------
Run(stage, b) == b \in blocks /\ b.stage = stage
Rest == UNCHANGED <<defaultsVars, taps, stopped>>

\* mutant: the status is left to the next notification
check_ManagerOnly(b) ==
  /\ Run("check", b)
  /\ blocks' = blocks \ {b}
  /\ screens' = IF saved = "None" THEN screens
                ELSE [screens EXCEPT ![b.screen].manager = TRUE,
                                     ![b.screen].checked = TRUE]
  /\ UNCHANGED <<speedBlock, system>> /\ Rest

\* checkVPNStatus: its load may be answered with an error, and a manager that the
\* screen has from a start may not be enabled yet.
check(b) ==
  /\ Run("check", b)
  /\ blocks' = blocks \ {b}
  /\ \/ /\ saved # "None" \/ screens[b.screen].manager
        /\ screens' = [screens EXCEPT ![b.screen].manager = TRUE,
                                      ![b.screen].connected = (status = "connected"),
                                      ![b.screen].checked = TRUE]
        /\ updateNetworkStatus({i \in {b.screen} : status = "connected"})
     \/ UNCHANGED <<screens, speedBlock>>
  /\ UNCHANGED system /\ Rest

\* dispatch_after in processVPNConnection
delay(b) ==
  /\ Run("delay", b)
  /\ blocks' = Then(b, "loadAll")
  /\ UNCHANGED <<screens, speedBlock, system>> /\ Rest

\* startEnterpriseVPN: the manager is found or made.
loadAll(b) ==
  /\ Run("loadAll", b)
  /\ blocks' = Then(b, "load")
  /\ screens' = [screens EXCEPT ![b.screen].manager = TRUE]
  /\ UNCHANGED <<speedBlock, system>> /\ Rest

KillSwitchConfig == IF killSwitch THEN "OnDemand" ELSE "Manual"

\* The protocol and the on-demand rule are set, and saving begins.
load(b) ==
  /\ Run("load", b)
  /\ blocks' = (blocks \ {b}) \union
       {[b EXCEPT !.stage = "save",
                  !.config = KillSwitchConfig]}
  /\ UNCHANGED <<screens, speedBlock, system>> /\ Rest

save(b) ==
  /\ Run("save", b)
  /\ saved' = b.config
  /\ blocks' = (blocks \ {b}) \union {[b EXCEPT !.stage = "open", !.config = "None"]}
  /\ UNCHANGED <<screens, speedBlock, status, note>> /\ Rest

\* openTunnel
open(b) ==
  /\ Run("open", b)
  /\ blocks' = blocks \ {b}
  /\ startVPNTunnel
  /\ screens' = [screens EXCEPT ![b.screen] = Shown(@, status')]
  /\ updateNetworkStatus({i \in {b.screen} : screens[i].manager /\ status' = "connected"})
  /\ UNCHANGED saved /\ Rest

\* Turning the kill switch off: the configuration of a connected tunnel is loaded,
\* and saved with on demand.
ksLoad(b) ==
  /\ Run("ksLoad", b)
  /\ blocks' = (blocks \ {b}) \union
       (IF saved # "None" /\ status = "connected"
          THEN {[b EXCEPT !.stage = "ksSave", !.config = "OnDemand"]}
          ELSE {})
  /\ UNCHANGED <<screens, speedBlock, system>> /\ Rest

ksSave(b) ==
  /\ Run("ksSave", b)
  /\ saved' = b.config
  /\ blocks' = blocks \ {b}
  /\ UNCHANGED <<screens, speedBlock, status, note>> /\ Rest

\* Any of these may be answered with an error, which ends it.
fail(b) ==
  /\ b \in blocks /\ b.stage \notin {"check", "delay"}
  /\ blocks' = blocks \ {b}
  /\ UNCHANGED <<screens, speedBlock, system>> /\ Rest

BlockRuns == \E b \in blocks :
  check(b) \/ delay(b) \/ loadAll(b) \/ load(b) \/ save(b) \/ open(b) \/ ksLoad(b) \/ ksSave(b) \/ fail(b)

Next == \/ startTapped \/ chooseServer \/ logout \/ doneButtonTapped \/ foreground
        \/ restart \/ killSwitchValueChanged \/ BlockRuns \/ receiveNotification \/ System

Spec == Init /\ [][Next]_vars
-----------------------------------------------------------------------------
\* Every variable has the type its counterpart can hold, and every pending block
\* belongs to a screen that exists, or to the settings.
TypeOK ==
  /\ flag \in BOOLEAN /\ killSwitch \in BOOLEAN
  /\ taps \in 0..MaxTaps /\ stopped \in BOOLEAN
  /\ status \in Statuses /\ note \in BOOLEAN
  /\ saved \in Configs
  /\ speedBlock \in 0..Top
  /\ \E n \in 1..MaxTaps + 1 : screens \in
       [1..n -> [connected : BOOLEAN, manager : BOOLEAN, checked : BOOLEAN]]
  /\ blocks \subseteq
       [stage : Stages, screen : 0..Top, tap : 0..MaxTaps, config : Configs]
  /\ \A b \in blocks : b.screen = 0 <=> b.stage \in {"ksLoad", "ksSave"}

\* The home screen on display says "VPN Connected" exactly while the tunnel is:
\* once it has looked (checkVPNStatus), and every change has been notified, no
\* start, replaced screen, logout, restart or failed call leaves it wrong.
ScreenTells ==
  screens[Top].checked /\ ~note /\ status \in {"connected", "disconnected"}
    => (screens[Top].connected <=> status = "connected")

\* A tunnel that the user has stopped (nowDisconnectVPN), with no start under way
\* and no on demand, stays down until the user asks for it again: no left-over
\* block, check or turn of the kill switch starts it.
StopHolds == stopped => status \in {"disconnecting", "disconnected"}

\* "// Check If KillSwitch Is On ... KillSwitch Disabled" (HomeViewController.m:207):
\* on demand is turned on by a start with the kill switch on.  With it off, only
\* a start that had looked before may still do so.
KillSwitchOff ==
  [][saved # "OnDemand" /\ saved' = "OnDemand" /\ ~killSwitch
       => \E b \in blocks : b.stage = "save"]_vars
=============================================================================
