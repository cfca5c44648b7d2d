--------------------------- MODULE DeviceBinding ---------------------------
(***************************************************************************)
(* How ProcessEngine binds the devices a script's configuration names to   *)
(* its built-in drivers and to the plug-ins: InitializeScriptContext,      *)
(* CreateDevice, LinkDevice and CloseScriptContext, over any number of     *)
(* configurations, successful and failed contexts.                         *)
(***************************************************************************)
EXTENDS Naturals, Sequences

CONSTANTS
  Drivers,   \* mDeviceList: MAX_DEVICES of some types, one of others
  TypeOf,    \* driver -> type
  Plugins,   \* the class names of the plug-ins that are loaded
  Configs    \* what config files may hold: sequences of types

Nobody == "nobody"
Types  == {TypeOf[d] : d \in Drivers}

ASSUME BindingAssumption ==
  /\ Nobody \notin Drivers \cup Plugins
  /\ Drivers \cap Plugins = {}
  /\ \A devices \in Configs : devices \in Seq({devices[i] : i \in DOMAIN devices})

VARIABLES
  mDevices,   \* the types of the configured devices
  connected,  \* Device::connected
  function,   \* the object registered in the script under the device's name
  used,       \* the drivers that are taken
  device,     \* the device InitializeScriptContext is at
  pc          \* "idle", "binding", "ready" for a script, "failed"

vars == <<mDevices, connected, function, used, device, pc>>

Nothing_Kept(devices) == function
Nothing(devices) == [i \in DOMAIN devices |-> Nobody]
Unconnected(devices) == [i \in DOMAIN devices |-> FALSE]

Init ==
  /\ mDevices = <<>> /\ connected = <<>> /\ function = <<>>
  /\ used = {} /\ device = 1
  /\ pc = "idle"

ReleaseAll_Nothing == UNCHANGED used
ReleaseAll == used' = {}

\* DoLoadScript: contexts without devices, then the devices ParseConfig reads.
Configure(devices) ==
  /\ pc = "idle"
  /\ ReleaseAll
  /\ mDevices' = devices
  /\ connected' = Unconnected(devices)
  /\ function' = Nothing(devices)
  /\ UNCHANGED <<device, pc>>

\* InitializeScriptContext: a new script engine, every driver released.
BeginContext ==
  /\ pc = "idle"
  /\ ReleaseAll
  /\ function' = Nothing(mDevices)
  /\ device' = 1
  /\ pc' = "binding"
  /\ UNCHANGED <<mDevices, connected>>

-----------------------------------------------------------------------------
Free_AnyUse(type) == {d \in Drivers : TypeOf[d] = type}
Free(type) == {d \in Drivers \ used : TypeOf[d] = type}

\* CreateDevice: a driver that is free is taken and registered, then it fails
\* or passes its initialisation and its self-test.
Taken(driver) ==
  /\ used' = used \cup {driver}
  /\ function' = [function EXCEPT ![device] = driver]

CreateDevice ==
  /\ pc = "binding" /\ device \in DOMAIN mDevices
  /\ \E driver \in Free(mDevices[device]) : Taken(driver)
  /\ connected' = [connected EXCEPT ![device] = TRUE]
  /\ device' = device + 1
  /\ UNCHANGED <<mDevices, pc>>

\* LinkDevice, tried when no driver is left or the one taken has failed. The
\* loop ends here, whether the plug-in accepts its parameters or not.
Untaken == Free(mDevices[device]) = {} /\ UNCHANGED used

Verdict_Ignored(linked) == "ready"
Verdict(linked) == IF linked THEN "ready" ELSE "failed"

LinkDevice ==
  /\ pc = "binding" /\ device \in DOMAIN mDevices
  /\ \E driver \in Free(mDevices[device]) \cup {Nobody}, linked \in BOOLEAN :
       /\ IF driver = Nobody THEN Untaken ELSE used' = used \cup {driver}
       /\ linked => mDevices[device] \in Plugins
       /\ function' = [function EXCEPT ![device] =
                         IF mDevices[device] \in Plugins THEN mDevices[device]
                         ELSE driver]
       /\ connected' = [connected EXCEPT ![device] = linked]
       /\ pc' = Verdict(linked)
  /\ UNCHANGED <<mDevices, device>>

AllBound ==
  /\ pc = "binding" /\ device \notin DOMAIN mDevices
  /\ pc' = "ready"
  /\ UNCHANGED <<mDevices, connected, function, used, device>>

-----------------------------------------------------------------------------
\* CloseScriptContext, at the end of a script.
CloseContext ==
  /\ pc = "ready"
  /\ ReleaseAll
  /\ pc' = "idle"
  /\ UNCHANGED <<mDevices, connected, function, device>>

\* Without its devices a script is not evaluated, or its evaluation fails:
\* nothing is released.
GiveUp ==
  /\ pc \in {"ready", "failed"}
  /\ pc' = "idle"
  /\ UNCHANGED <<mDevices, connected, function, used, device>>

Next ==
  \/ \E devices \in Configs : Configure(devices)
  \/ BeginContext \/ CreateDevice \/ LinkDevice \/ AllBound
  \/ CloseContext \/ GiveUp

Spec == Init /\ [][Next]_vars
-----------------------------------------------------------------------------
(* Properties.                                                             *)

TypeOK ==
  /\ mDevices \in {<<>>} \cup Configs
  /\ connected \in [DOMAIN mDevices -> BOOLEAN]
  /\ function \in [DOMAIN mDevices -> Drivers \cup Plugins \cup {Nobody}]
  /\ used \in SUBSET Drivers
  /\ device \in Nat
  /\ pc = "binding" => device \in 1 .. Len(mDevices) + 1
  /\ pc \in {"idle", "binding", "ready", "failed"}

\* Two names of a script never control the same driver.
OneNamePerDriver ==
  \A i, j \in DOMAIN mDevices :
    function[i] = function[j] /\ function[i] \in Drivers => i = j

\* While a context is built or used, every driver that is taken is one of its
\* functions, or failed just before a plug-in got its name: what a failed
\* context left taken does not count against the limits of the next one.
TakenByThisContext ==
  pc \in {"binding", "ready"} =>
    \A d \in used : \E i \in DOMAIN mDevices :
      function[i] = d \/ (i = device /\ function[i] \in Plugins)

\* The devices in front of the first one bound to a plug-in are connected when
\* the script may run.
ConnectedUpToPlugin ==
  pc = "ready" =>
    \A i \in DOMAIN mDevices :
      connected[i] \/ \E j \in DOMAIN mDevices : j < i /\ function[j] \in Plugins

\* When the script may run, every device of its configuration is connected.
AllDevicesAssigned == pc = "ready" => \A i \in DOMAIN mDevices : connected[i]
=============================================================================
