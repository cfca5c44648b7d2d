------------------------ MODULE DeviceBinding_proofs ------------------------
(***************************************************************************)
(* The properties of DeviceBinding, for any drivers, types, plug-ins and   *)
(* configurations. The invariant says what InitializeScriptContext has     *)
(* done when it is at a device: the devices before it are connected to     *)
(* drivers of their own, and those are all the drivers that are taken; the *)
(* device itself and the ones after it have nobody yet.                    *)
(***************************************************************************)
EXTENDS DeviceBinding, TLAPS

\* In front of the current device every device has its driver, behind it none.
Progress ==
  pc = "binding" =>
    \A i \in DOMAIN mDevices :
      IF i < device THEN function[i] \in used /\ connected[i]
      ELSE function[i] = Nobody

\* What is taken is the work of this context.
Ledger ==
  pc = "binding" =>
    \A d \in used : \E i \in DOMAIN mDevices : i < device /\ function[i] = d

BindInv == /\ Progress /\ Ledger
           /\ OneNamePerDriver /\ TakenByThisContext /\ ConnectedUpToPlugin

-----------------------------------------------------------------------------
\* The configured devices are a sequence, whatever the names in it.
LEMMA DevicesShape ==
  ASSUME TypeOK
  PROVE  DOMAIN mDevices = 1 .. Len(mDevices) /\ Len(mDevices) \in Nat
<1>1. CASE mDevices = <<>>
  BY <1>1
<1>2. CASE mDevices \in Configs
  BY <1>2, BindingAssumption
<1>3. QED  BY <1>1, <1>2 DEF TypeOK

\* TypeOK holds before the first configuration is read.
LEMMA TypeInitially == Init => TypeOK
BY DEF Init, TypeOK

\* Every step keeps TypeOK: the loop of InitializeScriptContext is at a device
\* or just behind the last one.
LEMMA TypeStep == TypeOK /\ [Next]_vars => TypeOK'
<1> SUFFICES ASSUME TypeOK, [Next]_vars PROVE TypeOK'
  OBVIOUS
<1>0. DOMAIN mDevices = 1 .. Len(mDevices) /\ Len(mDevices) \in Nat
  BY DevicesShape
<1>1. ASSUME NEW devices \in Configs, Configure(devices) PROVE TypeOK'
  BY <1>1 DEF TypeOK, Configure, ReleaseAll, Nothing, Unconnected
<1>2. CASE BeginContext
  BY <1>0, <1>2 DEF TypeOK, BeginContext, ReleaseAll, Nothing
<1>3. CASE CreateDevice
  BY <1>0, <1>3 DEF TypeOK, CreateDevice, Taken, Free
<1>4. CASE LinkDevice
  BY <1>0, <1>4 DEF TypeOK, LinkDevice, Untaken, Verdict, Free
<1>5. CASE AllBound
  BY <1>5 DEF TypeOK, AllBound
<1>6. CASE CloseContext \/ GiveUp
  BY <1>6 DEF TypeOK, CloseContext, GiveUp, ReleaseAll
<1>7. CASE UNCHANGED vars
  BY <1>7 DEF TypeOK, vars
<1>8. QED
  BY ONLY [Next]_vars, <1>1, <1>2, <1>3, <1>4, <1>5, <1>6, <1>7 DEF Next

\* The variables keep their types.
THEOREM BindingTypeCorrect == Spec => []TypeOK
<1>1. QED  BY TypeInitially, TypeStep, PTL DEF Spec

-----------------------------------------------------------------------------
\* Nothing is bound before the first context.
LEMMA BindInitially == Init => BindInv
BY DEF Init, BindInv, Progress, Ledger, OneNamePerDriver,
       TakenByThisContext, ConnectedUpToPlugin

\* A driver that is free becomes the function of the current device: no device
\* before has it, because those have drivers that are taken.
LEMMA CreateStep ==
  ASSUME TypeOK, BindInv, CreateDevice
  PROVE  BindInv'
<1>0. DOMAIN mDevices = 1 .. Len(mDevices) /\ Len(mDevices) \in Nat
  BY DevicesShape
<1>1. PICK driver \in Free(mDevices[device]) : Taken(driver)
  BY DEF CreateDevice
<1>2. /\ pc = "binding" /\ pc' = "binding" /\ mDevices' = mDevices
      /\ device \in DOMAIN mDevices /\ device' = device + 1
      /\ driver \in Drivers \ used /\ used' = used \cup {driver}
      /\ function'[device] = driver /\ connected'[device] = TRUE
      /\ \A i \in DOMAIN mDevices :
           i # device => function'[i] = function[i] /\ connected'[i] = connected[i]
  BY <1>1 DEF CreateDevice, Taken, Free, TypeOK
<1>3. device \in Nat /\ \A i \in DOMAIN mDevices : i \in Nat
  BY <1>0, <1>2
<1>4. Progress'
  <2>1. \A i \in DOMAIN mDevices :
          IF i < device THEN function[i] \in used /\ connected[i]
          ELSE function[i] = Nobody
    BY <1>2 DEF BindInv, Progress
  <2>2. ASSUME NEW i \in DOMAIN mDevices, i < device + 1
        PROVE  function'[i] \in used' /\ connected'[i]
    BY <1>2, <1>3, <2>1, <2>2
  <2>3. ASSUME NEW i \in DOMAIN mDevices, ~ i < device + 1
        PROVE  function'[i] = Nobody
    BY <1>2, <1>3, <2>1, <2>3
  <2>4. QED  BY <1>2, <2>2, <2>3 DEF Progress
<1>5. Ledger'
  <2>1. ASSUME NEW d \in used
        PROVE  \E i \in DOMAIN mDevices : i < device /\ function[i] = d
    BY <1>2 DEF BindInv, Ledger
  <2>2. QED  BY <1>2, <1>3, <2>1 DEF Ledger
<1>6. ConnectedUpToPlugin'
  BY <1>2 DEF ConnectedUpToPlugin
<1>7. OneNamePerDriver'
  <2>1. \A i \in DOMAIN mDevices : function[i] # driver
    BY <1>2, BindingAssumption DEF BindInv, Progress
  <2>2. QED  BY <1>2, <2>1 DEF BindInv, OneNamePerDriver
<1>8. TakenByThisContext'
  BY <1>2, <1>5 DEF Ledger, TakenByThisContext
<1>9. QED  BY <1>4, <1>5, <1>6, <1>7, <1>8 DEF BindInv

\* A plug-in, or a driver about to fail, becomes the function of the current
\* device, and the loop ends.
LEMMA LinkStep ==
  ASSUME TypeOK, BindInv, LinkDevice
  PROVE  BindInv'
<1>0. DOMAIN mDevices = 1 .. Len(mDevices) /\ Len(mDevices) \in Nat
  BY DevicesShape
<1>1. PICK driver \in Free(mDevices[device]) \cup {Nobody}, linked \in BOOLEAN :
        /\ IF driver = Nobody THEN Untaken ELSE used' = used \cup {driver}
        /\ linked => mDevices[device] \in Plugins
        /\ function' = [function EXCEPT ![device] =
                          IF mDevices[device] \in Plugins THEN mDevices[device]
                          ELSE driver]
        /\ connected' = [connected EXCEPT ![device] = linked]
        /\ pc' = Verdict(linked)
  BY DEF LinkDevice
<1>2. /\ pc = "binding" /\ mDevices' = mDevices
      /\ device \in DOMAIN mDevices /\ device' = device
      /\ driver \in Drivers \ used \/ driver = Nobody
      /\ used' = IF driver = Nobody THEN used ELSE used \cup {driver}
      /\ connected'[device] = linked
      /\ \A i \in DOMAIN mDevices :
           i # device => function'[i] = function[i] /\ connected'[i] = connected[i]
  BY <1>1 DEF LinkDevice, Free, TypeOK, Untaken
<1>3. /\ pc' = IF linked THEN "ready" ELSE "failed"
      /\ linked => function'[device] \in Plugins
      /\ function'[device] \in Plugins \cup {driver}
  BY <1>1, <1>2 DEF TypeOK, Verdict
<1>4. device \in Nat /\ \A i \in DOMAIN mDevices : i \in Nat
  BY <1>0, <1>2
<1>5. /\ \A i \in DOMAIN mDevices :
           IF i < device THEN function[i] \in used /\ connected[i]
           ELSE function[i] = Nobody
      /\ \A d \in used : \E i \in DOMAIN mDevices : i < device /\ function[i] = d
  BY <1>2 DEF BindInv, Progress, Ledger
<1>6. Progress' /\ Ledger'
  BY <1>3 DEF Progress, Ledger
<1>7. OneNamePerDriver'
  <2>1. function'[device] \in Drivers => function'[device] \notin used
    BY <1>2, <1>3, BindingAssumption
  <2>2. \A i \in DOMAIN mDevices :
          i # device /\ function'[i] \in Drivers => function'[i] \in used
    BY <1>2, <1>5, BindingAssumption
  <2>3. QED  BY <1>2, <2>1, <2>2 DEF BindInv, OneNamePerDriver
<1>8. TakenByThisContext'
  <2>1. ASSUME NEW d \in used, linked
        PROVE  \E i \in DOMAIN mDevices : function'[i] = d
    BY <1>2, <1>4, <1>5
  <2>2. QED  BY <1>2, <1>3, <2>1 DEF TakenByThisContext
<1>9. ConnectedUpToPlugin'
  <2>1. ASSUME NEW i \in DOMAIN mDevices, linked
        PROVE  \/ connected'[i]
               \/ \E j \in DOMAIN mDevices : j < i /\ function'[j] \in Plugins
    <3>1. CASE i < device
      BY <1>2, <1>4, <1>5, <3>1
    <3>2. CASE i = device
      BY <1>2, <2>1, <3>2
    <3>3. CASE device < i
      BY <1>2, <1>3, <2>1, <3>3
    <3>4. QED  BY <1>4, <3>1, <3>2, <3>3
  <2>2. QED  BY <1>2, <1>3, <2>1 DEF ConnectedUpToPlugin
<1>10. QED  BY <1>6, <1>7, <1>8, <1>9 DEF BindInv

\* Every step keeps the invariant.
LEMMA BindStep == TypeOK /\ BindInv /\ [Next]_vars => BindInv'
<1> SUFFICES ASSUME TypeOK, BindInv, [Next]_vars PROVE BindInv'
  OBVIOUS
<1> USE DEF Progress, Ledger, OneNamePerDriver, TakenByThisContext,
            ConnectedUpToPlugin
<1>1. ASSUME NEW devices \in Configs, Configure(devices) PROVE BindInv'
  BY <1>1, BindingAssumption DEF BindInv, Configure, Nothing
<1>2. CASE BeginContext
  <2>1. /\ pc' = "binding" /\ used' = {} /\ device' = 1 /\ mDevices' = mDevices
        /\ \A i \in DOMAIN mDevices : function'[i] = Nobody /\ ~ i < 1
    BY <1>2, DevicesShape DEF BeginContext, ReleaseAll, Nothing
  <2>2. QED  BY <2>1, BindingAssumption DEF BindInv
<1>3. CASE CreateDevice
  BY <1>3, CreateStep
<1>4. CASE LinkDevice
  BY <1>4, LinkStep
<1>5. CASE AllBound
  <2>1. \A i \in DOMAIN mDevices : i < device
    BY <1>5, DevicesShape DEF AllBound, TypeOK
  <2>2. QED  BY <1>5, <2>1 DEF BindInv, AllBound
<1>6. CASE CloseContext \/ GiveUp
  BY <1>6 DEF BindInv, CloseContext, GiveUp
<1>7. CASE UNCHANGED vars
  BY <1>7 DEF BindInv, vars
<1>8. QED
  BY ONLY [Next]_vars, <1>1, <1>2, <1>3, <1>4, <1>5, <1>6, <1>7 DEF Next

-----------------------------------------------------------------------------
\* TypeOK and the invariant hold in every state.
LEMMA BindInductive == Spec => [](TypeOK /\ BindInv)
<1>1. QED
  BY TypeInitially, TypeStep, BindInitially, BindStep, PTL DEF Spec

\* Two names of a script never control the same driver, even after a context
\* that failed half way and released nothing.
THEOREM OneName == Spec => []OneNamePerDriver
<1>1. BindInv => OneNamePerDriver
  BY DEF BindInv
<1>2. QED  BY <1>1, BindInductive, PTL

\* What a failed context left taken does not count against the next one:
\* while a context is built or used, the drivers taken are its own.
THEOREM Taking == Spec => []TakenByThisContext
<1>1. BindInv => TakenByThisContext
  BY DEF BindInv
<1>2. QED  BY <1>1, BindInductive, PTL

\* When the script may run, a device that is not connected comes after one
\* that is bound to a plug-in.
THEOREM Connecting == Spec => []ConnectedUpToPlugin
<1>1. BindInv => ConnectedUpToPlugin
  BY DEF BindInv
<1>2. QED  BY <1>1, BindInductive, PTL
=============================================================================
