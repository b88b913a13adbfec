------------------------- MODULE PowerSavingProofs -------------------------
(***************************************************************************)
(* Proofs about power saving, for every configuration and every schedule   *)
(* of the cores: the clock is never low while anything renders, draws or   *)
(* plays, and a parked display is dark.                                    *)
(***************************************************************************)
EXTENDS PowerSaving, TLAPS

USE DEF config, flags, cpower, display, Goto, Core, Parker

(* Whatever sets or clears event registers leaves registers. *)
LEMMA EventTyped ==
  ASSUME event \in [Core -> BOOLEAN],
         \/ event' = event
         \/ SendEvent
         \/ \E c \in Core : WaitForEvent(c)
         \/ \E c \in Core : event' = [event EXCEPT ![c] = TRUE]
  PROVE  event' \in [Core -> BOOLEAN]
<1>1. CASE SendEvent
  BY <1>1 DEF SendEvent
<1>2. CASE \E c \in Core : WaitForEvent(c)
  BY <1>2, Zenon DEF WaitForEvent
<1>3. CASE \E c \in Core : event' = [event EXCEPT ![c] = TRUE]
  BY <1>3, Zenon
<1>4. QED
  BY <1>1, <1>2, <1>3

(* The system starts well typed. *)
LEMMA TypeInit == Init => TypeOK
<1> SUFFICES ASSUME Init PROVE TypeOK
  OBVIOUS
<1>1. /\ m_bRunning \in BOOLEAN /\ m_bPowerSaveRequested \in BOOLEAN
      /\ m_bUITaskDone \in BOOLEAN /\ idle \in BOOLEAN /\ backlight \in BOOLEAN
  BY DEF Init
<1>2. parked \in [Parker -> BOOLEAN] /\ event \in [Core -> BOOLEAN]
  BY DEF Init
<1>3. QED
  BY <1>1, <1>2 DEF Init, TypeOK, MainPc, UIPc, AudioPc

(* Every step of every core keeps the types. *)
LEMMA TypeStep == TypeOK /\ [Next]_vars => TypeOK'
<1> SUFFICES ASSUME TypeOK, [Next]_vars PROVE TypeOK'
  OBVIOUS
<1> USE DEF TypeOK, MainPc, UIPc, AudioPc, ParkPc
<1>1. CASE MainLoop
  BY <1>1 DEF MainLoop
<1>2. CASE PollNothing
  BY <1>2 DEF PollNothing
<1>3. CASE Awaken
  <2>1. idle' \in BOOLEAN
    BY <1>3 DEF Awaken
  <2>2. event' \in [Core -> BOOLEAN]
    BY <1>3, EventTyped DEF Awaken
  <2>3. QED
    BY <1>3, <2>1, <2>2 DEF Awaken
<1>4. CASE StopTasks
  <2>1. m_bRunning' \in BOOLEAN
    BY <1>4 DEF StopTasks
  <2>2. event' \in [Core -> BOOLEAN]
    BY <1>4, EventTyped DEF StopTasks
  <2>3. QED
    BY <1>4, <2>1, <2>2 DEF StopTasks
<1>5. CASE ExitSound
  BY <1>5 DEF ExitSound
<1>6. CASE ExitUI
  BY <1>6 DEF ExitUI
<1>7. CASE ExitRequest
  <2>1. m_bPowerSaveRequested' \in BOOLEAN
    BY <1>7 DEF ExitRequest
  <2>2. event' \in [Core -> BOOLEAN]
    BY <1>7, EventTyped DEF ExitRequest
  <2>3. QED
    BY <1>7, <2>1, <2>2 DEF ExitRequest
<1>8. CASE PowerUpdate
  BY <1>8 DEF PowerUpdate
<1>9. CASE EnterUI
  BY <1>9 DEF EnterUI
<1>10. CASE EnterRequest
  <2>1. m_bPowerSaveRequested' \in BOOLEAN
    BY <1>10 DEF EnterRequest
  <2>2. event' \in [Core -> BOOLEAN]
    BY <1>10, EventTyped DEF EnterRequest
  <2>3. QED
    BY <1>10, <2>1, <2>2 DEF EnterRequest
<1>11. CASE EnterCancel
  BY <1>11 DEF EnterCancel, CancelSound
<1>12. CASE PowerReady
  BY <1>12 DEF PowerReady
<1>13. CASE SetSpeedLow
  BY <1>13 DEF SetSpeedLow
<1>14. CASE MainCancel
  BY <1>14 DEF MainCancel, CancelSound
<1>15. CASE MainJoin
  <2>1. event' \in [Core -> BOOLEAN]
    BY <1>15, EventTyped DEF MainJoin
  <2>2. QED
    BY <1>15, <2>1 DEF MainJoin, WaitForEvent
<1>16. CASE UIStart
  <2>1. m_bUITaskDone' \in BOOLEAN
    BY <1>16 DEF UIStart
  <2>2. event' \in [Core -> BOOLEAN]
    BY <1>16, EventTyped DEF UIStart
  <2>3. QED
    BY <1>16, <2>1, <2>2 DEF UIStart
<1>17. CASE UILoop
  BY <1>17 DEF UILoop
<1>18. CASE UINoTimeout
  BY <1>18 DEF UINoTimeout
<1>19. CASE UITimeout
  BY <1>19 DEF UITimeout
<1>20. CASE UIClear
  BY <1>20 DEF UIClear
<1>21. CASE UIDim
  <2>1. backlight' \in BOOLEAN
    BY <1>21 DEF UIDim
  <2>2. event' \in [Core -> BOOLEAN]
    BY <1>21, EventTyped DEF UIDim
  <2>3. QED
    BY <1>21, <2>1, <2>2 DEF UIDim
<1>22. CASE UISleep
  BY <1>22 DEF UISleep
<1>23. CASE UILight
  BY <1>23 DEF UILight
<1>24. CASE UITest
  BY <1>24 DEF UITest
<1>25. CASE UIFinish
  <2>1. m_bUITaskDone' \in BOOLEAN
    BY <1>25 DEF UIFinish
  <2>2. event' \in [Core -> BOOLEAN]
    BY <1>25, EventTyped DEF UIFinish
  <2>3. QED
    BY <1>25, <2>1, <2>2 DEF UIFinish
<1>26. CASE AudioLoop
  BY <1>26 DEF AudioLoop
<1>27. CASE AudioTest
  BY <1>27 DEF AudioTest
<1>28. CASE AudioFrames
  BY <1>28 DEF AudioFrames
<1>29. CASE AudioWait
  <2>1. event' \in [Core -> BOOLEAN]
    BY <1>29, EventTyped DEF AudioWait
  <2>2. QED
    BY <1>29, <2>1 DEF AudioWait, WaitForEvent
<1>30. CASE AudioRender
  BY <1>30 DEF AudioRender
<1>31. CASE AudioWrite
  BY <1>31 DEF AudioWrite
<1>32. CASE ShowMessage
  BY <1>32 DEF ShowMessage
<1>33. CASE TimeoutElapses
  <2>1. idle' \in BOOLEAN
    BY <1>33 DEF TimeoutElapses
  <2>2. event' \in [Core -> BOOLEAN]
    BY <1>33, EventTyped DEF TimeoutElapses
  <2>3. QED
    BY <1>33, <2>1, <2>2 DEF TimeoutElapses
<1>34. CASE SoundNeedsData
  BY <1>34, EventTyped DEF SoundNeedsData
<1>35. CASE SoundStops
  BY <1>35 DEF SoundStops
<1>36. ASSUME NEW c \in Parker, Park(c) PROVE TypeOK'
  BY <1>36, EventTyped DEF Park
<1>37. ASSUME NEW c \in Parker, ParkTest(c) PROVE TypeOK'
  BY <1>37, EventTyped DEF ParkTest
<1>38. ASSUME NEW c \in Parker, ParkWait(c) PROVE TypeOK'
  BY <1>38, EventTyped DEF ParkWait
<1>39. ASSUME NEW c \in Parker, Unpark(c) PROVE TypeOK'
  BY <1>39, EventTyped DEF Unpark
<1>40. ASSUME NEW c \in Core, SpuriousEvent(c) PROVE TypeOK'
  BY <1>40, EventTyped DEF SpuriousEvent
<1>41. CASE UNCHANGED vars
  BY <1>41 DEF vars
<1>42. QED
  BY <1>1, <1>2, <1>3, <1>4, <1>5, <1>6, <1>7, <1>8, <1>9, <1>10, <1>11, <1>12, <1>13, <1>14, <1>15, <1>16, <1>17, <1>18, <1>19, <1>20, <1>21, <1>22, <1>23, <1>24, <1>25, <1>26, <1>27, <1>28, <1>29, <1>30, <1>31, <1>32, <1>33, <1>34, <1>35, <1>36, <1>37, <1>38, <1>39, <1>40, <1>41
     DEF Next, Main, UI, Audio, ParkStep, Environment

(* Every variable keeps to its type. *)
THEOREM TypeCorrect == Spec => []TypeOK
BY TypeInit, TypeStep, PTL DEF Spec

----------------------------------------------------------------------------
(* The protocol invariant holds when the cores start. *)
LEMMA InvInit == Init => PowerInv
BY DEF Init, PowerInv, FlagsAgree, RequestFollowsPower, ParkedStays,
       ReadinessHolds, ParkedDisplayDark, SleepingDark, InPark, ParkPc,
       Entering, Exiting

(* Every step of every core keeps the protocol invariant. *)
LEMMA InvStep == TypeOK /\ PowerInv /\ [Next]_vars => PowerInv'
<1> SUFFICES ASSUME TypeOK, PowerInv, [Next]_vars PROVE PowerInv'
  OBVIOUS
<1> USE DEF TypeOK, MainPc, UIPc, AudioPc, ParkPc, PowerInv, FlagsAgree,
            RequestFollowsPower, ParkedStays, ReadinessHolds, Quiesced,
            Stopping, ParkedDisplayDark, SleepingDark, InPark, Entering,
            Exiting
<1>1. CASE MainLoop
  BY <1>1 DEF MainLoop
<1>2. CASE PollNothing
  BY <1>2 DEF PollNothing
<1>3. CASE Awaken
  BY <1>3 DEF Awaken
<1>4. CASE StopTasks
  BY <1>4 DEF StopTasks
<1>5. CASE ExitSound
  BY <1>5 DEF ExitSound
<1>6. CASE ExitUI
  BY <1>6 DEF ExitUI
<1>7. CASE ExitRequest
  BY <1>7 DEF ExitRequest
<1>8. CASE PowerUpdate
  BY <1>8 DEF PowerUpdate
<1>9. CASE EnterUI
  BY <1>9 DEF EnterUI
<1>10. CASE EnterRequest
  BY <1>10 DEF EnterRequest
<1>11. CASE EnterCancel
  BY <1>11 DEF EnterCancel, CancelSound
<1>12. CASE PowerReady
  BY <1>12 DEF PowerReady, IsReadyForPowerSavingMode
<1>13. CASE SetSpeedLow
  BY <1>13 DEF SetSpeedLow
<1>14. CASE MainCancel
  BY <1>14 DEF MainCancel, CancelSound
<1>15. CASE MainJoin
  BY <1>15 DEF MainJoin, WaitForEvent
<1>16. CASE UIStart
  BY <1>16 DEF UIStart
<1>17. CASE UILoop
  BY <1>17 DEF UILoop
<1>18. CASE UINoTimeout
  BY <1>18 DEF UINoTimeout
<1>19. CASE UITimeout
  BY <1>19 DEF UITimeout
<1>20. CASE UIClear
  BY <1>20 DEF UIClear
<1>21. CASE UIDim
  BY <1>21 DEF UIDim
<1>22. CASE UISleep
  BY <1>22 DEF UISleep
<1>23. CASE UILight
  BY <1>23 DEF UILight
<1>24. CASE UITest
  BY <1>24 DEF UITest
<1>25. CASE UIFinish
  BY <1>25 DEF UIFinish
<1>26. CASE AudioLoop
  BY <1>26 DEF AudioLoop
<1>27. CASE AudioTest
  BY <1>27 DEF AudioTest
<1>28. CASE AudioFrames
  BY <1>28 DEF AudioFrames
<1>29. CASE AudioWait
  BY <1>29 DEF AudioWait, WaitForEvent
<1>30. CASE AudioRender
  BY <1>30 DEF AudioRender
<1>31. CASE AudioWrite
  BY <1>31 DEF AudioWrite
<1>32. CASE ShowMessage
  BY <1>32 DEF ShowMessage
<1>33. CASE TimeoutElapses
  BY <1>33 DEF TimeoutElapses
<1>34. CASE SoundNeedsData
  BY <1>34 DEF SoundNeedsData
<1>35. CASE SoundStops
  BY <1>35 DEF SoundStops
<1>36. ASSUME NEW c \in Parker, Park(c) PROVE PowerInv'
  BY <1>36 DEF Park
<1>37. ASSUME NEW c \in Parker, ParkTest(c) PROVE PowerInv'
  BY <1>37 DEF ParkTest
<1>38. ASSUME NEW c \in Parker, ParkWait(c) PROVE PowerInv'
  BY <1>38 DEF ParkWait, WaitForEvent
<1>39. ASSUME NEW c \in Parker, Unpark(c) PROVE PowerInv'
  BY <1>39 DEF Unpark
<1>40. ASSUME NEW c \in Core, SpuriousEvent(c) PROVE PowerInv'
  BY <1>40 DEF SpuriousEvent
<1>41. CASE UNCHANGED vars
  BY <1>41 DEF vars
<1>42. QED
  BY <1>1, <1>2, <1>3, <1>4, <1>5, <1>6, <1>7, <1>8, <1>9, <1>10, <1>11, <1>12, <1>13, <1>14, <1>15, <1>16, <1>17, <1>18, <1>19, <1>20, <1>21, <1>22, <1>23, <1>24, <1>25, <1>26, <1>27, <1>28, <1>29, <1>30, <1>31, <1>32, <1>33, <1>34, <1>35, <1>36, <1>37, <1>38, <1>39, <1>40, <1>41
     DEF Next, Main, UI, Audio, ParkStep, Environment

(* The relation between the cores' places, the request and CPower's state  *)
(* holds throughout.                                                       *)
THEOREM PowerInvariant == Spec => []PowerInv
BY InvInit, InvStep, TypeCorrect, PTL DEF Spec

(* While the clock is low nothing renders, draws or plays.                 *)
THEOREM LowClockIsQuiet == Spec => []LowClockQuiesced
<1>1. PowerInv => LowClockQuiesced
  BY DEF PowerInv, ReadinessHolds, Quiesced, Stopping, LowClockQuiesced,
         Rendering, Drawing
<1>2. QED
  BY <1>1, PowerInvariant, PTL

(* A UI core that is parked has left its display dark.                     *)
THEOREM ParkedIsDark == Spec => []ParkedDisplayDark
<1>1. PowerInv => ParkedDisplayDark
  BY DEF PowerInv
<1>2. QED
  BY <1>1, PowerInvariant, PTL
=============================================================================
