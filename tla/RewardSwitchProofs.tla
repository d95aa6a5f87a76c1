------------------------- MODULE RewardSwitchProofs -------------------------
(***************************************************************************)
(* The reward switch for every timeout, window and bound: the flash holds  *)
(* the switch, and a SOC that is wrong is told.                            *)
(***************************************************************************)
EXTENDS RewardSwitch, TLAPS

\* No variable leaves its range.
THEOREM TypeCorrect == Spec => []TypeOK
<1>. USE RewardAssumption DEF Switch, Blank
<1>1. Init => TypeOK
  BY DEF Init, TypeOK, Load
<1>2. TypeOK /\ [Next]_vars => TypeOK'
  <2>. SUFFICES ASSUME TypeOK, [Next]_vars PROVE TypeOK'
    OBVIOUS
  <2>. USE DEF TypeOK
  <2>1. ASSUME NEW on \in Switch, reward_flag_set(on) PROVE TypeOK'
    BY <2>1 DEF reward_flag_set, Command, MainLoop, online, soc
  <2>2. CASE factory_reset
    BY <2>2 DEF factory_reset, Command, MainLoop, switch, online, soc, budget
  <2>3. CASE rsp_factory_reset
    BY <2>3 DEF rsp_factory_reset, MainLoop, switch, online, soc, budget
  <2>4. CASE cleanup_factory_reset
    BY <2>4 DEF cleanup_factory_reset, MainLoop, switch, online, soc, budget
  <2>5. CASE save_erase
    BY <2>5 DEF save_erase, switch, online, soc, budget
  <2>6. CASE save_write
    BY <2>6 DEF save_write, Notified, NotHeard, WillBeRepeated, switch, online, soc, budget
  <2>7. CASE heartbeat
    BY <2>7 DEF heartbeat, MainLoop, WindowAt, switch, online, soc, budget
  <2>8. CASE HeartbeatLost
    BY <2>8 DEF HeartbeatLost, switch, online, soc, budget
  <2>9. CASE time_task
    BY <2>9 DEF time_task, MainLoop, Resend, Silent, Notified, switch, online, soc, budget
  <2>10. CASE PowerLoss
    BY <2>10 DEF PowerLoss, Fault, Load, switch, online, soc, budget
  <2>11. CASE SocStops
    BY <2>11 DEF SocStops, Fault, switch, online, soc, budget
  <2>12. CASE SocStarts
    BY <2>12 DEF SocStarts, switch, online, soc, budget
  <2>13. CASE Tick
    BY <2>13 DEF Tick, switch, online, soc, budget
  <2>14. CASE UNCHANGED vars
    BY <2>14 DEF vars, switch, online, soc, budget
  <2>. QED
    BY <2>1, <2>2, <2>3, <2>4, <2>5, <2>6, <2>7, <2>8, <2>9, <2>10, <2>11, <2>12, <2>13, <2>14 DEF Next
<1>. QED
  BY <1>1, <1>2, PTL DEF Spec

\* Outside a save the flash holds the switch the MCU goes by.
THEOREM FlashIsRight == Spec => []FlashHoldsSwitch
<1>. USE DEF Switch, Blank, Load
<1>1. Init => FlashHoldsSwitch
  BY DEF Init, FlashHoldsSwitch
<1>2. TypeOK /\ FlashHoldsSwitch /\ [Next]_vars => FlashHoldsSwitch'
  <2>. SUFFICES ASSUME TypeOK, FlashHoldsSwitch, [Next]_vars
                PROVE  FlashHoldsSwitch'
    OBVIOUS
  <2>. USE DEF TypeOK, FlashHoldsSwitch
  <2>1. ASSUME NEW on \in Switch, reward_flag_set(on) PROVE FlashHoldsSwitch'
    BY <2>1 DEF reward_flag_set, Command, MainLoop, online, soc
  <2>2. CASE factory_reset
    BY <2>2 DEF factory_reset, Command, MainLoop, switch, online, soc, budget
  <2>3. CASE rsp_factory_reset
    BY <2>3 DEF rsp_factory_reset, MainLoop, switch, online, soc, budget
  <2>4. CASE cleanup_factory_reset
    BY <2>4 DEF cleanup_factory_reset, MainLoop, switch, online, soc, budget
  <2>5. CASE save_erase
    BY <2>5 DEF save_erase, switch, online, soc, budget
  <2>6. CASE save_write
    BY <2>6 DEF save_write, Notified, NotHeard, WillBeRepeated, switch, online, soc, budget
  <2>7. CASE heartbeat
    BY <2>7 DEF heartbeat, MainLoop, WindowAt, switch, online, soc, budget
  <2>8. CASE HeartbeatLost
    BY <2>8 DEF HeartbeatLost, switch, online, soc, budget
  <2>9. CASE time_task
    BY <2>9 DEF time_task, MainLoop, Resend, Silent, Notified, switch, online, soc, budget
  <2>10. CASE PowerLoss
    BY <2>10 DEF PowerLoss, Fault, Load, switch, online, soc, budget
  <2>11. CASE SocStops
    BY <2>11 DEF SocStops, Fault, switch, online, soc, budget
  <2>12. CASE SocStarts
    BY <2>12 DEF SocStarts, switch, online, soc, budget
  <2>13. CASE Tick
    BY <2>13 DEF Tick, switch, online, soc, budget
  <2>14. CASE UNCHANGED vars
    BY <2>14 DEF vars, switch, online, soc, budget
  <2>. QED
    BY <2>1, <2>2, <2>3, <2>4, <2>5, <2>6, <2>7, <2>8, <2>9, <2>10, <2>11, <2>12, <2>13, <2>14 DEF Next
<1>. QED
  BY <1>1, <1>2, TypeCorrect, PTL DEF Spec

---------------------------------------------------------------------------
\* A SOC marked online was heard of recently; if it is down, since before it
\* went down.
HeardOf == g_soc_online = 1 => /\ hbAge <= HbTimeout + loopAge
                               /\ socUp = 0 => socAge <= hbAge

LEMMA SocHeardOf == Spec => []HeardOf
<1>. USE RewardAssumption DEF Switch
<1>1. Init => HeardOf
  BY DEF Init, HeardOf
<1>2. TypeOK /\ HeardOf /\ [Next]_vars => HeardOf'
  <2>. SUFFICES ASSUME TypeOK, HeardOf, [Next]_vars PROVE HeardOf'
    OBVIOUS
  <2>. USE DEF TypeOK, HeardOf
  <2>1. ASSUME NEW on \in Switch, reward_flag_set(on) PROVE HeardOf'
    BY <2>1 DEF reward_flag_set, Command, MainLoop, online, soc
  <2>2. CASE factory_reset
    BY <2>2 DEF factory_reset, Command, MainLoop, switch, online, soc, budget
  <2>3. CASE rsp_factory_reset
    BY <2>3 DEF rsp_factory_reset, MainLoop, switch, online, soc, budget
  <2>4. CASE cleanup_factory_reset
    BY <2>4 DEF cleanup_factory_reset, MainLoop, switch, online, soc, budget
  <2>5. CASE save_erase
    BY <2>5 DEF save_erase, switch, online, soc, budget
  <2>6. CASE save_write
    BY <2>6 DEF save_write, Notified, NotHeard, WillBeRepeated, switch, online, soc, budget
  <2>7. CASE heartbeat
    BY <2>7 DEF heartbeat, MainLoop, WindowAt, switch, online, soc, budget
  <2>8. CASE HeartbeatLost
    BY <2>8 DEF HeartbeatLost, switch, online, soc, budget
  <2>9. CASE time_task
    BY <2>9 DEF time_task, MainLoop, Resend, Silent, Notified, switch, online, soc, budget
  <2>10. CASE PowerLoss
    BY <2>10 DEF PowerLoss, Fault, Load, switch, online, soc, budget
  <2>11. CASE SocStops
    BY <2>11 DEF SocStops, Fault, switch, online, soc, budget
  <2>12. CASE SocStarts
    BY <2>12 DEF SocStarts, switch, online, soc, budget
  <2>13. CASE Tick
    BY <2>13 DEF Tick, switch, online, soc, budget
  <2>14. CASE UNCHANGED vars
    BY <2>14 DEF vars, switch, online, soc, budget
  <2>. QED
    BY <2>1, <2>2, <2>3, <2>4, <2>5, <2>6, <2>7, <2>8, <2>9, <2>10, <2>11, <2>12, <2>13, <2>14 DEF Next
<1>. QED
  BY <1>1, <1>2, TypeCorrect, PTL DEF Spec

\* If the SOC is still wrong the window has more repetitions left than may be
\* lost, or the notification of a SET was missed too late for it.
WindowGoesOn ==
  saving = "no" /\ socUp = 1 /\ socFlag # rewardEnabled /\ g_soc_online = 1
  => missed = 1 \/ WillBeRepeated

LEMMA WindowsGoOn ==
  ASSUME MinBoot > HbTimeout + LoopTicks, MaxLosses < SyncCount
  PROVE  Spec => []WindowGoesOn
<1>. USE RewardAssumption DEF Switch, WillBeRepeated
<1>1. Init => WindowGoesOn
  BY DEF Init, WindowGoesOn
<1>2. TypeOK /\ HeardOf /\ WindowGoesOn /\ [Next]_vars => WindowGoesOn'
  <2>. SUFFICES ASSUME TypeOK, HeardOf, WindowGoesOn, [Next]_vars
                PROVE  WindowGoesOn'
    OBVIOUS
  <2>. USE DEF TypeOK, HeardOf, WindowGoesOn
  <2>1. ASSUME NEW on \in Switch, reward_flag_set(on) PROVE WindowGoesOn'
    BY <2>1 DEF reward_flag_set, Command, MainLoop, online, soc
  <2>2. CASE factory_reset
    BY <2>2 DEF factory_reset, Command, MainLoop, switch, online, soc, budget
  <2>3. CASE rsp_factory_reset
    BY <2>3 DEF rsp_factory_reset, MainLoop, switch, online, soc, budget
  <2>4. CASE cleanup_factory_reset
    BY <2>4 DEF cleanup_factory_reset, MainLoop, switch, online, soc, budget
  <2>5. CASE save_erase
    BY <2>5 DEF save_erase, switch, online, soc, budget
  <2>6. CASE save_write
    BY <2>6 DEF save_write, Notified, NotHeard, WillBeRepeated, switch, online, soc, budget
  <2>7. CASE heartbeat
    BY <2>7 DEF heartbeat, MainLoop, WindowAt, switch, online, soc, budget
  <2>8. CASE HeartbeatLost
    BY <2>8 DEF HeartbeatLost, switch, online, soc, budget
  <2>9. CASE time_task
    BY <2>9 DEF time_task, MainLoop, Resend, Silent, Notified, switch, online, soc, budget
  <2>10. CASE PowerLoss
    BY <2>10 DEF PowerLoss, Fault, Load, switch, online, soc, budget
  <2>11. CASE SocStops
    BY <2>11 DEF SocStops, Fault, switch, online, soc, budget
  <2>12. CASE SocStarts
    BY <2>12 DEF SocStarts, switch, online, soc, budget
  <2>13. CASE Tick
    BY <2>13 DEF Tick, switch, online, soc, budget
  <2>14. CASE UNCHANGED vars
    BY <2>14 DEF vars, switch, online, soc, budget
  <2>. QED
    BY <2>1, <2>2, <2>3, <2>4, <2>5, <2>6, <2>7, <2>8, <2>9, <2>10, <2>11, <2>12, <2>13, <2>14 DEF Next
<1>. QED
  BY <1>1, <1>2, TypeCorrect, SocHeardOf, PTL DEF Spec

\* A SOC that takes longer to restart than the MCU takes to notice it, and
\* misses fewer repetitions than a window has, is left with a wrong switch only
\* if the single frame after a SET was lost too late for the window.
THEOREM SocIsTold ==
  ASSUME MinBoot > HbTimeout + LoopTicks, MaxLosses < SyncCount
  PROVE  Spec => []WrongSocIsTold
<1>1. TypeOK /\ WindowGoesOn => WrongSocIsTold
  BY RewardAssumption DEF TypeOK, WindowGoesOn, WillBeRepeated, WrongSocIsTold
<1>. QED
  BY <1>1, TypeCorrect, WindowsGoOn, PTL
=============================================================================
